# dpaste in TLA+

A verification project for [dpaste](../src/README.md), a pastebin on the OpenDHT
distributed hash table. The modules model what the source under `src/src/` does;
TLC checks them on small instances and TLAPS proves the main results for every
value of the constants.

## 1. The system

| Component | Source | State it keeps | Operations | Talks to |
|---|---|---|---|---|
| Command line | `main.cpp` | parsed arguments, exit status | `parseArgs`, `params_from_args`, `main` | Bin, Cipher |
| Bin | `bin.cpp`, `bin.h` | configuration, the statics of `random_pin`, HTTP client, node | `paste`, `get`, `prepare_data`, `random_pin`, `code_from_dpaste_uri`, `Packet::(de)serialize` | HTTP client first, then Node; Ciphers |
| Node | `node.cpp`, `node.h` | `running_`; in each blocking call a mutex, a condition variable, `done`, `success_` | `run`, `stop`, the destructor, `paste` and `get`, blocking or with a callback | `dht::DhtRunner`, whose thread runs the callbacks |
| Ciphers | `cipher.*`, `gpgcrypto.*`, `aescrypto.*` | a GnuPG context with a signing key | `Cipher::get`, `processPlainText`, `processCipherText`, `sign`, `verify` | GnuPG, OpenDHT's AES-GCM |
| HTTP client | `http_client.*` | host and port | `put`, `get` | an OpenDHT HTTP gateway |
| Configuration file | `conf.*` | the map of options | `load` | Bin |
| Log, curlpp options, build files | `log.*`, `curlpp/Options.hpp`, ... | - | - | - |

What is hard in it: the two threads of `Node` share variables in the stack frame
of a call; two variables are read uninitialised (`done`, `scheme`) and a third may be (`port`); a paste is
tried over HTTP and then again through the node, so a put can take effect twice
or late; processes share the DHT and may draw the same PIN; values expire; a code
is cut by widths that are written in two headers; an empty cipher text stands for
"not encrypted"; the path of each exception decides what `main` returns; anybody may
store a value at any location; no HTTP request has a time-out. The list with its lines
is `hazards` in `PROJECT.json`.

What makes each part correct:

* Node: a blocking paste answers what the DHT reported; nothing writes to a frame
  that is gone; `stop` and the callbacks never wait for each other for ever.
* Bin: a URI that was printed leads to the paste, and reading it gives the file
  back; a retry changes nothing; a failure has a cause; a process that is through with
  the HTTP service exits, with its node.
* Ciphers: a file that was to be encrypted is; a signature that was made reaches the
  reader.
* Configuration file: an option has the value of the last line that sets it.

## 2. Modules

| Module | Models | State | Actions or operators |
|---|---|---|---|
| `Codes` | PINs and URIs: `random_pin`, `code_from_dpaste_uri`, the cut in `Bin::get` | none | `pin_text`, `random_pin`, `code_from_dpaste_uri`, `lcode`, `pwd_part`, `uri_of` |
| `Ciphers` | the cipher classes | none | one operator per method, giving the data or the exception |
| `Bin` | processes that run `main` once, the DHT and the HTTP gateway around them | per process: arguments, user, generator, code, password, packet, URI, the value on its way back, output, status; the DHT: the values ever `published` | one action for each stretch of `main`/`paste`/`get` between two waits, per outcome of the wait; `Land` and `Fetch` for the network, `LegacyPut` and `ForeignPut` for others who store |
| `Pastebin` | what `Bin` promises its users | notes, what each asked for, the answer, the board | `Write`, `PinUp`, `Ask`, `Posted`, `Shown`, `Nothing`, `Declined` |
| `Startup` | `parseArgs`, the early exits of `main`, `ConfigurationFile::load`, the constructor of `Bin` | options and lines still to read, the rest of a line, parsed arguments, `config_`, `port` | one action per turn of each loop, `main`, `Bin_ctor` |
| `Claims` | - | - | what the documentation says where the code differs |
| `Node` | `Node`, with every access to shared memory a step | the two threads' positions, per call: kind, progress, outcome, frame, mutex, result | `run`, `paste`, `paste_cb`, `get`, `get_cb`, `stop`, `destroy`; the steps of `cv.wait`; the steps of the callbacks; `CbHangs`, a callback that does not come back from a frame that is gone |
| `PutService` | what `Node` promises of a blocking paste | per call: phase, whether it waits, its put, its answer | `Request`, `Decide`, `Return`, `Lose` |
| `Process` | one process with both threads of its node: `Bin` and `Node` composed | that of both | `Construct`, `Http`, `CallNode`, `PasteReturns`, `GetReturns`, `Destroy`; the steps of `Node` |
| `MCBin`, `MCNode`, `MCProcess`, `MCStartup` | instances for TLC | - | - |
| `NodeProofs` | theorems about `Node` | - | - |
| `BinProofs`, `BinTypes`, `BinSafety`, `PastebinProofs` | theorems about `Bin`: URIs, types, what a get shows, the refinement of `Pastebin`; each extends the one before | - | - |
| `ProcessProofs` | theorems about `Process`: the refinement of `Bin` | - | - |
| `StartupProofs` | theorems about `Startup` | - | - |
| `NumberFacts` | what `Min` and `Max` of a set of numbers are | - | - |

`Bin` extends `Ciphers`, which extends `Codes`; `Claims`, `BinProofs` and `Process`
extend `Bin`. `Startup` ends where a process of `Bin` begins: its `pa` is the
process's `job`, its `pgp_key_id` that of the process's user.

The specifications build on each other; an arrow leads from a specification to the
more abstract one that it is shown to implement:

```
Pastebin     files left under codes, read by whoever has the code
   ^  ImplementsPastebin (run race, theorem BinImplementsPastebin)
  Bin        processes, HTTP and node calls as single steps
   ^  ImplementsBin (run process, theorem ProcessImplementsBin)
Process      the same, one process with its node's two threads
   |  contains
 Node        threads, mutex, condition variable, frames
   v  ImplementsPutService (run node, theorem ImplementsPutServiceThm)
PutService   a put that is asked for, decided once, answered once
```

In `Bin` the call of the node is one step with the outcomes that `Node` allows: true
only when the value is in the DHT, false otherwise, perhaps with the put still under
way. `ImplementsBin` is what makes that an observation and not an assumption. In
`Process` the process makes one call to its node, as `Bin::paste` and `Bin::get` do;
the nodes of the other processes remain single steps.

Names are those of the source where TLA+ allows it. A definition with a suffix and
a comment that begins "A slip" is a wrong variant of the next definition; nothing
uses it. `PROJECT.json` (`mutants`) says which property notices which slip.

### Abstractions

* A text is a sequence of digits, with "dpaste:" as one character. The radix and
  the three widths are constants; the code has 16, 8, 4 (bytes) and 16.
* A byte vector is a record that says what it is: plain bytes, an AES message with
  its password, an OpenPGP message with its recipients and its signer. GnuPG and
  AES-GCM are ideal: a message opens with the right key and no other. Whether bytes look
  like an OpenPGP message is told by their first byte. Not everything that reaches them
  is sound: a message or a signature of another program may be damaged (`Damaged`), and
  so may a message that was pasted as a file (`DamagedFiles`, one that was cut off at
  `MAX_VALUE_SIZE`, for instance); then `decryptAndVerify` and `verify` throw, as in
  `gpgcrypto.cpp:155-158` and `190`. The signatures inside a message that was pasted as a
  file are left out.
* `GPG_verify` is `verifyOpaqueSignature`: GnuPG checks the bytes that are *inside* the
  signature. `Bin::get` does not compare them with the data it shows, so on a DHT where
  anybody may store, a packet that joins one file with the signature of another is
  reported as signed. No property says, therefore, that a signer who is reported signed
  what is shown; `SignatureReachesReader` says what the code does ensure, of a paste that
  is alone at its location.
* A stored value is its msgpack type, the keys it has and the fields; what an older
  client stored is bare bytes, and the constant `MsgpackType` says what msgpack
  makes of them (a map, something else, or no msgpack at all).
* A line of the configuration file is a sequence of '=', spaces, other white space and
  words; `Extract` says which number the stream operator reads of a word.
* The hash of a PIN is taken as injective.
* Anybody may store: `LegacyValues` are the files of older clients, `ForeignPackets` any
  other packets, also such as no dpaste makes, and `ForeignAssumption` only says that
  they are values at some PIN. What is promised of a paste alone at its location
  (`Sole`) is promised of one whose location none of them, and no other paste, uses;
  what is promised of any (`UriLeadsToPaste`, `ImplementsPastebin`, the types) holds
  beside them. A location is one of 2^32 and a PIN is not kept secret, so `Sole` is an
  assumption on others and not something the code enforces.
* `published` only grows: it holds every value the DHT has or had. That a value has
  expired shows as a get that does not find it, which `HttpGetEmpty` and
  `NodeGetEmpty` allow at any time.
* A put takes effect (`Land`) at any time after it was sent, any number of times, or
  never; the caller's answer is independent of it but for one thing, that a success
  is reported only of a value that has landed. A value that a get found is kept in
  `received` until the process takes it (`Fetch`, then `HttpGetFound` or
  `NodeGetFound`), so others may store in between.
* `DhtRunner` is external. The destructor of `Node` joins its thread; a callback that
  is being run ends first, and the operations that are still open are dropped without
  one.
* The uninitialised `done` is any Boolean, the uninitialised `scheme` any of its
  values. After a use of a frame that is gone anything may happen in the program.
  `Node` records the access in `stale`; a flag that is written there has no effect; a
  mutex or a condition variable that was destroyed may work as if it were free, or never
  give the thread back (`CbHangs`, `cb = "hung"`). What such a write may do to a frame
  that was made later in the same place is left out; `Bin` makes one call of its node
  only. The safety properties that would be void after such an access say so (`~done0`),
  and the liveness properties except the states in which the DHT thread hangs
  (`DhtThreadLost`, which also says in which frames that is possible).
* In `params_from_args` the flag `self_recipient` of a sign-only paste is not
  initialised either; it is only read when there are recipients, which there are
  not.

## 3. Runs

| Run | Configuration | Shows |
|---|---|---|
| `node` | 2 calls, any kinds in any order, at most 2 values per get; 9,432 states | `TypeOK`, `TrueMeansStored`, `PasteAnswersOutcome`, `FrameOutlivesWrites`, `StopFrameOutlivesCallback`, `RunningIsAccurate`, `ImplementsPutService`, `BlockedCallsReturn`, `CallbacksCalled` |
| `pair` | one paste with any of 101 command lines, five users (one without GnuPG), one reader, a foreign OpenPGP message with a damaged signature that the reader may ask for; 339,360 states | `RoundTrip`, `FailsOnlyIfUnreadable`, `EncryptsWhenAsked`, `SignatureReachesReader` |
| `race` | two pastes (plain, AES, signed) at equal or different PINs, an older client and a foreign packet with a damaged signature at one of them, one reader; 214,672 states | `UriLeadsToPaste`, `RetryStoresSameBlob`, `RoundTrip`, `ImplementsPastebin` |
| `process` | a process with its node: a paste, gets of typed codes (too short, without prefix, with a password), early exits, no GnuPG; another process; older values of each msgpack type; 149,896 states | `TypeOK`, `OldFilesReadable`, `ImplementsBin`, `ProcessEnds` |
| `startup` | command lines of up to three of twelve options, files of up to two of fifteen lines; 425,301 states | `TypeOK`, `ArgumentsUnderstood`, `LastValueWins`, `PortIsRead` |

Seven runs end in a violation, one for each claim of the documentation or of a test
that the code does not keep:

| Run | Claim | What the code does |
|---|---|---|
| `claim_plain` | a test: a paste without options comes back | `scheme` is not initialised; as `AES` it encrypts with an empty password that the URI does not carry |
| `claim_gpg` | README: the PIN retrieves the pasted file | a NUL is appended before GPG encryption and stays |
| `claim_gpg_encrypt` | manual: `--gpg-encrypt` encrypts | without `-r` the file is stored as it is |
| `claim_passphrase` | README: a random passphrase is generated | `initialized` is never set, so both draws of a process are the same number |
| `claim_found` | manual: 0 on success, otherwise 1 | a get that finds nothing exits with 0 |
| `claim_blocks` | `node.h`: paste blocks until done | `done` is not initialised; paste may return at once |
| `claim_malformed` | `conf.h`: malformed lines are omitted | the inner loop of `load` goes on after an unknown name, so `foo = port = 6500` sets the port |

Two more departures from the manual's "0 or 1" are in the model as the exit status
`abort`: a code shorter than eight characters, and any exception of GnuPG in a
paste or of JSON or msgpack in a get, which `main` does not catch.

`LastValueWins` therefore leaves the options aside that some line of the file sets from
its middle (`Hides`). One uninitialised read is left at start-up, and `PortIsRead` says
exactly when it happens: `trim_str` removes spaces only, so a line that sets the port to a
tab or a carriage return is kept, and `conv >> port` (`bin.cpp:45-49`) then finds nothing
to read and leaves `port` as it is. The documentation says nothing of such a line, so
there is no claim to refute, but it is a defect.

A get of a location that others use may show any value that is there, and ends with 1 if
that value is damaged; in `pair` and `race` the foreign packets are met that way.

### Bounds, and why they are enough

* One call and one value in `process`: a process makes one call to its node, and only
  the front of what a get found is used. Its paste and its get, the HTTP attempt before
  them and a late put of the other process are all there.
* Two calls in `node`: one that leaves an operation or a callback behind, and one that
  comes upon it, a `stop` that drops or overtakes it among them; `run` and `destroy` are
  no calls and may come before, between and after. Every hazard listed is between a call
  and the callback of its own or of one earlier call. The proofs of the seven safety
  properties lift the bound.
* Two digits of radix two for a PIN: there are PINs with leading zeros, equal PINs
  and different ones. Three bytes of input with two read: empty, short, cut.
* Two processes that paste and one that gets: more readers do not interact, and a
  collision needs two writers. One foreign packet in each of `pair` and `race`, damaged in
  the two ways that end in an exception (inside a message, beside a file); the proofs
  allow any set of packets.
* Two lines of a file: the loop over lines keeps nothing but `config_` from one line
  to the next, so a setting and what overrides it or fails to is all there is; the
  fifteen lines have every position of blanks, '=' and names.
* Deadlock is not checked: processes exit, and in `Node` the calls are used up.

### Fairness

* `Node!FairSpec`: both threads are scheduled (weak fairness); an operation that the
  running DHT took up ends, which is OpenDHT's contract; a mutex that is free again
  and again is acquired (strong fairness, needed because the waiter may wake by
  itself any number of times). No call, no value, no spurious wake-up and no hanging is
  forced.
* `Process!FairProcess`: that of `Node` for the node of the process, and that `main`
  reaches the destructor. Nothing is asked of HTTP: the client sets no time-out
  (`http_client.cpp:54,85`), so a service that accepts a connection and stays silent holds
  up a process for ever, and `ProcessEnds` begins where the process has a node and is
  through with the service. Nothing is assumed of late puts, other processes or users.
* `Bin` and `Startup` have no fairness and no liveness property: `Bin` has no loop, and
  whether it goes on is the question of its HTTP requests and of its node; the loops of
  `load` and `parseArgs` consume finite sequences.

`BlockedCallsReturn` is about a running node: `paste`, `get` and `stop` called before
`run` wait for a thread that does not exist, in the model as in the code. It excepts
`DhtThreadLost`: after a paste whose `done` started as true, or whose waiter woke by itself
just before the notification, the DHT thread may be stuck in a mutex or condition variable
that was destroyed, and then no later call of the node comes back. `ProcessEnds` has the
same exception, for the join in `~Node`.
`CallbacksCalled` has the two exceptions that the code has: the destructor or `stop`
drops an operation, and a get that failed does not call `pcb` (`node.cpp:71`); and again
`DhtThreadLost`.

## 4. Proofs

`NodeProofs`: `Spec => []P` for each of the six invariants of the run `node`, for
any set of calls and any `MaxValues`, from `NodeAssumption`. None of the properties
but `TypeOK` is inductive. The invariant `IInv` adds: where each thread is and which
call, frame and mutex that implies (`AppControl`, `CbControl`); that an operation has
an outcome exactly once its callback was entered; that `success_` is right once the
callback is past its first step; that a `done` which started as false is set only by
the callback, so that a paste holding the mutex and seeing it knows that the callback
has released the mutex and has at most the notification left (`PasteInv`); that the
frame of `stop` lives until its callback ended (`StopInv`); that a callback which hangs
does so in a frame that is gone, with the access recorded (`HangInv`). Each action is a
step of the proof, each part of the invariant a step below it.

`LostOnlyInReturnedFrames` rests on it too: the DHT thread hangs only if `DhtThreadLost`
holds, that is in the frame of a paste that has returned, and only with `done` started as
true or a waiter that woke up by itself. This is what makes the exception of the liveness
properties narrow: neither `stop` nor a paste that started well and was notified loses the
thread.

`ImplementsPutServiceThm` rests on the same invariant: `Spec => ImplementsPutService`,
for any set of calls. The mapping (`Phase`, `Sure`, `Put`, `ToldCaller`) is told call by
call; four lemmas turn what happens to the mapped values of one call into a step of
`PutService`, and `PutStep` goes through the actions: `paste` is a `Request`, the entry
of the callback decides, `PasteReturn` returns, `stop` and `destroy` lose what nobody
waits for, and every other step, the mutex, the condition variable and the callback's
stores among them, changes nothing.

`BinProofs`: `UriIsCutBack`, for every width, says that cutting a URI undoes making
it; `UriLeadsToPasteThm` lifts it to `Spec => []UriLeadsToPaste`, for any number of
processes, command lines, users, streams and values in the DHT. The invariant
`UriInv` says that a process past its start has drawn PINs of full width and that a
printed URI is made of them and of a packet that was published. Assumptions:
`CodesAssumption` (the widths agree: 2 * `CODE_PASS_OFFSET` = `DPASTE_PIN_LEN`,
`PIN_WITH_PASS_LEN` is twice that; the two headers satisfy it), `BinAssumption`, and
`PowersAssumption`, that the powers of the radix are positive naturals, which is
arithmetic that the provers lack.

`BinTypes`: `BinTypeCorrect`, `Spec => []TypeOK`. A lemma for each operator of `Ciphers`
and `Bin` says what kind of thing it gives back; `TypeOK` itself needs `TypeInv`, because
that every location in the DHT is a PIN of full width rests on where a packet comes
from: a process that has a packet has drawn a PIN for it.

`BinSafety`: the six safety invariants of the runs `pair`, `race` and `process` that are
about contents, for any number of processes, any command lines, users, keys, files and
widths: `EncryptsWhenAsked`, `RetryStoresSameBlob`, `RoundTrip`, `FailsOnlyIfUnreadable`,
`SignatureReachesReader`, `OldFilesReadable`. They follow from one inductive invariant,
`BinInv`:

* `PacketInv`: from the first put to the exit, the packet is what `prepare_data` makes of
  the command line with the scheme that was read and the password that was drawn. This is
  what a retry, a late put and a first attempt that failed leave alone.
* `GetInv`: a get under way has cut its code, and the value on its way to it is or was at
  its location.
* `EndInv`: what a get shows is `decode` of *some* value of its location. The properties
  speak of the pasted file; between the two lies what the network did, and the
  invariant says that it can choose a value and not change one.
* `PublishedInv`: whatever the DHT holds is the packet of a paste, a file of an older
  client or a foreign packet.

From there on the proofs are about data: `PreparedKinds` shows that a packet is one of
three kinds (AES, OpenPGP, plain with or without a signature), and `DecodePacket`,
`GivenCode` and the lemmas after them show what `decode` makes of each kind with the code
of its URI. `GivenCode` is where the widths matter: the length of the code tells an AES
paste from any other. `PacketSigner` says who signed a packet, on either path, and that no
signature dpaste made is damaged; `PacketOpens` what a reader with the password makes of a
packet (the file and its signer, or why not); `GivenEnds` joins it with what the network
allows, and `RoundTrip`, `FailsOnlyIfUnreadable` and `SignatureReachesReader` are read off
it. `OldFilesReadable` needs `received` in `EndInv`: a get that ends by exception has
nothing received but an answer that is no list.

`PastebinProofs`: `BinImplementsPastebin`, `Spec => ImplementsPastebin`. The mapping is
`NoteOf`, `AskedBy` and `AnswerTo`, each told of one process; `BoardInv` joins `BinInv` and
`UriInv`. `StartPaste` writes a note, `Land`, `LegacyPut` and `ForeignPut` pin one up, a put that
succeeded tells its place, `StartGet` asks, the end of a get shows or declines, and the
failed HTTP attempt, the fallback and `Fetch` change nothing a client sees.

`ProcessProofs`: `ProcessImplementsBin`, `ProcessSpec => ImplementsBin`, and with it
`ProcessIsClient`: what is proved of `Bin` holds of a process with two threads. The
invariant `ProcessInv` ties the two halves together: the application thread is in
`Node::paste` or `Node::get` only while `Bin` waits there (`CallInv`); `success_` is true
only for a put that was reported as stored, and then the packet is in the DHT
(`PutInv`), which holds whatever `done` started as and although `success_` is written
outside the mutex; the blobs of a get are none exactly when no value is on its way to
`Bin` (`FoundInv`). Every step inside a call is then a stutter of `Bin`, and a return is
the step of `Bin` with the same outcome. `ProcessUsesNode`
(`ProcessSpec => N!Spec`) is the other projection: `Bin` uses its node only in ways that
`Node` allows, so the theorems of `NodeProofs` hold of it where `NodeAssumption` does.
The refinement of `Bin` assumes `ProcessAssumption` (`self` is one of the processes) and
what `BinTypes` assumes, nothing of `Call` or `MaxValues`.

`StartupProofs`: `StartupTypeCorrect`, `ArgumentsUnderstoodThm`, `LastValueWinsThm` and
`PortIsReadThm`, for command lines and files of any length. The two loops are reasoned
about by what is behind them: `ArgsInv` says that the parsed arguments are those of the
options already read, `FileInv` that every option has the value that the lines already
read give it and, inside a line, either still that value, with the line passed over up to
where the stream stands, or the one of this line, with the stream used up. The lemmas
`NextTurn` and `TurnDecides` show that one turn of the inner loop moves from one '=' to
the next and stops at the first that ends the name of an option. `LastValueWins` follows
for the options that no line sets from its middle. Assumption:
`StartupAssumption` (words are neither blanks nor '=', the default port is not empty, the
inputs are of their types).

`NumberFacts`: the least and the greatest element of a set, which codes, command lines and
lines are cut and searched by. That every set of naturals has a least element is an
induction; it is taken from the well-foundedness theorem of the library.

Only model-checked: the three liveness properties `BlockedCallsReturn`, `CallbacksCalled`
and `ProcessEnds`, since fairness and `ENABLED` are out of the prover's reach. Every other
property of a passing run is a theorem.

## 5. Not modelled

`log.*` (messages), `curlpp/Options.hpp` (a copied library header), the build files;
the layout of HTTP requests and the encodings (base64, JSON, msgpack) beyond which
outcome they lead to; the text of `print_help`; the inside of OpenDHT and GnuPG.

## 6. Plan

Done: `Codes`, `Ciphers`, `Bin`, `Node`, `Startup`, the abstract specifications
`PutService` and `Pastebin`, the composition `Process`, their runs, and the proofs
above.

Left: the hand-over from `Startup` to the `job` of a process, which is a correspondence
of names today, as a composition like `Process`.
