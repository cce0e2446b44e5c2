------------------------------- MODULE MCBin -------------------------------
(***************************************************************************)
(* Bin on small instances: PINs of two binary digits (so that leading      *)
(* zeros and equal PINs happen), files of at most three bytes of which two *)
(* are read, two keys and one key id that GnuPG does not know.             *)
(***************************************************************************)
EXTENDS Claims, TLC

CONSTANTS x, y, k1, k2, kx   \* bytes and key ids
CONSTANTS w1, w2, rd         \* processes: two that paste and one that gets

Cmd == [early |-> "none", get |-> FALSE, input |-> <<x>>, aes_encrypt |-> FALSE,
        gpg_encrypt |-> FALSE, sign |-> FALSE, no_decrypt |-> FALSE,
        self_recipient |-> FALSE, recipients |-> {}]

GetCmds == {[Cmd EXCEPT !.get = TRUE], [Cmd EXCEPT !.get = TRUE, !.no_decrypt = TRUE]}

Files == {<<>>, <<x>>, <<PGP, x>>, <<PGP, y, x>>, <<x, y, x>>}

GpgCmds(inputs) ==
    {[Cmd EXCEPT !.input = b, !.gpg_encrypt = TRUE, !.recipients = to,
                 !.self_recipient = self, !.sign = s] :
        b \in inputs, to \in {{}, {k2}, {k1, k2}, {kx}}, self \in BOOLEAN, s \in BOOLEAN}

PlainCmds(inputs) == {[Cmd EXCEPT !.input = b] : b \in inputs}
AesCmds(inputs) == {[Cmd EXCEPT !.input = b, !.aes_encrypt = TRUE, !.sign = s] : b \in inputs, s \in BOOLEAN}
SignCmds(inputs) == {[Cmd EXCEPT !.input = b, !.sign = TRUE] : b \in inputs}

Alice == [pgp_key_id |-> k1, secret |-> {k1}, trusted |-> {k1, k2}, engine |-> TRUE]
Bob == [pgp_key_id |-> NoKey, secret |-> {k2}, trusted |-> {k1}, engine |-> TRUE]
Stranger == [pgp_key_id |-> k2, secret |-> {}, trusted |-> {}, engine |-> TRUE]
Confused == [Alice EXCEPT !.pgp_key_id = kx]

NoCodes == {}
TypedCodes == {<<1, 1>>}
NoOldFiles == {}
CutMessages == {<<PGP, y>>}     \* what is left of a message that was cut
NoPackets == {}
Msgpack == (NUL :> "other") @@ (PGP :> "other") @@ (x :> "other") @@ (y :> "other")

\* One process pastes anything, by any user, another gets what it pasted, or a
\* message of somebody else with a damaged signature inside.
PairArgs ==
    (w1 :> GpgCmds(Files) \cup PlainCmds(Files) \cup AesCmds(Files) \cup SignCmds(Files)
           \cup {[Cmd EXCEPT !.early = "fail"]})
        @@ (rd :> GetCmds)
NoGnuPG == [Bob EXCEPT !.engine = FALSE]
PairConfs == {Alice, Bob, Stranger, Confused, NoGnuPG}
PairStreams == {<<1, 2>>}
PairPackets ==
    {<<<<1, 1>>, serialize([form |-> "gpg", body |-> <<x>>, pwd |-> <<>>, to |-> {k1, k2},
                            signer |-> Damaged], EmptySig)>>}

\* Two processes paste, at the same or at different locations, a third gets; an
\* older client may use one of the locations too, and some other program stores
\* there a packet with a damaged signature.
RaceArgs ==
    (w1 :> PlainCmds({<<x>>}) \cup AesCmds({<<x>>}) \cup SignCmds({<<x>>}))
        @@ (w2 :> PlainCmds({<<y>>}) \cup {[Cmd EXCEPT !.input = <<y>>, !.aes_encrypt = TRUE]})
        @@ (rd :> {[Cmd EXCEPT !.get = TRUE]})
RaceConfs == {Alice}
RaceStreams == {<<0, 1>>, <<2, 2>>}
RaceOldFiles == {<<<<1, 0>>, <<y, x>>>>}
RacePackets == {<<<<1, 0>>, serialize(Plain(<<y>>), [signer |-> Damaged, body |-> <<y>>])>>}
=============================================================================
