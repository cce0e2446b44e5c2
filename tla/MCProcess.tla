----------------------------- MODULE MCProcess -----------------------------
(***************************************************************************)
(* Process on a small instance: one process, with its node, started with   *)
(* any kind of command line, on a system with or without GnuPG, and given  *)
(* codes a user types; another process pastes beside it, and older clients *)
(* store files of each kind msgpack tells apart.                           *)
(***************************************************************************)
EXTENDS Process, TLC

CONSTANTS x, y, k1    \* bytes and a key id
CONSTANTS me, other   \* processes

Cmd == [early |-> "none", get |-> FALSE, input |-> <<x>>, aes_encrypt |-> FALSE,
        gpg_encrypt |-> FALSE, sign |-> FALSE, no_decrypt |-> FALSE,
        self_recipient |-> FALSE, recipients |-> {}]

MCArgs ==
    (me :> {[Cmd EXCEPT !.early = e] : e \in {"fail", "help", "version"}}
           \cup {Cmd, [Cmd EXCEPT !.get = TRUE], [Cmd EXCEPT !.get = TRUE, !.no_decrypt = TRUE]})
        @@ (other :> {[Cmd EXCEPT !.input = <<y>>, !.aes_encrypt = TRUE]})

User == [pgp_key_id |-> NoKey, secret |-> {k1}, trusted |-> {k1}, engine |-> TRUE]
MCConfs == {User, [User EXCEPT !.engine = FALSE]}

MCStreams == {<<0, 1>>}
MCCodes == {<<>>, <<1>>, <<1, 1>>, <<0, 0>>, <<DPASTE_URI_PREFIX, 1, 1, 0, 1>>}
MCMsgpack == (NUL :> "invalid") @@ (PGP :> "other") @@ (x :> "other") @@ (y :> "map")
NoDamagedFiles == {}
NoPackets == {}
OldFiles == {<<<<1, 1>>, <<x, y>>>>, <<<<0, 0>>, <<y>>>>, <<<<0, 0>>, <<NUL, x>>>>}
=============================================================================
