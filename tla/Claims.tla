------------------------------ MODULE Claims ------------------------------
(***************************************************************************)
(* What the manual, the README, a comment or a test says of pasting and    *)
(* getting, where the code does something else.  Each claim is refuted by  *)
(* a run of its own.                                                       *)
(***************************************************************************)
EXTENDS Bin

\* g read p's paste, alone at its location, and ended well.
ReadBack(g, p) ==
    /\ GivenUriOf(g, p) /\ Sole(p)
    /\ exit[g] = "0" /\ ~job[g].no_decrypt /\ out[g] # Empty

(***************************************************************************)
(* tests/bin.cpp:61, after a paste without parameters: the bytes that      *)
(* Bin::get gives back are the bytes pasted.  (Files that are OpenPGP      *)
(* messages are left aside.)                                               *)
(***************************************************************************)
PlainFileComesBack ==
    \A g, p \in Proc :
        ReadBack(g, p) /\ Params(p).kind = "null" /\ ~isGPGencrypted(Plain(job[p].input))
            => out[g] = Plain(data_from_stream(job[p].input))

\* README.md:13, the PIN "is used to retrieve the pasted file", and line 21
\* offers --gpg-encrypt -r for it: what comes back is the file.
EncryptedFileComesBack ==
    \A g, p \in Proc :
        ReadBack(g, p) /\ Params(p).kind = "GPG" /\ Params(p).recipients # {}
            => out[g] = Plain(data_from_stream(job[p].input))

\* doc/dpaste.1:43, --gpg-encrypt: "Use GPG scheme for encryption."
GpgEncryptEncrypts ==
    \A p \in Proc :
        Pasted(p) /\ job[p].gpg_encrypt /\ ~job[p].aes_encrypt => blob[p].data.form = "gpg"

(***************************************************************************)
(* README.md:30, --aes-encrypt "will generate a random 32-bit passphrase": *)
(* the passphrase is a number drawn for it, so when the generator yields   *)
(* two different numbers it is not the location code.                      *)
(***************************************************************************)
PassphraseIsDrawn ==
    \A p \in Proc :
        Pasted(p) /\ Params(p).kind = "AES" /\ rng[p].stream[1] # rng[p].stream[2]
            => pwd[p] # code[p]

\* doc/dpaste.1:68, "The program returns 0 on success. Otherwise 1 is
\* returned.": for a get, 0 means that there was a value to print.
ZeroMeansFound ==
    \A g \in Proc :
        job[g].get /\ ~Pasted(g) /\ exit[g] = "0" =>
            \E e \in published : e[1] = lcode(code[g])
=============================================================================
