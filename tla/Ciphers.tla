------------------------------ MODULE Ciphers ------------------------------
(***************************************************************************)
(* The ciphers of dpaste (src/src/cipher.cpp, gpgcrypto.cpp,               *)
(* aescrypto.cpp) as operators.  A byte vector is a record that says what  *)
(* its bytes are: plain bytes, an AES-GCM message or an OpenPGP message,   *)
(* with the plain bytes inside and what is needed to open it.  GnuPG and   *)
(* the OpenDHT crypto layer are external: they are ideal here, a message   *)
(* opens with the right password or secret key and with nothing else.  A   *)
(* message, or a signature, that no dpaste made can be damaged, so that    *)
(* GnuPG ends with an error.                                               *)
(***************************************************************************)
EXTENDS Codes

CONSTANTS
    Byte,     \* bytes the model tells apart
    NUL,      \* the byte '\0'
    PGP,      \* first byte of plain bytes that are themselves an OpenPGP message
    KeyName,  \* key ids a user can type
    Key,      \* the key ids GnuPG finds
    NoKey,    \* the empty key id; as a signer: none, or one GnuPG does not know
    Damaged,  \* in the place of a signer: verification ends with an error
    DamagedFiles  \* files that look like an OpenPGP message and are damaged

ASSUME CiphersAssumption ==
    /\ {NUL, PGP} \subseteq Byte
    /\ Key \subseteq KeyName
    /\ NoKey \notin KeyName
    /\ Damaged \notin KeyName \cup {NoKey}
    /\ DamagedFiles \subseteq Seq(Byte)

Bytes == Seq(Byte)
Signer == Key \cup {NoKey}
Signature == Signer \cup {Damaged}

\* Cipher::Scheme, and any other value an uninitialised Scheme can hold.
Scheme == {"NONE", "GPG", "AES", "OTHER"}

Data == [form : {"plain", "aes", "gpg"}, body : Bytes, pwd : Text,
         to : SUBSET Key, signer : Signature]

Plain(b) == [form |-> "plain", body |-> b, pwd |-> <<>>, to |-> {}, signer |-> NoKey]
Empty == Plain(<<>>)

\* A result of GPG::sign: the signed bytes are in it.  EmptySig is the empty vector.
Sig == [signer : Signature, body : Bytes]
EmptySig == [signer |-> NoKey, body |-> <<>>]

\* The Parameters of a paste: a pointer to one of two alternatives, or none.
Parameters == [kind : {"null", "GPG", "AES"}, recipients : SUBSET KeyName,
               self_recipient : BOOLEAN, sign : BOOLEAN]

\* What a call gives back: an exception, or data and the signer it reports.
Error == {"none", "GpgME", "DecryptError"}
Ok(d, s) == [err |-> "none", data |-> d, signer |-> s]
Throw(e) == [err |-> e, data |-> Empty, signer |-> NoKey]

-----------------------------------------------------------------------------
(* GPG *)

\* getKey throws for a key id the key ring does not have.
KeyMissing(k) == k \notin Key

\* The constructor looks the signer up unless it is empty.
GPG_fails(signerKey) == signerKey # NoKey /\ KeyMissing(signerKey)

\* gpgme's identification of the bytes as an encrypted OpenPGP message.
isGPGencrypted(d) ==
    \/ d.form = "gpg"
    \/ d.form = "plain" /\ d.body # <<>> /\ d.body[1] = PGP

(***************************************************************************)
(* encrypt: an empty vector if a signature is asked for and there is no    *)
(* signing key; an exception if a recipient is unknown or the signature    *)
(* cannot be made; else the message, of the bytes and one NUL more.        *)
(***************************************************************************)
GPG_encrypt(to, b, sign, signerKey, secret) ==
    IF sign /\ signerKey = NoKey THEN Ok(Empty, NoKey)
    ELSE IF (\E k \in to : KeyMissing(k)) \/ (sign /\ signerKey \notin secret)
         THEN Throw("GpgME")
         ELSE Ok([form |-> "gpg", body |-> Append(b, NUL), pwd |-> <<>>, to |-> to,
                  signer |-> IF sign THEN signerKey ELSE NoKey], NoKey)

\* Two slips in processPlainText: a signature is asked of a context that has
\* no signing key; a signature is made though nobody asked for it.
GPG_processPlainText_sign_without_key(b, params, signerKey, secret) ==
    IF params.recipients # {}
    THEN GPG_encrypt(params.recipients, b, params.sign, signerKey, secret)
    ELSE Ok(Empty, NoKey)

GPG_processPlainText_always_sign(b, params, signerKey, secret) ==
    IF params.recipients # {}
    THEN GPG_encrypt(params.recipients, b, signerKey # NoKey, signerKey, secret)
    ELSE Ok(Empty, NoKey)

\* processPlainText: the user's own key joins a non-empty list of recipients;
\* without recipients nothing is encrypted and the result is empty.
GPG_processPlainText(b, params, signerKey, secret) ==
    LET to == params.recipients \cup
                  {k \in {signerKey} : /\ params.recipients # {}
                                       /\ params.self_recipient
                                       /\ k # NoKey}
        to_sign == params.sign /\ signerKey # NoKey
    IN  IF to # {} THEN GPG_encrypt(to, b, to_sign, signerKey, secret)
                   ELSE Ok(Empty, NoKey)

\* sign: an empty vector without a signing key, an exception if GnuPG cannot.
GPG_sign(b, signerKey, secret) ==
    CASE signerKey = NoKey       -> [err |-> "none", sig |-> EmptySig]
      [] signerKey \in secret    -> [err |-> "none", sig |-> [signer |-> signerKey, body |-> b]]
      [] OTHER                   -> [err |-> "GpgME", sig |-> EmptySig]

\* comment_on_signature names the signer only if the signature is valid for
\* the user, which takes a key the user trusts.
comment_on_signature(s, trusted) == IF s \in trusted THEN s ELSE NoKey

(***************************************************************************)
(* verify: GnuPG checks the bytes that are inside the signature, which     *)
(* need not be those the caller shows: its plain_text only receives them,  *)
(* in a copy.  A signature it cannot process throws.                       *)
(***************************************************************************)
GPG_verify(s) ==
    IF s.signer = Damaged THEN Throw("GpgME") ELSE Ok(Plain(s.body), s.signer)

\* The keys that open an OpenPGP message; the model lets any key open one that
\* was pasted as a file.
Readers(d) == IF d.form = "gpg" THEN d.to ELSE Key

\* What makes decryptAndVerify end with an error, of either of its results.
decrypt_error(d, secret) ==
    \/ Readers(d) \cap secret = {}
    \/ d.form = "plain" /\ d.body \in DamagedFiles
sign_error(d) == d.signer = Damaged

\* processCipherText: decrypt and verify.  A message pasted as a file is its
\* content after the header.
GPG_processCipherText(d, secret, trusted) ==
    LET b == IF d.form = "gpg" THEN d.body ELSE Tail(d.body)
    IN  IF decrypt_error(d, secret) \/ sign_error(d) THEN Throw("GpgME")
        ELSE Ok(Plain(b), comment_on_signature(d.signer, trusted))

-----------------------------------------------------------------------------
(* AES *)

AES_processPlainText(b, password) ==
    [form |-> "aes", body |-> b, pwd |-> password, to |-> {}, signer |-> NoKey]

AES_processCipherText(d, password) ==
    IF d.form = "aes" /\ d.pwd = password THEN Ok(Plain(d.body), NoKey)
                                          ELSE Throw("DecryptError")

-----------------------------------------------------------------------------
(* Cipher *)

\* Cipher::get(scheme, params): no cipher for any other value.
Cipher_get(scheme) == IF scheme \in {"GPG", "AES"} THEN scheme ELSE "NONE"

\* A slip: only a code longer than PIN_WITH_PASS_LEN carries a password.
cipher_for_longer(d, code) ==
    IF isGPGencrypted(d) THEN "GPG"
    ELSE IF Len(code) > PIN_WITH_PASS_LEN THEN "AES" ELSE "NONE"

\* Cipher::get(cipher_text, pin): by the look of the bytes, then by the
\* length of the code.
cipher_for(d, code) ==
    IF isGPGencrypted(d) THEN "GPG"
    ELSE IF Len(code) = PIN_WITH_PASS_LEN THEN "AES" ELSE "NONE"

processCipherText(cipher, d, password, secret, trusted) ==
    IF cipher = "GPG" THEN GPG_processCipherText(d, secret, trusted)
                      ELSE AES_processCipherText(d, password)
=============================================================================
