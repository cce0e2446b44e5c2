------------------------------- MODULE Codes -------------------------------
(***************************************************************************)
(* PINs, dpaste URIs and the way Bin::get cuts a code into a location and  *)
(* a password (src/src/bin.cpp, src/src/bin.h, src/src/aescrypto.h).       *)
(*                                                                         *)
(* A string is a sequence of characters: a hexadecimal digit is a number   *)
(* below Base, and the text "dpaste:" is the one character                 *)
(* DPASTE_URI_PREFIX.  Widths are parameters: the code has Base = 16,      *)
(* DPASTE_PIN_LEN = 8, CODE_PASS_OFFSET = 4 and PIN_WITH_PASS_LEN = 16,    *)
(* three constants written in two headers that have to agree.              *)
(***************************************************************************)
EXTENDS Naturals, Sequences, FiniteSetsExt

CONSTANTS
    Base,               \* radix of a PIN digit
    DPASTE_PIN_LEN,     \* digits of a PIN
    CODE_PASS_OFFSET,   \* bytes (two digits each) before the password
    PIN_WITH_PASS_LEN,  \* digits of a code that carries a password
    DPASTE_URI_PREFIX   \* the text "dpaste:"

ASSUME CodesAssumption ==
    /\ Base \in Nat \ {0}
    /\ CODE_PASS_OFFSET \in Nat \ {0}
    /\ DPASTE_PIN_LEN = 2 * CODE_PASS_OFFSET
    /\ PIN_WITH_PASS_LEN = 2 * DPASTE_PIN_LEN
    /\ DPASTE_URI_PREFIX \notin 0 .. Base - 1

\* A fact of arithmetic that the provers do not have.
ASSUME PowersAssumption == \A k \in 0 .. DPASTE_PIN_LEN : Base ^ k \in Nat \ {0}

Digit == 0 .. Base - 1
Pin == [1 .. DPASTE_PIN_LEN -> Digit]
Text == Seq(Digit \cup {DPASTE_URI_PREFIX})

(***************************************************************************)
(* The uint32_t values the distribution yields: every number a PIN of full *)
(* width can write (2^32 = 16^8).                                          *)
(***************************************************************************)
Number == 0 .. Base ^ DPASTE_PIN_LEN - 1

\* A slip: setfill and setw left out, a small number has fewer digits.
pin_text_unpadded(n) ==
    LET width == CHOOSE k \in 1 .. DPASTE_PIN_LEN :
                     n < Base ^ k /\ (k = 1 \/ n >= Base ^ (k - 1))
    IN  [i \in 1 .. width |-> (n \div Base ^ (width - i)) % Base]

\* The hexadecimal text of n, filled with zeros up to DPASTE_PIN_LEN digits.
pin_text(n) ==
    [i \in 1 .. DPASTE_PIN_LEN |-> (n \div Base ^ (DPASTE_PIN_LEN - i)) % Base]

(***************************************************************************)
(* The function-local statics of Bin::random_pin: the numbers the engine   *)
(* yields after it is seeded with the process's seed sequence, how many of *)
(* them were used since, and the flag that guards the seeding.             *)
(***************************************************************************)
Rng(Streams) == [stream : Streams, pos : Nat, initialized : BOOLEAN]

(***************************************************************************)
(* One call of random_pin: the engine is seeded (back to its first number) *)
(* unless `initialized' holds, then one number is drawn.  No statement     *)
(* sets `initialized'.                                                     *)
(***************************************************************************)
random_pin(r) ==
    LET pos == IF ~r.initialized THEN 0 ELSE r.pos
    IN  [pin |-> pin_text(r.stream[pos + 1]),
         rng |-> [r EXCEPT !.pos = pos + 1]]

\* What follows the first "dpaste:" of the text, or all of it.
code_from_dpaste_uri(uri) ==
    LET found == {p \in 1 .. Len(uri) : uri[p] = DPASTE_URI_PREFIX}
    IN  SubSeq(uri, IF found # {} THEN Min(found) + 1 ELSE 1, Len(uri))

PassOffset == 2 * CODE_PASS_OFFSET

\* code.substr(offset) throws std::out_of_range when the code is shorter.
TooShort(code) == Len(code) < PassOffset

\* A slip: the password starts one digit early.
pwd_part_early(code) == SubSeq(code, PassOffset, Len(code))

lcode(code) == SubSeq(code, 1, PassOffset)
pwd_part(code) == SubSeq(code, PassOffset + 1, Len(code))

\* DPASTE_URI_PREFIX+code+pwd, what Bin::paste returns on success.
uri_of(code, pwd) == <<DPASTE_URI_PREFIX>> \o code \o pwd
=============================================================================
