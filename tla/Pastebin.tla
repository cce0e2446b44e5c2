------------------------------ MODULE Pastebin ------------------------------
(***************************************************************************)
(* What dpaste promises its users, without codes, packets in the making,   *)
(* ciphers or transports: a pastebin is a board of places.  A client       *)
(* writes one note, once, or asks for one place, and is answered once.     *)
(* The network pins notes up when it likes.  Foreigners pin up notes of    *)
(* their own.  That a note may have been taken down again only means that  *)
(* a client that asks is shown nothing, which can happen at any time.      *)
(***************************************************************************)
CONSTANTS
    Client,
    NoNote,     \* no note; a note is a pair <<place, packet>>
    NoPlace,    \* no place
    NoText,     \* nothing to show
    Foreign,    \* the notes foreigners may pin up
    Shows(_)    \* Shows(b): the texts a reader may be shown for packet b

VARIABLES
    note,       \* note[c]: what client c wrote
    asked,      \* asked[c]: the place it asked for
    answer,     \* answer[c]: how it was answered
    board       \* the notes that are or were up

vars == <<note, asked, answer, board>>

Answered(what, place, text) == [what |-> what, place |-> place, text |-> text]
Unanswered == Answered("none", NoPlace, NoText)

Init ==
    /\ note = [c \in Client |-> NoNote]
    /\ asked = [c \in Client |-> NoPlace]
    /\ answer = [c \in Client |-> Unanswered]
    /\ board = {}

\* The client is answered, and is through.
Answers(c, a) ==
    /\ answer[c] = Unanswered
    /\ answer' = [answer EXCEPT ![c] = a]
    /\ asked' = [asked EXCEPT ![c] = NoPlace]
    /\ UNCHANGED <<note, board>>

\* A client that is at its beginning writes a note, or asks for a place.
Fresh(c) == note[c] = NoNote /\ asked[c] = NoPlace /\ answer[c] = Unanswered

Write(c) ==
    /\ Fresh(c)
    /\ note' = [note EXCEPT ![c] = note'[c]] /\ note'[c] # NoNote
    /\ UNCHANGED <<asked, answer, board>>

Ask(c) ==
    /\ Fresh(c)
    /\ asked' = [asked EXCEPT ![c] = asked'[c]] /\ asked'[c] # NoPlace
    /\ UNCHANGED <<note, answer, board>>

\* It is told the place of its note only when the note is or was up there.
Posted(c) == note[c] \in board /\ Answers(c, Answered("posted", note[c][1], NoText))

\* It is shown a text of a note that is or was up at the place it asked for.
Shown(c) ==
    \E e \in board :
        /\ e[1] = asked[c]
        /\ \E t \in Shows(e[2]) : Answers(c, Answered("shown", NoPlace, t))

\* It is shown nothing, which a client that wrote a note never is.
Nothing(c) == note[c] = NoNote /\ Answers(c, Answered("shown", NoPlace, NoText))

Declined(c) == Answers(c, Answered("failed", NoPlace, NoText))

PinUp ==
    \E n \in {note[c] : c \in Client} \cup Foreign :
        /\ n # NoNote
        /\ board' = board \cup {n}
        /\ UNCHANGED <<note, asked, answer>>

Next ==
    \/ \E c \in Client :
         Write(c) \/ Ask(c) \/ Posted(c) \/ Shown(c) \/ Nothing(c) \/ Declined(c)
    \/ PinUp

Spec == Init /\ [][Next]_vars
=============================================================================
