-------------------------------- MODULE Tty ---------------------------------
(***************************************************************************)
(* The line buffer of a terminal in canonical mode (kernel/tty/tty.c):     *)
(* tty_input_handler edits a ring of bytes in place, char_read takes lines *)
(* from it.  `text' and `at' are the same buffer as a plain sequence with  *)
(* a cursor.  Characters are single bytes.                                 *)
(***************************************************************************)
EXTENDS Integers, Sequences, SequencesExt

CONSTANTS
    RingSize,       \* LINE_BUFF_SIZE, 1024
    Letters         \* bytes that are typed as text

ASSUME TtyAssumption == RingSize \in Nat /\ RingSize > 1 /\ "nl" \notin Letters

VARIABLES
    line_buff,            \* the ring
    buff_head, buff_tail, \* what is buffered lies from head up to tail
    buff_cursor,          \* where text is inserted
    lines_available,      \* lines char_read may take
    waiting,              \* priv->waiter is set
    text, at,             \* the buffer as a sequence, the cursor as a position
    polled                \* a poll has set the waiter while a line was unread

ttyVars == <<line_buff, buff_head, buff_tail, buff_cursor, lines_available, waiting, text, at, polled>>

Ring == 0 .. RingSize - 1
Wrap(i) == i % RingSize                     \* & LINE_BUFF_MASK
Used == Wrap(buff_tail - buff_head)         \* line_buff_used
AllBytes == Letters \cup {"nl"}

TtyInit ==
    /\ line_buff \in [Ring -> {CHOOSE c \in Letters : TRUE}]
    /\ buff_head = 0 /\ buff_tail = 0 /\ buff_cursor = 0
    /\ lines_available = 0 /\ waiting = FALSE
    /\ text = <<>> /\ at = 0
    /\ polled = FALSE

-----------------------------------------------------------------------------
(* Ring positions from i up to j.                                          *)
Between(i, j) == {k \in Ring : Wrap(k - i) < Wrap(j - i)}

(* tty_input_handler drops everything while nobody waits.                  *)
Accepts == waiting

(* A character is inserted at the cursor, if there is room for it.         *)
HasRoomFull == Used <= RingSize - 1     \* mutant: the ring is filled to the last byte

HasRoom == Used < RingSize - 1

TypeChar(c) ==
    /\ Accepts /\ HasRoom
    /\ line_buff' = [k \in Ring |-> IF k = buff_cursor THEN c
                                    ELSE IF Wrap(k - 1) \in Between(buff_cursor, buff_tail)
                                         THEN line_buff[Wrap(k - 1)] ELSE line_buff[k]]
    /\ buff_tail' = Wrap(buff_tail + 1) /\ buff_cursor' = Wrap(buff_cursor + 1)
    /\ text' = InsertAt(text, at + 1, c) /\ at' = at + 1
    /\ UNCHANGED <<buff_head, lines_available, waiting, polled>>

(* A newline goes to the end of the buffer, if there is room, and wakes    *)
(* the waiter in any case.                                                 *)
TypeNewline ==
    /\ Accepts
    /\ waiting' = FALSE
    /\ IF Wrap(buff_tail + 1) = buff_head
       THEN UNCHANGED <<line_buff, buff_tail, buff_cursor, lines_available, text, at>>
       ELSE /\ line_buff' = [line_buff EXCEPT ![buff_tail] = "nl"]
            /\ buff_tail' = Wrap(buff_tail + 1) /\ buff_cursor' = Wrap(buff_tail + 1)
            /\ lines_available' = lines_available + 1
            /\ text' = Append(text, "nl") /\ at' = Len(text) + 1
    /\ UNCHANGED <<buff_head, polled>>

(* The byte at ring position p goes, the ones behind it move up.           *)
Erase(p) ==
    /\ line_buff' = [k \in Ring |-> IF k \in Between(p, buff_tail) /\ Wrap(k + 1) # buff_head
                                    THEN line_buff[Wrap(k + 1)] ELSE line_buff[k]]
    /\ buff_tail' = Wrap(buff_tail - 1)
    /\ buff_cursor' = p
    /\ UNCHANGED <<buff_head, lines_available, waiting, polled>>

Backspace ==
    /\ Accepts /\ buff_cursor # buff_head
    /\ Erase(Wrap(buff_cursor - 1))
    /\ text' = RemoveAt(text, at) /\ at' = at - 1

DeleteKey ==
    /\ Accepts /\ buff_cursor # buff_tail
    /\ Erase(buff_cursor)
    /\ text' = RemoveAt(text, at + 1) /\ UNCHANGED at

CursorLeft ==
    /\ Accepts /\ buff_cursor # buff_head
    /\ buff_cursor' = Wrap(buff_cursor - 1) /\ at' = at - 1
    /\ UNCHANGED <<line_buff, buff_head, buff_tail, lines_available, waiting, text, polled>>

CursorRight ==
    /\ Accepts /\ buff_cursor # buff_tail
    /\ buff_cursor' = Wrap(buff_cursor + 1) /\ at' = at + 1
    /\ UNCHANGED <<line_buff, buff_head, buff_tail, lines_available, waiting, text, polled>>

-----------------------------------------------------------------------------
(* char_read of up to len bytes: waits while there is no line; otherwise   *)
(* takes bytes up to a newline, and moves the cursor to the head.          *)
ReadBlocks ==
    /\ lines_available = 0
    /\ waiting' = TRUE
    /\ UNCHANGED <<line_buff, buff_head, buff_tail, buff_cursor, lines_available, text, at, polled>>

LinesLeft(ended) == IF ended /\ lines_available > 0 THEN lines_available - 1 ELSE lines_available

CharRead(len) ==
    /\ lines_available > 0
    /\ \E n \in 0 .. len :
          /\ n <= Used
          /\ \A i \in 0 .. n - 2 : line_buff[Wrap(buff_head + i)] # "nl"
          /\ LET ended == n > 0 /\ line_buff[Wrap(buff_head + n - 1)] = "nl"
             IN  /\ n = len \/ n = Used \/ ended
                 /\ lines_available' = LinesLeft(ended)
          /\ buff_head' = Wrap(buff_head + n) /\ buff_cursor' = Wrap(buff_head + n)
          /\ text' = SubSeq(text, n + 1, Len(text)) /\ at' = 0
    /\ waiting' = FALSE
    /\ UNCHANGED <<line_buff, buff_tail, polled>>

(* char_poll sets the waiter and leaves it when there is a line to read.   *)
CharPoll ==
    /\ waiting' = TRUE
    /\ polled' = (polled \/ lines_available > 0)
    /\ UNCHANGED <<line_buff, buff_head, buff_tail, buff_cursor, lines_available, text, at>>

TtyNext ==
    \/ \E c \in Letters : TypeChar(c)
    \/ TypeNewline \/ Backspace \/ DeleteKey \/ CursorLeft \/ CursorRight
    \/ ReadBlocks \/ CharPoll
    \/ \E len \in 1 .. RingSize : CharRead(len)

TtySpec == TtyInit /\ [][TtyNext]_ttyVars

-----------------------------------------------------------------------------
TtyTypeOK ==
    /\ line_buff \in [Ring -> AllBytes]
    /\ {buff_head, buff_tail, buff_cursor} \subseteq Ring
    /\ lines_available \in Nat
    /\ text \in Seq(AllBytes) /\ at \in 0 .. Len(text)

(* Editing in the ring is editing the line: through insertions, deletions, *)
(* cursor moves and reads, and across the end of the ring, it holds what   *)
(* the same edits make of a sequence, and the cursor is where it should be.*)
LineKept ==
    /\ text = [i \in 1 .. Used |-> line_buff[Wrap(buff_head + i - 1)]]
    /\ at = Wrap(buff_cursor - buff_head)

(* lines_available, on which a reader waits, is the number of newlines in  *)
(* the buffer: a reader neither sleeps on a line that was entered nor is   *)
(* told of the end of the file by an empty one.  Unless a poll let more    *)
(* input in while a line was unread.                                       *)
LinesCounted ==
    polled \/ lines_available = Len(SelectSeq(text, LAMBDA c : c = "nl"))

(* Once a line is entered it cannot be edited any more: no input is        *)
(* accepted until it has been read, unless a poll asks for it.             *)
EnteredLineFixed == polled \/ ~waiting \/ "nl" \notin ToSet(text)

(* The line discipline: the ring holds the edited line, the count of lines *)
(* is that of its newlines, and an entered line stays as it is until it is *)
(* read.                                                                   *)
LineDiscipline == LineKept /\ LinesCounted /\ EnteredLineFixed
=============================================================================
