------------------------------- MODULE FileIo -------------------------------
(***************************************************************************)
(* read, write, writev, lseek and close on a regular file: the descriptor  *)
(* keeps a position and a write buffer whose bytes belong just below the   *)
(* position.  `content' is what the file system holds, `wanted' what it    *)
(* would hold if every accepted byte had been written through at once.     *)
(***************************************************************************)
EXTENDS Integers, Sequences

CONSTANTS
    BufSize,    \* 4096, the size of a write buffer
    Room,       \* bytes the file can grow to before the device is full
    MaxTransfer,     \* bound: length of one transfer
    ByteValues       \* byte values

ASSUME FileAssumption ==
    /\ BufSize \in Nat \ {0} /\ Room \in Nat /\ MaxTransfer \in Nat
    /\ 0 \notin ByteValues

VARIABLES
    content, fileSize,    \* the file: its bytes, 0 where none was written
    offset,           \* file_descriptor.pos
    write_buffer,     \* the bytes of write_buffer, Len = write_buffer_size
    todo,             \* what a writev still has to write
    wanted,           \* the file as the writer means it, until ...
    spoilt            \* ... a read moved past buffered bytes or a flush was cut short

fileVars == <<content, fileSize, offset, write_buffer, todo, wanted, spoilt>>

Offsets == 0 .. Room - 1
Nothing == [k \in Offsets |-> 0]
Lesser(i, j) == IF i < j THEN i ELSE j
Greater(i, j) == IF i < j THEN j ELSE i

(* File bytes c with data d laid over them from position i.                *)
Over(c, i, d) == [k \in Offsets |-> IF k - i \in 0 .. Len(d) - 1 THEN d[k - i + 1] ELSE c[k]]

(* ops->write, fat32_write: as many bytes as there is room for.            *)
Fits(i, d) == IF i >= Room THEN 0 ELSE Lesser(Len(d), Room - i)

FileInit ==
    /\ content = Nothing /\ wanted = Nothing /\ fileSize = 0
    /\ offset = 0
    /\ write_buffer = <<>> /\ todo = <<>>
    /\ spoilt = FALSE

-----------------------------------------------------------------------------
(* w is what the file should be from now on, unless it is spoilt.          *)
Want(w, spoils) ==
    /\ spoilt' = (spoilt \/ spoils)
    /\ wanted' = IF spoilt' THEN Nothing ELSE w

FlushAt == offset - Len(write_buffer)
Flushed == Fits(FlushAt, write_buffer)

Cut == Flushed < Len(write_buffer)

(* The buffer goes to the file; what did not fit is dropped with it.       *)
Flush ==
    /\ content' = Over(content, FlushAt, write_buffer)
    /\ fileSize' = IF write_buffer = <<>> THEN fileSize ELSE Greater(fileSize, offset)

(* A flush that moves nothing of a non-empty buffer is reported (ENOSPC).  *)
FlushFails == write_buffer # <<>> /\ Flushed = 0

(* syscall_write: the buffer is flushed when the data does not fit in it;  *)
(* data larger than the buffer goes to the file directly.                  *)
WriteFlushes(d) == Len(write_buffer) + Len(d) > BufSize

(* A call whose flush is refused reports that and changes nothing but the  *)
(* size, which fat32_write has already raised.                             *)
FlushRefused ==
    /\ todo = <<>> /\ FlushFails
    /\ fileSize' = Greater(fileSize, offset)
    /\ UNCHANGED <<content, offset, write_buffer, todo, wanted, spoilt>>

WriteBuffered(d) ==
    /\ todo = <<>>
    /\ Len(d) <= BufSize
    /\ IF WriteFlushes(d)
       THEN ~FlushFails /\ Flush /\ write_buffer' = d
       ELSE write_buffer' = write_buffer \o d /\ UNCHANGED <<content, fileSize>>
    /\ Want(Over(wanted, offset, d), WriteFlushes(d) /\ Cut)
    /\ offset' = offset + Len(d)
    /\ UNCHANGED todo

(* The data of a direct write lands after the flushed buffer.              *)
WriteDirect(d) ==
    /\ todo = <<>>
    /\ Len(d) > BufSize
    /\ ~FlushFails
    /\ LET n == Fits(offset, d)
           e == SubSeq(d, 1, n)
       IN  /\ content' = Over(Over(content, FlushAt, write_buffer), offset, e)
           /\ Want(Over(wanted, offset, e), Cut)
           /\ fileSize' = Greater(fileSize, offset + Len(d))
           /\ offset' = offset + n
    /\ write_buffer' = <<>>
    /\ UNCHANGED todo

-----------------------------------------------------------------------------
(* syscall_writev works through its data: a full buffer is flushed, a      *)
(* large rest goes to the file directly, anything else into the buffer.    *)
WritevCall(d) ==
    /\ todo = <<>> /\ d # <<>>
    /\ todo' = d
    /\ UNCHANGED <<content, fileSize, offset, write_buffer, wanted, spoilt>>

WritevFlush ==
    /\ todo # <<>> /\ Len(write_buffer) = BufSize
    /\ IF FlushFails
       THEN todo' = <<>> /\ UNCHANGED <<content, write_buffer, wanted, spoilt>>
       ELSE /\ content' = Over(content, FlushAt, write_buffer)
            /\ Want(wanted, Cut)
            /\ write_buffer' = <<>>
            /\ UNCHANGED todo
    /\ fileSize' = Greater(fileSize, offset)
    /\ UNCHANGED offset

WritevDirect ==
    /\ todo # <<>> /\ write_buffer = <<>> /\ Len(todo) >= BufSize
    /\ LET n == Fits(offset, todo)
           e == SubSeq(todo, 1, n)
       IN  /\ content' = Over(content, offset, e)
           /\ Want(Over(wanted, offset, e), FALSE)
           /\ fileSize' = Greater(fileSize, offset + Len(todo))
           /\ offset' = offset + n
           /\ todo' = IF n = 0 THEN <<>> ELSE SubSeq(todo, n + 1, Len(todo))
    /\ UNCHANGED write_buffer

WritevCopy ==
    /\ todo # <<>> /\ Len(write_buffer) < BufSize
    /\ write_buffer # <<>> \/ Len(todo) < BufSize
    /\ LET n == Lesser(Len(todo), BufSize - Len(write_buffer))
           e == SubSeq(todo, 1, n)
       IN  /\ write_buffer' = write_buffer \o e
           /\ Want(Over(wanted, offset, e), FALSE)
           /\ offset' = offset + n
           /\ todo' = SubSeq(todo, n + 1, Len(todo))
    /\ UNCHANGED <<content, fileSize>>

-----------------------------------------------------------------------------
(* syscall_read, syscall_readv: from the file, past buffered bytes.  The   *)
(* size can be larger than what the device had room for.                   *)
ReadCall(len) ==
    /\ todo = <<>> /\ offset < Lesser(fileSize, Room)
    /\ offset' = offset + Lesser(len, Lesser(fileSize, Room) - offset)
    /\ Want(wanted, write_buffer # <<>>)
    /\ UNCHANGED <<content, fileSize, write_buffer, todo>>

(* syscall_lseek flushes first, and leaves the position if that fails.     *)
LseekDrops(target) ==     \* mutant: the buffer is emptied but not written
    /\ todo = <<>> /\ write_buffer' = <<>> /\ offset' = target
    /\ UNCHANGED <<content, fileSize, todo, wanted, spoilt>>

Lseek(target) ==
    /\ todo = <<>>
    /\ ~FlushFails
    /\ Flush
    /\ write_buffer' = <<>>
    /\ offset' = target
    /\ Want(wanted, Cut)
    /\ UNCHANGED todo

(* The last close flushes without looking at the result; the file is then  *)
(* opened again, at position 0, and truncated if O_TRUNC asks for it.      *)
CloseReopen ==
    /\ todo = <<>>
    /\ Flush
    /\ write_buffer' = <<>>
    /\ offset' = 0
    /\ Want(wanted, Cut)
    /\ UNCHANGED todo

OpenTrunc ==
    /\ todo = <<>> /\ write_buffer = <<>> /\ offset = 0
    /\ content' = Nothing /\ wanted' = Nothing /\ fileSize' = 0
    /\ spoilt' = FALSE
    /\ UNCHANGED <<offset, write_buffer, todo>>

-----------------------------------------------------------------------------
Data == UNION {[1 .. n -> {b}] : n \in 1 .. MaxTransfer, b \in ByteValues}

FileNext ==
    \/ \E d \in Data : WriteBuffered(d) \/ WriteDirect(d) \/ WritevCall(d)
    \/ WritevFlush \/ WritevDirect \/ WritevCopy
    \/ \E n \in 1 .. MaxTransfer : ReadCall(n)
    \/ \E target \in 0 .. Room : Lseek(target)
    \/ FlushRefused \/ CloseReopen \/ OpenTrunc

FileSpec == FileInit /\ [][FileNext]_fileVars

-----------------------------------------------------------------------------
(* The buffer never overflows its 4096 bytes, and pos - write_buffer_size, *)
(* the unsigned offset it is flushed to, never wraps.                      *)
FileTypeOK ==
    /\ content \in [Offsets -> ByteValues \cup {0}] /\ wanted \in [Offsets -> ByteValues \cup {0}]
    /\ fileSize \in Nat /\ offset \in Nat
    /\ write_buffer \in Seq(ByteValues) /\ todo \in Seq(ByteValues)
    /\ Len(write_buffer) <= BufSize /\ FlushAt >= 0
    /\ spoilt \in BOOLEAN

(* The file with the buffered bytes laid over it is what the writer means, *)
(* so the last close leaves exactly that on the device: unless a read came *)
(* between a buffered write and its flush, or a flush was cut short.       *)
WriteBack == spoilt \/ Over(content, FlushAt, write_buffer) = wanted
=============================================================================
