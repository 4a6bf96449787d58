------------------------------ MODULE MCFiles -------------------------------
(* File descriptors' buffers, FAT32, the dentry cache, the line buffer of  *)
(* the terminal, a pseudo terminal, and the keyboard's and the mouse's way *)
(* to the compositor.  A behaviour is one of one of them: `subject' says   *)
(* which, and the variables of the others are absent.                      *)
EXTENDS FileIo, Fat32, Dentry, Tty, Pty, Input

CONSTANTS m1, s1
MCSides == [x \in {"master", "slave"} |-> IF x = "master" THEN m1 ELSE s1]

VARIABLE subject

terminalVars == <<ttyVars, sleepVars, ptyVars, inputVars>>
Off(v) == v = "absent"

FilesInit ==
    IF subject = "file" THEN FileInit
    ELSE /\ Off(content) /\ Off(fileSize) /\ Off(offset) /\ Off(write_buffer)
         /\ Off(todo) /\ Off(wanted) /\ Off(spoilt)

DiskInit ==
    IF subject = "disk" THEN FatInit
    ELSE /\ Off(fat) /\ Off(hint) /\ Off(data) /\ Off(record) /\ Off(node)
         /\ Off(rootHint) /\ Off(pending) /\ Off(begun) /\ Off(written) /\ Off(harm)

CacheInit ==
    IF subject = "dentries" THEN DentryInit
    ELSE /\ Off(state) /\ Off(name) /\ Off(parent) /\ Off(refs) /\ Off(cached)
         /\ Off(childList) /\ Off(opened) /\ Off(cwd) /\ Off(mounted)

ConsoleInit ==
    IF subject = "tty" THEN TtyInit
    ELSE /\ Off(line_buff) /\ Off(buff_head) /\ Off(buff_tail) /\ Off(buff_cursor)
         /\ Off(lines_available) /\ Off(waiting) /\ Off(text) /\ Off(at) /\ Off(polled)

PairInit ==
    IF subject = "pty" THEN SleepInit /\ PtyInit
    ELSE /\ Off(wake_pending) /\ Off(sleep)
         /\ Off(pty) /\ Off(pty_call) /\ Off(signals) /\ Off(typed)

DevicesInit ==
    IF subject \in Devices THEN InputInit /\ (subject = "mouse" => pair = Shifts)
    ELSE /\ Off(evdev) /\ Off(stream) /\ Off(keys_down) /\ Off(held_count)
         /\ Off(calls) /\ Off(half) /\ Off(shift) /\ Off(modifier) /\ Off(capslock)
         /\ Off(pair) /\ Off(pressed) /\ Off(caps) /\ Off(prev_buttons)
         /\ Off(cursor) /\ Off(moving) /\ Off(seen) /\ Off(mishaps)

Init ==
    /\ subject \in {"file", "disk", "dentries", "tty", "pty"} \cup Devices
    /\ FilesInit /\ DiskInit /\ CacheInit /\ ConsoleInit /\ PairInit /\ DevicesInit

Next ==
    /\ UNCHANGED subject
    /\ \/ subject = "file" /\ FileNext /\ UNCHANGED <<fatVars, dentryVars, terminalVars>>
       \/ subject = "disk" /\ FatNext /\ UNCHANGED <<fileVars, dentryVars, terminalVars>>
       \/ subject = "dentries" /\ DentryNext /\ UNCHANGED <<fileVars, fatVars, terminalVars>>
       \/ /\ UNCHANGED <<fileVars, fatVars, dentryVars>>
          /\ \/ subject = "tty" /\ TtyNext /\ UNCHANGED <<sleepVars, ptyVars, inputVars>>
             \/ subject = "pty" /\ PtyNext /\ UNCHANGED <<ttyVars, inputVars>>
             \/ subject = "keyboard" /\ KeyboardNext /\ UNCHANGED <<ttyVars, sleepVars, ptyVars>>
             \/ subject = "mouse" /\ MouseNext /\ UNCHANGED <<ttyVars, sleepVars, ptyVars>>

-----------------------------------------------------------------------------
(* The components keep their types: in particular the write buffer stays   *)
(* within its bounds, next_free_cluster names a cluster, the rings' cursors *)
(* stay inside the rings and the pointer on the screen.                    *)
FilesTypesOK ==
    /\ subject = "file" => FileTypeOK
    /\ subject = "disk" => FatTypeOK
    /\ subject = "dentries" => DentryTypeOK
    /\ subject = "tty" => TtyTypeOK
    /\ subject = "pty" => PtyTypeOK
    /\ subject \in Devices => InputTypeOK

(* FileIo!WriteBack: the file with the buffered bytes laid over it is what *)
(* the writer means, unless a read came between a buffered write and its   *)
(* flush, or a flush was cut short (syscall/write.c, close.c).             *)
FilesWriteBack == subject = "file" => WriteBack



(* What is typed arrives.  Tty!LineDiscipline: the console's ring holds    *)
(* the edited line and lines_available counts its newlines.  Pty!PtyExact: *)
(* both rings of a pseudo terminal deliver their bytes in order, and       *)
(* neither side sleeps while there is something for it.                    *)
TerminalsExact ==
    /\ subject = "tty" => LineDiscipline
    /\ subject = "pty" => PtyExact


-----------------------------------------------------------------------------
(* One stop of the machine at an unguarded point, or one write that finds  *)
(* the device full, ends a behaviour of the disk; a terminal's count of    *)
(* lines, once wrong, would grow without end.                              *)
Bounded ==
    /\ subject = "disk" => harm \in {{}, {"stopped"}} \/ (harm = {"full"} /\ Idle)
    /\ subject = "tty" => lines_available < RingSize

(* The driver treats all file names alike.                                 *)
NamesAlike == Permutations(FileNames)
=============================================================================
