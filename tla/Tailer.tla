------------------------------- MODULE Tailer -------------------------------
(***************************************************************************)
(* The arithmetic of one tailed *.jsonl file (collector/periscribe/        *)
(* tailer.py).  A file's bytes are abstracted to half lines: line k of a   *)
(* file occupies the units 2k-1 and 2k, its newline is the last byte of    *)
(* unit 2k, so a file of odd size ends in the middle of a line.  That is   *)
(* all the tailer can tell apart: where the newlines are.                  *)
(*                                                                         *)
(* file  == [size, ino, gen]    what os.stat and open see at a path        *)
(* entry == [offset, ino, gen]  a Tailer, or what the checkpoint keeps     *)
(*                                                                         *)
(* ino = 0 stands for "no file at this path".  gen numbers the contents    *)
(* that succeed each other at a path: it changes whenever the file is      *)
(* replaced or truncated, while ino changes only when it is replaced.  The *)
(* code never reads gen; entry.gen remembers which content an offset       *)
(* speaks about, and 0 says that it mixes two of them.                     *)
(***************************************************************************)
EXTENDS Integers

\* (Mutant.) The unfinished line at the end is not kept back.
NoHoldBack(size) == size

\* The position after the last newline of a file of this size: where
\* read_new_lines stops, keeping the unfinished line back.
LastNewline(size) == size - (size % 2)

\* Where to begin in a file met for the first time: at its end, or before its
\* last n complete lines.
InitialOffset(size, n) ==
    LET lines == size \div 2 IN
    IF n = 0 THEN size
    ELSE IF lines <= n THEN 0 ELSE 2 * (lines - n)

\* (Mutant.) Only the size is compared, never the inode.
CheckSizeOnly(t, file) ==
    IF file.ino # 0 /\ file.size < t.offset
      THEN [offset |-> 0, ino |-> file.ino, gen |-> file.gen]
      ELSE [t EXCEPT !.ino = file.ino]

\* A replaced or a visibly shortened file is read again from 0; a missing file
\* (os.stat fails) leaves the tailer alone.
CheckRotation(t, file) ==
    IF file.ino # 0 /\ (t.ino # file.ino \/ file.size < t.offset)
      THEN [offset |-> 0, ino |-> file.ino, gen |-> file.gen]
      ELSE t

\* The offset read_new_lines proposes: unchanged when the file cannot be
\* opened or has no newline after the offset.
NewOffset(t, file) ==
    IF file.ino # 0 /\ LastNewline(file.size) > t.offset
      THEN LastNewline(file.size)
      ELSE t.offset

\* (Mutant.) Reading resumes one line late.
OneLineLate(offset) == (offset + 1) \div 2 + 2

\* The first line that lies entirely after an offset.  A fragment in front of
\* it is handed to the parser too, which finds no JSON in it and yields nothing.
FirstLine(offset) == (offset + 1) \div 2 + 1
LastLine(offset)  == offset \div 2

\* Tailer.commit.  The content the offset speaks about changes with it when the
\* file was truncated and grew back past the old offset unnoticed.
Committed(t, newOffset, gen) ==
    [t EXCEPT !.offset = newOffset,
              !.gen = IF t.gen = gen \/ t.offset = 0 THEN gen ELSE 0]
=============================================================================
