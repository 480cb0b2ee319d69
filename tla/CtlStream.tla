------------------------------ MODULE CtlStream ------------------------------
(***************************************************************************)
(* How the output of papaia-ctl becomes the lines of a job's log: read in  *)
(* chunks, cut into lines, over-long lines clipped as soon as they are too *)
(* long and the rest of them dropped.                                      *)
(*                                                                         *)
(* core/ctl.py, _stream_subprocess and _clip_line. A byte is a newline or  *)
(* not; decoding and trailing blanks are left out.                         *)
(***************************************************************************)
EXTENDS Integers, Sequences, SequencesExt

CONSTANTS
    MaxLine,        \* MAX_LINE_BYTES
    Chunk,          \* what one read returns at most
    MaxOutput       \* bound on the length of the output

VARIABLES
    output,     \* all that papaia-ctl writes
    read,       \* how much of it was read
    pending,    \* bytes not yet made a line
    from,       \* search_from: where the search for a newline goes on
    dropping,   \* inside the tail of a clipped line
    lines,      \* what was yielded: a line, and whether it was clipped
    at          \* "read", "scan" or "end"

vars == <<output, read, pending, from, dropping, lines, at>>

NL == 0
Byte == {0, 1}

\* bytearray.find: the position of the first newline at or after `from`, counted from 0; -1 if none.
FindNewlineLate ==
    LET found == {i \in DOMAIN pending : i > from + 1 /\ pending[i] = NL}
    IN IF found = {} THEN -1 ELSE Min(found) - 1
FindNewline ==
    LET found == {i \in DOMAIN pending : i > from /\ pending[i] = NL}
    IN IF found = {} THEN -1 ELSE Min(found) - 1

Line(bytes) == [text |-> bytes, clipped |-> FALSE]
ClipLine(bytes) == [text |-> SubSeq(bytes, 1, MaxLine), clipped |-> TRUE]
After(i) == SubSeq(pending, i + 2, Len(pending))

\* proc.stdout.read: at least one byte, or the end.
Read(n) ==
    /\ at = "read" /\ read + n <= Len(output)
    /\ pending' = pending \o SubSeq(output, read + 1, read + n)
    /\ read' = read + n /\ at' = "scan"
    /\ UNCHANGED <<output, from, dropping, lines>>

\* One turn of the inner loop.
ScanTail(nl) ==
    IF nl = -1
    THEN /\ pending' = <<>> /\ at' = "read"
         /\ UNCHANGED dropping
    ELSE /\ pending' = After(nl) /\ dropping' = FALSE
         /\ UNCHANGED at

Scan ==
    LET nl == FindNewline
    IN /\ at = "scan"
       /\ IF dropping THEN ScanTail(nl) /\ from' = 0 /\ UNCHANGED lines
          ELSE IF nl = -1 THEN
             /\ IF Len(pending) > MaxLine
                THEN /\ lines' = Append(lines, ClipLine(pending))
                     /\ pending' = <<>> /\ dropping' = TRUE /\ from' = 0
                ELSE from' = Len(pending) /\ UNCHANGED <<pending, dropping, lines>>
             /\ at' = "read"
          ELSE LET line == SubSeq(pending, 1, nl)
               IN /\ pending' = After(nl) /\ from' = 0
                  /\ lines' = Append(lines, IF Len(line) > MaxLine THEN ClipLine(line) ELSE Line(line))
                  /\ UNCHANGED <<dropping, at>>
       /\ UNCHANGED <<output, read>>

\* The end of the output: what is left is a line.
End ==
    /\ at = "read" /\ read = Len(output)
    /\ at' = "end"
    /\ lines' = IF pending # <<>> /\ ~dropping THEN Append(lines, Line(pending)) ELSE lines
    /\ UNCHANGED <<output, read, pending, from, dropping>>

Init ==
    /\ output \in UNION {[1..n -> Byte] : n \in 0..MaxOutput}
    /\ read = 0 /\ pending = <<>> /\ from = 0 /\ dropping = FALSE /\ lines = <<>> /\ at = "read"

Next == (\E n \in 1..Chunk : Read(n)) \/ Scan \/ End

Spec == Init /\ [][Next]_vars

-----------------------------------------------------------------------------
(* Properties *)

\* The lines of a text: cut at the newlines, a last one without newline counts if it has a byte,
\* and each at most MaxLine bytes of itself.
Shown(line) == IF Len(line) > MaxLine THEN ClipLine(line) ELSE Line(line)
\* How far that is after the first n bytes: the lines that are whole, and the open one.
Fed(acc, byte) ==
    IF byte = NL THEN [done |-> Append(acc.done, Shown(acc.open)), open |-> <<>>]
    ELSE [acc EXCEPT !.open = Append(@, byte)]
Cut(text) ==
    LET cut[n \in 0..Len(text)] ==
            IF n = 0 THEN [done |-> <<>>, open |-> <<>>] ELSE Fed(cut[n - 1], text[n])
    IN cut
LinesOf(text) ==
    LET all == Cut(text)[Len(text)]
    IN IF all.open = <<>> THEN all.done ELSE Append(all.done, Shown(all.open))

\* "the line length cannot break the job", and neither can the chunks: a job's log has the lines of
\* the output, each once and in order, wherever the reads cut it; and no more than one line and one
\* chunk is held meanwhile.
LinesSurviveChunking ==
    /\ at = "end" => lines = LinesOf(output)
    /\ IsPrefix(lines, LinesOf(output))
    /\ Len(pending) <= MaxLine + Chunk

=============================================================================
