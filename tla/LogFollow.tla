----------------------------- MODULE LogFollow -----------------------------
(* follow() of monitor/common.py:11-35, the tail of the log file used by    *)
(* the viewer and the detector, against a file that is appended to, torn,   *)
(* truncated, removed and created again under its feet.                     *)
(*                                                                          *)
(* A file is an inode with a sequence of pieces.  Line n is the two pieces  *)
(* <<n, 1>> and <<n, 2>>, the second of which ends with the newline, so a   *)
(* size or a position is a number of pieces.  Reading is buffered: the      *)
(* reader takes all there is behind its offset and then serves lines from   *)
(* its buffer, as io.TextIOWrapper does.                                    *)
EXTENDS Naturals, Sequences

CONSTANTS
    TornWrites,      \* may a line reach the file in two writes?
    MaxLines,        \* bound: lines written
    MaxRotations     \* bound: truncations and removals of the file

ASSUME TornWritesAssumption == TornWrites \in BOOLEAN
ASSUME MaxLinesAssumption == MaxLines \in Nat
ASSUME MaxRotationsAssumption == MaxRotations \in Nat

VARIABLES
    content,      \* content[i]: the pieces of inode i
    path,         \* the inode at log_path, or Missing
    written,      \* lines begun by the writer
    half,         \* the inode that still gets the second half of a line
    rotations,    \* truncations and removals so far
    startAtEnd,   \* the argument start_at_end
    stopped,      \* stop_event.is_set()
    rpc,          \* where the generator is
    rfile,        \* the inode it has open, or Missing
    offset,       \* how many pieces it has taken from rfile
    buffer,       \* pieces taken and not yet returned
    delivered     \* the pieces of the lines yielded, one line after the other

fileVars == <<content, path, written, half, rotations>>
readerVars == <<rpc, rfile, offset, buffer, delivered>>
vars == <<fileVars, readerVars, startAtEnd, stopped>>

Missing == 0
Inodes == 1 .. MaxRotations + 1
Pieces == (1 .. MaxLines) \X {1, 2}

Init ==
    /\ content = [i \in Inodes |-> <<>>]
    /\ path \in {Missing, 1}
    /\ written = 0
    /\ half = Missing
    /\ rotations = 0
    /\ startAtEnd \in BOOLEAN
    /\ stopped = FALSE
    /\ rpc = "opening"
    /\ rfile = Missing
    /\ offset = 0
    /\ buffer = <<>>
    /\ delivered = <<>>

-----------------------------------------------------------------------------
\* The file: record_failed_login (app/__init__.py:103-106) and whoever
\* rotates the log.

\* The inode that open(log_path, "a") gives: the file at the path, or one
\* that no reader has seen before.
AppendFile == IF path = Missing THEN rotations + 1 ELSE path

WriteLine ==
    /\ written < MaxLines
    /\ half = Missing
    /\ content' = [content EXCEPT ![AppendFile] =
                      @ \o <<<<written + 1, 1>>, <<written + 1, 2>>>>]
    /\ path' = AppendFile
    /\ written' = written + 1
    /\ UNCHANGED <<half, rotations>>

WriteHalf ==
    /\ TornWrites
    /\ written < MaxLines
    /\ half = Missing
    /\ content' = [content EXCEPT ![AppendFile] = Append(@, <<written + 1, 1>>)]
    /\ path' = AppendFile
    /\ half' = AppendFile
    /\ written' = written + 1
    /\ UNCHANGED rotations

\* The writer's descriptor still names the inode it opened.
WriteRest ==
    /\ half # Missing
    /\ content' = [content EXCEPT ![half] = Append(@, <<written, 2>>)]
    /\ half' = Missing
    /\ UNCHANGED <<path, written, rotations>>

Rotate == /\ path # Missing
          /\ rotations < MaxRotations
          /\ rotations' = rotations + 1

Truncate == /\ Rotate
            /\ content' = [content EXCEPT ![path] = <<>>]
            /\ UNCHANGED <<path, written, half>>

\* Removed or renamed: readers and writers that have it open keep it.
RemoveFile == /\ Rotate
          /\ path' = Missing
          /\ UNCHANGED <<content, written, half>>

FileStep == /\ \/ WriteLine \/ WriteHalf \/ WriteRest \/ Truncate \/ RemoveFile
            /\ UNCHANGED <<readerVars, startAtEnd, stopped>>

-----------------------------------------------------------------------------
\* The generator.

\* Lines 13 and 19: `while not stop_event.is_set()`, each time round.
Goes == ~ stopped

\* Mutated form of StartOffset: start_at_end is ignored the wrong way round.
AlwaysFromEnd(i) == Len(content[i])

\* Lines 17-18: every open, not only the first, goes to the end.
StartOffset(i) == IF startAtEnd THEN Len(content[i]) ELSE 0

\* Lines 15-18; a missing file is waited for (31-35).
Open ==
    /\ rpc = "opening" /\ Goes
    /\ path # Missing
    /\ rfile' = path
    /\ offset' = StartOffset(path)
    /\ buffer' = <<>>
    /\ rpc' = "reading"
    /\ UNCHANGED delivered

\* The buffer with everything behind the offset, unless it holds a whole
\* line already and the file is not asked.
HasLine(pieces) == \E i \in 1 .. Len(pieces) : pieces[i][2] = 2

Filled == IF HasLine(buffer) THEN buffer
          ELSE buffer \o SubSeq(content[rfile], offset + 1, Len(content[rfile]))

\* What readline() cuts off: up to the first newline, or all there is.
LineEnd(pieces) ==
    IF HasLine(pieces)
    THEN CHOOSE i \in 1 .. Len(pieces) :
             pieces[i][2] = 2 /\ \A j \in 1 .. i - 1 : pieces[j][2] = 1
    ELSE Len(pieces)

\* Mutated form of NextOffset: the reader does not move on in the file.
SameOffset == offset

NextOffset == IF HasLine(buffer) \/ offset > Len(content[rfile])
              THEN offset ELSE Len(content[rfile])

\* Lines 20-24: a non-empty result is yielded, newline or not.
YieldLine ==
    /\ rpc = "reading" /\ Goes
    /\ Filled # <<>>
    /\ delivered' = delivered \o SubSeq(Filled, 1, LineEnd(Filled))
    /\ buffer' = SubSeq(Filled, LineEnd(Filled) + 1, Len(Filled))
    /\ offset' = NextOffset
    /\ UNCHANGED <<rpc, rfile>>

ReadNothing ==
    /\ rpc = "reading" /\ Goes
    /\ Filled = <<>>
    /\ rpc' = "checking"
    /\ UNCHANGED <<rfile, offset, buffer, delivered>>

\* Mutated form of Replaced: only a file that is gone counts as replaced.
Gone == path = Missing

\* Lines 25-29: the file at the path is gone or shorter than what was read.
Replaced == path = Missing \/ Len(content[path]) < offset

\* Mutated form of CheckFile: the end of the file is the end of the loop.
CheckFileOnce ==
    /\ rpc = "checking"
    /\ rpc' = IF Replaced THEN "opening" ELSE "done"
    /\ rfile' = Missing
    /\ UNCHANGED <<offset, buffer, delivered>>

CheckFile ==
    /\ rpc = "checking"
    /\ IF Replaced
       THEN rpc' = "opening" /\ rfile' = Missing
       ELSE rpc' = "reading" /\ UNCHANGED rfile
    /\ UNCHANGED <<offset, buffer, delivered>>

\* The event is set: both loops end.
Leave ==
    /\ stopped
    /\ rpc \in {"opening", "reading"}
    /\ rpc' = "done"
    /\ rfile' = Missing
    /\ UNCHANGED <<offset, buffer, delivered>>

Reader == /\ Open \/ YieldLine \/ ReadNothing \/ CheckFile \/ Leave
          /\ UNCHANGED <<fileVars, startAtEnd, stopped>>

\* A signal handler sets the event (detector.py:139-140, viewer.py:23-24).
Stop == /\ ~ stopped
        /\ stopped' = TRUE
        /\ UNCHANGED <<fileVars, readerVars, startAtEnd>>

Finished == rpc = "done" /\ UNCHANGED vars

Next == FileStep \/ Reader \/ Stop \/ Finished

\* The generator is a loop that runs for as long as the process does.
Spec == Init /\ [][Next]_vars /\ WF_vars(Reader)

-----------------------------------------------------------------------------

TypeOK ==
    /\ content \in [Inodes -> Seq(Pieces)]
    /\ {path, half, rfile} \subseteq Inodes \cup {Missing}
    /\ written \in 0 .. MaxLines
    /\ rotations \in 0 .. MaxRotations
    /\ {startAtEnd, stopped} \subseteq BOOLEAN
    /\ rpc \in {"opening", "reading", "checking", "done"}
    /\ offset \in 0 .. 2 * MaxLines
    /\ {buffer, delivered} \subseteq Seq(Pieces)

Before(p, q) == p[1] < q[1] \/ (p[1] = q[1] /\ p[2] < q[2])

\* Whatever happens to the file, nothing is delivered twice and nothing out
\* of the order in which it was written.
DeliveredInOrderOnce ==
    \A i, j \in 1 .. Len(delivered) : i < j => Before(delivered[i], delivered[j])

\* While the file is only appended to, what was delivered is a stretch of
\* the file without a hole, and its beginning when read from the start.
DeliveredIsContiguous ==
    rotations = 0 =>
        \E k \in 0 .. Len(content[1]) - Len(delivered) :
            /\ delivered = SubSeq(content[1], k + 1, k + Len(delivered))
            /\ ~ startAtEnd => k = 0

\* Line n stands in the file at the path, the one the reader has open, and
\* behind what the reader has taken.
Unread(n) ==
    /\ rfile # Missing /\ rfile = path
    /\ \E i \in offset + 1 .. Len(content[rfile]) : content[rfile][i] = <<n, 2>>

DeliveredLine(n) == \E i \in 1 .. Len(delivered) : delivered[i] = <<n, 2>>

\* A line behind the reader's position is delivered, unless the file is
\* rotated again or the reader is told to stop.
UnreadIsDelivered ==
    \A n \in 1 .. MaxLines, r \in 0 .. MaxRotations :
        Unread(n) /\ rotations = r ~> DeliveredLine(n) \/ rotations > r \/ stopped

\* A file at the path that is shorter than what was read, truncated or put in
\* the place of the one that is open, does not stay unnoticed: the reader goes
\* back in it, unless the file is gone or has grown up to the position first.
\* (One that has is taken for the file that was open.)
ShortFileIsNoticed ==
    path # Missing /\ Len(content[path]) < offset
        ~> path = Missing \/ Len(content[path]) >= offset \/ stopped

=============================================================================
