---------------------------- MODULE NewYorkFiles ----------------------------
(***************************************************************************)
(* The New York data of DemoData: files that are downloaded to /tmp unless *)
(* they are there already, read together chunk by chunk, cut into lines,   *)
(* sampled and parsed.  All files are copies of one file, whatever month   *)
(* they are called after.                                                  *)
(*                                                                         *)
(* The file is a sequence of pieces, two to a line: where a chunk or a     *)
(* download ends, it may end in the middle of a line.  A record is known   *)
(* by its line.                                                            *)
(***************************************************************************)
EXTENDS SequencesExt

CONSTANTS
  Lines,        \* the lines of the file: whether they can be parsed
  ChunkSize,    \* the pieces of a chunk of FileIO
  MaxMonths,    \* bound on the number of months
  NONE          \* no file, or no record

VARIABLES
  stage,        \* what the process does
  disk,         \* disk[m]: the pieces of the m-th file, or NONE
  months, rate, \* the arguments of the process
  at,           \* the month whose file it is at
  turn,         \* how many chunks of each file have been zipped
  input,        \* the pieces that have been zipped and not been framed
  buffer,       \* the pieces of the line that is being framed
  lines         \* the lines of the group that is being sampled

files == <<disk, at>>
reader == <<turn, input, buffer, lines>>

Month == 1..MaxMonths
Size == 2 * Len(Lines)
LineOf(piece) == (piece + 1) \div 2
EndsLine(piece) == piece % 2 = 0

FilesInit ==
  /\ disk = [m \in Month |-> NONE]
  /\ months = 0 /\ rate = 1
  /\ at = 0
  /\ turn = 0 /\ input = <<>> /\ buffer = <<>> /\ lines = <<>>

-----------------------------------------------------------------------------
(* Before there is a stream: filenames.map.                                *)

Exists(m) == disk[m] # NONE

SkipFile ==
  /\ stage = "files" /\ at <= months /\ Exists(at)
  /\ at' = at + 1
  /\ UNCHANGED <<stage, disk, months, rate, reader>>

\* The service answers, and the file is created.
OpenFile ==
  /\ stage = "files" /\ at <= months /\ ~Exists(at)
  /\ stage' = "copying"
  /\ disk' = [disk EXCEPT ![at] = 0]
  /\ UNCHANGED <<months, rate, at, reader>>

CopyPiece ==
  /\ stage = "copying" /\ disk[at] < Size
  /\ disk' = [disk EXCEPT ![at] = @ + 1]
  /\ UNCHANGED <<stage, months, rate, at, reader>>

CloseFile ==
  /\ stage = "copying" /\ disk[at] = Size
  /\ stage' = "files"
  /\ at' = at + 1
  /\ UNCHANGED <<disk, months, rate, reader>>

\* An exception on the main thread: the service cannot be reached, or the
\* connection is lost.  The threads of the actor system keep the process alive,
\* and what is in the file stays there.
DownloadFails ==
  /\ stage = "copying" \/ (stage = "files" /\ at <= months /\ ~Exists(at))
  /\ stage' = "stuck"
  /\ UNCHANGED <<files, months, rate, reader>>

FilesAreThere ==
  /\ stage = "files" /\ at > months
  /\ stage' = "streaming"
  /\ UNCHANGED <<files, months, rate, reader>>

Download ==
  SkipFile \/ OpenFile \/ CopyPiece \/ CloseFile \/ DownloadFails \/ FilesAreThere

-----------------------------------------------------------------------------
(* The stream.                                                             *)

Chunk(m, n) == SubSeq([piece \in 1..disk[m] |-> piece], (n - 1) * ChunkSize + 1,
                      IF n * ChunkSize < disk[m] THEN n * ChunkSize ELSE disk[m])

HasTurn == \A m \in 1..months : disk[m] > turn * ChunkSize

\* zipN: a chunk of every file, as long as each has one.
ZipTurn ==
  /\ stage = "streaming" /\ input = <<>>
  /\ months > 0 /\ HasTurn
  /\ input' = FlattenSeq([m \in 1..months |-> Chunk(m, turn + 1)])
  /\ turn' = turn + 1
  /\ UNCHANGED <<stage, files, months, rate, buffer, lines>>

InputHasEnded == input = <<>> /\ (months = 0 \/ ~HasTurn)

\* A line that was put together from parts of several lines.
SPLICE == 0

IsLine(frame) == Len(frame) = 2 /\ frame[2] = frame[1] + 1

\* What may come of a line: its record, or nothing.  A splice may look like a
\* line that can be parsed.
Parsed(frame) ==
  IF ~IsLine(frame) THEN {SPLICE, NONE}
  ELSE IF Lines[LineOf(frame[1])] = "good" THEN {LineOf(frame[1])}
  ELSE {NONE}

Framed == Append(buffer, Head(input))
Grouped == Append(lines, Framed)

\* A piece that ends no line, or a line that fills no group.
Gather ==
  /\ stage = "streaming" /\ input # <<>>
  /\ \/ /\ ~EndsLine(Head(input))
        /\ buffer' = Framed
        /\ UNCHANGED lines
     \/ /\ EndsLine(Head(input)) /\ Len(Grouped) < rate
        /\ buffer' = <<>>
        /\ lines' = Grouped
  /\ input' = Tail(input)
  /\ UNCHANGED <<stage, files, months, rate, turn>>

\* Mutant: the last line of a group is taken.
SampleLast(record) ==
  /\ stage = "streaming" /\ input # <<>>
  /\ EndsLine(Head(input)) /\ Len(Grouped) >= rate
  /\ record \in Parsed(Framed)
  /\ buffer' = <<>>
  /\ lines' = <<>>
  /\ input' = Tail(input)
  /\ UNCHANGED <<stage, files, months, rate, turn>>

\* A line that fills its group; the first of the group goes on.
Sample(record) ==
  /\ stage = "streaming" /\ input # <<>>
  /\ EndsLine(Head(input)) /\ Len(Grouped) >= rate
  /\ record \in Parsed(Head(Grouped))
  /\ buffer' = <<>>
  /\ lines' = <<>>
  /\ input' = Tail(input)
  /\ UNCHANGED <<stage, files, months, rate, turn>>

\* Mutant: what is left of a line counts as a line (allowTruncation).
SampleTruncated(record) ==
  /\ stage = "streaming" /\ InputHasEnded /\ Append(lines, buffer)[1] # <<>>
  /\ record \in Parsed(Append(lines, buffer)[1])
  /\ buffer' = <<>>
  /\ lines' = <<>>
  /\ UNCHANGED <<stage, files, months, rate, turn, input>>

\* The last group need not be full.
SampleRest(record) ==
  /\ stage = "streaming" /\ InputHasEnded /\ buffer = <<>> /\ lines # <<>>
  /\ record \in Parsed(Head(lines))
  /\ lines' = <<>>
  /\ UNCHANGED <<stage, files, months, rate, turn, input, buffer>>

\* Framing fails when the input ends within a line, and the last group with it.
Truncated == InputHasEnded /\ buffer # <<>>
Exhausted == InputHasEnded /\ buffer = <<>> /\ lines = <<>>

-----------------------------------------------------------------------------
\* What the constants have to be.
FilesBounds ==
  /\ Lines \in Seq({"good", "bad"})
  /\ ChunkSize \in Nat \ {0}
  /\ MaxMonths \in Nat
  /\ NONE \notin Nat

FilesTypeOK ==
  /\ disk \in [Month -> 0..Size \cup {NONE}]
  /\ months \in 0..MaxMonths
  /\ rate \in Nat \ {0}
  /\ at \in 0..months + 1
  /\ turn \in 0..Size
  /\ input \in Seq(1..Size)
  /\ buffer \in Seq(1..Size)
  /\ \A i \in 1..Len(buffer) : ~EndsLine(buffer[i])
  /\ Len(lines) < rate
=============================================================================
