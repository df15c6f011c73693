----------------------------- MODULE RequestLog -----------------------------
(***************************************************************************)
(* The gateway's request log and its reader in the monitor process: a      *)
(* writer thread appends lines to the active file and rotates the files    *)
(* (observability.RequestLogWriter over RotatingFileHandler) while         *)
(* metrics.LogReader lists the directory, reuses what it parsed before and *)
(* reads on, one file operation at a time.                                 *)
(*                                                                         *)
(* A line is two pieces, so that a reader may meet half of it; an offset   *)
(* or a size is a number of pieces.                                        *)
(***************************************************************************)
EXTENDS Naturals, FiniteSets, SequencesExt, Selections

CONSTANTS
    BackupCount,    \* LOG_BACKUP_COUNT
    LinesPerFile,   \* stands for MAX_LOG_FILE_BYTES
    MaxRecords,     \* bound: records the gateway logs
    MaxCrashes      \* bound: times its process is killed

ASSUME LogAssumption ==
    /\ BackupCount \in Nat \ {0}
    /\ LinesPerFile \in Nat \ {0}
    /\ MaxRecords \in Nat
    /\ MaxCrashes \in Nat

VARIABLES
    content,    \* the pieces of every file ever created, by identity
    dir,        \* the file at each rotation age, 0 being active; 0 is no file
    written,    \* the records logged so far
    writer,     \* what the writer does next, and with the file of which age
    crashes,    \* times the gateway was killed
    reading,    \* where LogReader._read_locked is
    listed,     \* the ages found in the directory
    left,       \* those still to be read
    stamp,      \* what stat() said of the rotated file about to be read
    cache,      \* _rotated: stamp and records by age
    active,     \* _active_identity, _active_offset, _active_tail, _active_records
    result,     \* records collected, files skipped, lines found invalid
    quiet,      \* has no file moved since the read began?
    before      \* records that could be read when the read began

writerVars == <<content, dir, written, writer, crashes>>
readerVars == <<reading, listed, left, stamp, cache, active, result>>
historyVars == <<quiet, before>>
vars == <<writerVars, readerVars, historyVars>>

Ages == 0 .. BackupCount
Rotated == 1 .. BackupCount
NoFile == 0
Records == 1 .. MaxRecords
Pieces == [record : Records, end : BOOLEAN]

\* A file's size and modification time: both change with every append, and no
\* two files have the same.
StampOf(f) == [file |-> f, size |-> Len(content[f])]
NoStamp == [file |-> NoFile, size |-> 0]
Stamps == [file : Nat, size : Nat]

NoCache == [stamp |-> NoStamp, records |-> <<>>, invalid |-> 0]
NoActive == [identity |-> NoFile, offset |-> 0, tail |-> <<>>, records |-> <<>>, invalid |-> 0]
NoResult == [records |-> <<>>, skipped |-> 0, invalid |-> 0, readable |-> TRUE]
Ready == [at |-> "ready", age |-> 0]

TypeOK ==
    /\ content \in Seq(Seq(Pieces))
    /\ dir \in [Ages -> 0 .. Len(content)]
    /\ written \in 0 .. MaxRecords
    /\ writer \in [at : {"ready", "line", "drop", "move", "open"}, age : 0 .. BackupCount - 1]
    /\ crashes \in 0 .. MaxCrashes
    /\ reading \in {"idle", "rotated", "stamped", "done"}
    /\ listed \in SUBSET Ages
    /\ left \in SUBSET listed
    /\ stamp \in Stamps
    /\ cache \in [Rotated -> [stamp : Stamps, records : Seq(Records), invalid : Nat]]
    /\ active \in [identity : 0 .. Len(content), offset : Nat, tail : Seq(Pieces),
                   records : Seq(Records), invalid : Nat]
    /\ result \in [records : Seq(Records), skipped : 0 .. Cardinality(listed),
                   invalid : Nat, readable : BOOLEAN]
    /\ quiet \in BOOLEAN
    /\ before \in SUBSET Records

Init ==
    /\ content = << <<>> >>
    /\ dir = [a \in Ages |-> IF a = 0 THEN 1 ELSE NoFile]
    /\ written = 0
    /\ writer = Ready
    /\ crashes = 0
    /\ reading = "idle"
    /\ listed = {}
    /\ left = {}
    /\ stamp = NoStamp
    /\ cache = [a \in Rotated |-> NoCache]
    /\ active = NoActive
    /\ result = NoResult
    /\ quiet = FALSE
    /\ before = {}

-----------------------------------------------------------------------------
\* Lines.

Ends(data) == {n \in 1 .. Len(data) : data[n].end}

\* How far the whole lines at the front of data go.
Cut(data) ==
    CHOOSE n \in Ends(data) \cup {0} : \A m \in Ends(data) : m <= n

Whole(data) == SubSeq(data, 1, Cut(data))
Rest(data) == SubSeq(data, Cut(data) + 1, Len(data))

\* The line that ends here is one record's, with nothing torn in front of it.
ValidEnd(data, n) ==
    /\ n > 1
    /\ data[n - 1] = [record |-> data[n].record, end |-> FALSE]
    /\ n > 2 => data[n - 2].end

\* _parse_log_bytes: the records of the lines that can be parsed ...
Parse(data) ==
    LET lines == Kept(data, {n \in Ends(data) : ValidEnd(data, n)})
    IN  [n \in 1 .. Len(lines) |-> lines[n].record]

\* ... and how many cannot, a last line without an end among them.
Invalid(data) ==
    Cardinality({n \in Ends(data) : ~ValidEnd(data, n)})
    + (IF Rest(data) = <<>> THEN 0 ELSE 1)

-----------------------------------------------------------------------------
\* The writer: a record is appended, or the files are rotated first.

OnDisk == UNION {Range(Parse(content[dir[a]])) : a \in {b \in Ages : dir[b] # NoFile}}

Full(f) == Len(content[f]) + 2 > 2 * LinesPerFile

AppendTo(f, piece) == content' = [content EXCEPT ![f] = Append(@, piece)]

\* A record's line begins to appear in the active file ...
BeginLine ==
    /\ writer = Ready
    /\ written < MaxRecords
    /\ ~Full(dir[0])
    /\ written' = written + 1
    /\ AppendTo(dir[0], [record |-> written + 1, end |-> FALSE])
    /\ writer' = [Ready EXCEPT !.at = "line"]
    /\ UNCHANGED <<dir, crashes, readerVars, historyVars>>

\* ... and is there, with its end of line.
EndLine ==
    /\ writer.at = "line"
    /\ AppendTo(dir[0], [record |-> written, end |-> TRUE])
    /\ writer' = Ready
    /\ UNCHANGED <<dir, written, crashes, readerVars, historyVars>>

\* The next record would not fit.
BeginRotation ==
    /\ writer = Ready
    /\ written < MaxRecords
    /\ Full(dir[0])
    /\ writer' = [Ready EXCEPT !.at = "drop"]
    /\ UNCHANGED <<content, dir, written, crashes, readerVars, historyVars>>

\* Mistake: the loop over the files starts one too high.
DropOldestOneHigh ==
    /\ writer.at = "drop"
    /\ dir' = [dir EXCEPT ![BackupCount] =
                  IF dir[BackupCount - 1] = NoFile THEN @ ELSE NoFile]
    /\ writer' = [at |-> "move", age |-> BackupCount]
    /\ quiet' = FALSE
    /\ UNCHANGED <<content, written, crashes, readerVars, before>>

\* The oldest file is removed, when another is about to take its name.
DropOldest ==
    /\ writer.at = "drop"
    /\ dir' = [dir EXCEPT ![BackupCount] =
                  IF dir[BackupCount - 1] = NoFile THEN @ ELSE NoFile]
    /\ writer' = [at |-> "move", age |-> BackupCount - 1]
    /\ quiet' = FALSE
    /\ UNCHANGED <<content, written, crashes, readerVars, before>>

\* Every file is renamed to the next age, the oldest first.
MoveFile ==
    /\ writer.at = "move"
    /\ LET a == writer.age IN
        /\ dir' = IF dir[a] = NoFile THEN dir
                  ELSE [dir EXCEPT ![a + 1] = dir[a], ![a] = NoFile]
        /\ writer' = IF a = 0 THEN [Ready EXCEPT !.at = "open"]
                     ELSE [writer EXCEPT !.age = a - 1]
    /\ quiet' = FALSE
    /\ UNCHANGED <<content, written, crashes, readerVars, before>>

\* The active file, created when it is not there.
OpenActive ==
    /\ content' = IF dir[0] = NoFile THEN Append(content, <<>>) ELSE content
    /\ dir' = IF dir[0] = NoFile THEN [dir EXCEPT ![0] = Len(content) + 1] ELSE dir

OpenNew ==
    /\ writer.at = "open"
    /\ OpenActive
    /\ writer' = Ready
    /\ quiet' = FALSE
    /\ UNCHANGED <<written, crashes, readerVars, before>>

\* A file cannot be removed or renamed, because somebody has it open, say: the
\* record that called for the rotation is lost, and the next one tries again.
RotationFails ==
    /\ writer.at \in {"drop", "move"}
    /\ written' = written + 1
    /\ writer' = Ready
    /\ OpenActive
    /\ quiet' = FALSE
    /\ UNCHANGED <<crashes, readerVars, before>>

\* The process is killed and started again, wherever it was.
Crash ==
    /\ crashes < MaxCrashes
    /\ crashes' = crashes + 1
    /\ writer' = Ready
    /\ OpenActive
    /\ quiet' = FALSE
    /\ UNCHANGED <<written, readerVars, before>>

Write == \/ BeginLine \/ EndLine
         \/ BeginRotation \/ DropOldest \/ MoveFile \/ OpenNew
         \/ RotationFails \/ Crash

-----------------------------------------------------------------------------
\* The reader.

\* The directory is listed.
BeginRead ==
    /\ reading \in {"idle", "done"}
    /\ listed' = {a \in Ages : dir[a] # NoFile}
    /\ left' = listed'
    /\ reading' = "rotated"
    /\ result' = NoResult
    /\ quiet' = (writer.at \in {"ready", "line"})
    /\ before' = OnDisk
    /\ UNCHANGED <<writerVars, stamp, cache, active>>

Oldest == CHOOSE a \in left : \A b \in left : b <= a

\* The file has gone by the time it is opened.
Skip ==
    /\ left' = left \ {Oldest}
    /\ result' = [result EXCEPT !.skipped = @ + 1]

Collect(entry) ==
    /\ left' = left \ {Oldest}
    /\ result' = [result EXCEPT !.records = @ \o entry.records,
                                !.invalid = @ + entry.invalid]

\* Mistake: whatever was parsed under this name before is used again.
StatRotatedByName ==
    /\ reading = "rotated"
    /\ left \cap Rotated # {}
    /\ \/ dir[Oldest] = NoFile /\ Skip /\ UNCHANGED <<reading, stamp>>
       \/ /\ dir[Oldest] # NoFile
          /\ cache[Oldest] # NoCache
          /\ Collect(cache[Oldest])
          /\ UNCHANGED <<reading, stamp>>
       \/ /\ dir[Oldest] # NoFile
          /\ cache[Oldest] = NoCache
          /\ stamp' = StampOf(dir[Oldest])
          /\ reading' = "stamped"
          /\ UNCHANGED <<left, result>>
    /\ UNCHANGED <<writerVars, listed, cache, active, historyVars>>

\* _read_rotated, first half: an unchanged file is taken from the cache.
StatRotated ==
    /\ reading = "rotated"
    /\ left \cap Rotated # {}
    /\ \/ dir[Oldest] = NoFile /\ Skip /\ UNCHANGED <<reading, stamp>>
       \/ /\ dir[Oldest] # NoFile
          /\ cache[Oldest].stamp = StampOf(dir[Oldest])
          /\ Collect(cache[Oldest])
          /\ UNCHANGED <<reading, stamp>>
       \/ /\ dir[Oldest] # NoFile
          /\ cache[Oldest].stamp # StampOf(dir[Oldest])
          /\ stamp' = StampOf(dir[Oldest])
          /\ reading' = "stamped"
          /\ UNCHANGED <<left, result>>
    /\ UNCHANGED <<writerVars, listed, cache, active, historyVars>>

\* _read_rotated, second half: the name may mean another file by now, whose
\* records are then kept under the stamp of the first.
ReadRotated ==
    /\ reading = "stamped"
    /\ reading' = "rotated"
    /\ stamp' = NoStamp
    /\ \/ dir[Oldest] = NoFile /\ Skip /\ UNCHANGED cache
       \/ /\ dir[Oldest] # NoFile
          /\ LET data  == content[dir[Oldest]]
                 entry == [stamp |-> stamp, records |-> Parse(data), invalid |-> Invalid(data)]
             IN  /\ cache' = [cache EXCEPT ![Oldest] = entry]
                 /\ Collect(entry)
    /\ UNCHANGED <<writerVars, listed, active, historyVars>>

\* Reading on in file f, from what is known of it.
ReadOn(f, known) ==
    LET data == known.tail \o SubSeq(content[f], known.offset + 1, Len(content[f]))
    IN  [identity |-> f,
         offset   |-> Len(content[f]),
         tail     |-> Rest(data),
         records  |-> known.records \o Parse(Whole(data)),
         invalid  |-> known.invalid + Invalid(Whole(data))]

SameFile(f) == active.identity = f /\ Len(content[f]) >= active.offset

\* Mistake: half a line at the end is not carried over to the next read.
ActiveAfterForgetful(f) ==
    [ReadOn(f, IF SameFile(f) THEN active ELSE NoActive) EXCEPT !.tail = <<>>]

\* Mistake: the offset survives a change of file.
ActiveAfterKeepingOffset(f) ==
    ReadOn(f, IF SameFile(f) THEN active ELSE [NoActive EXCEPT !.offset = active.offset])

\* What the reader knows of the active file after reading on: everything anew
\* if it is another file or has shrunk, else what was appended.
ActiveAfter(f) ==
    ReadOn(f, IF SameFile(f) THEN active ELSE NoActive)

\* The snapshot; one of files none of which could be read counts as unreadable.
Deliver(known, skipped) ==
    /\ active' = known
    /\ result' = IF skipped = Cardinality(listed) /\ listed # {}
                 THEN [NoResult EXCEPT !.skipped = skipped, !.readable = FALSE]
                 ELSE [records  |-> result.records \o known.records,
                       skipped  |-> skipped,
                       invalid  |-> result.invalid + known.invalid,
                       readable |-> TRUE]

\* The active file comes last. What was read of it before is given up when it
\* was not listed, and kept when it has gone since. Cache entries of files that
\* were not listed are dropped.
ReadActive ==
    /\ reading = "rotated"
    /\ left \cap Rotated = {}
    /\ \/ 0 \notin listed /\ Deliver(NoActive, result.skipped)
       \/ 0 \in listed /\ dir[0] = NoFile /\ Deliver(active, result.skipped + 1)
       \/ 0 \in listed /\ dir[0] # NoFile /\ Deliver(ActiveAfter(dir[0]), result.skipped)
    /\ cache' = [a \in Rotated |-> IF a \in listed THEN cache[a] ELSE NoCache]
    /\ reading' = "done"
    /\ left' = {}
    /\ UNCHANGED <<writerVars, listed, stamp, historyVars>>

Read == BeginRead \/ StatRotated \/ ReadRotated \/ ReadActive

Next == Write \/ Read

Spec == Init /\ [][Next]_vars

-----------------------------------------------------------------------------
Delivered == reading = "done" /\ result.readable

\* A snapshot that skipped no file holds every record once and in the order
\* they were logged, however many rotations ran between the reader's steps
\* (metrics.LogReader._read_locked over files renamed under it).
CleanSnapshotsOrdered ==
    Delivered /\ result.skipped = 0 =>
        \A m, n \in 1 .. Len(result.records) :
            m < n => result.records[m] < result.records[n]

\* While no file moves, the caches and offsets lose nothing: every record that
\* could be read when the read began is in the snapshot (_read_rotated,
\* _read_active_increment).
QuietReadsComplete ==
    Delivered /\ quiet =>
        /\ result.skipped = 0
        /\ before \subseteq Range(result.records)

\* Half-written lines are waited for, never counted as damage: a clean snapshot
\* finds at most one invalid line for each time the gateway was killed
\* (_read_active_increment keeps the tail for the next read).
OnlyTornLinesInvalid ==
    Delivered /\ result.skipped = 0 => result.invalid <= crashes

\* What a snapshot loses is what was torn, or was being renamed (metrics.LogReader).
NothingElseLost == QuietReadsComplete /\ OnlyTornLinesInvalid

\* No snapshot has a record twice, whatever was skipped: the accumulated lines
\* of a rotated file are the rotated cache's to report.
NoDuplicates ==
    Delivered => IsInjective(result.records)

=============================================================================
