------------------------------ MODULE LogTail ------------------------------
(***************************************************************************)
(* One log collector of the agent: FileLogCollector or JournalCollector    *)
(* (collectors/logs.py), run by _emit_collector under _guarded_loop        *)
(* (runtime.py), against a file that is written, rotated and truncated or  *)
(* a journal that grows, and against the spool, which commits lines and    *)
(* cursor in one transaction.                                              *)
(*                                                                         *)
(* A file is the generations of its content: rotation makes a new inode, a *)
(* truncation (or a reused inode) a new generation of the same one.  A     *)
(* byte is a cell <<generation, position>>; its value matters only in      *)
(* being a newline or not.  An event is the cells of its text, the newline *)
(* that ended it and its truncated flag.  A journal entry is one cell of   *)
(* generation 1 that is its own line.  Decoding, JSON and severity are     *)
(* left out: no cursor depends on them.                                    *)
(***************************************************************************)
EXTENDS Integers, FiniteSets, SequencesExt

CONSTANTS MaxLineBytes,   \* max_line_bytes
          MaxLines,       \* max_lines_per_second
          MaxBytes,       \* bound: bytes ever written
          MaxGenerations, \* bound: generations of the file
          MaxFailures,    \* bound: failed emits and reads
          MaxCrashes      \* bound: agent crashes

ASSUME LogTailAssumption ==
    /\ MaxLineBytes \in Nat \ {0} /\ MaxLines \in Nat \ {0}
    /\ MaxBytes \in Nat /\ MaxGenerations \in Nat \ {0}
    /\ MaxFailures \in Nat /\ MaxCrashes \in Nat

VARIABLES kind,     \* the configured type: "file" or "journald"
          files,    \* generations of the file: inode and bytes
          path,     \* the generation the path names, 0 when there is none
          pc,       \* where the collector's task is; "dead" when it ended
          known,    \* resource_ids has the collector's service
          cursor,   \* the collector's cursor in memory (files only)
          pending,  \* _pending, _pending_cursor
          found,    \* the result of stat(), or the time of --since=now
          lines,    \* the events collect() returned
          saved,    \* spool: the cursor in the state table
          spool,    \* spool: events ever appended by this collector
          torn,     \* history: bytes were read at an offset of other content
          written, failures, crashes  \* counted against the bounds

sourceVars == <<kind, files, path>>
spoolVars == <<saved, spool>>
vars == <<sourceVars, pc, known, cursor, pending, found, lines, spoolVars, torn, written, failures, crashes>>

-----------------------------------------------------------------------------
\* A cursor.  gen is history, the generation its offset counts in.
NoCursor == [inode |-> 0, offset |-> 0, partial |-> <<>>, cut |-> FALSE, gen |-> 0]
NotFound == [gen |-> 0, size |-> 0]

Init ==
    /\ kind \in {"file", "journald"}
    /\ files = <<[inode |-> 1, bytes |-> <<>>]>>
    /\ path \in IF kind = "file" THEN {0, 1} ELSE {1}
    /\ pc = "idle"
    /\ known = FALSE
    /\ cursor = NoCursor /\ pending = NoCursor /\ saved = NoCursor
    /\ found = NotFound
    /\ lines = <<>> /\ spool = <<>>
    /\ torn = FALSE
    /\ written = 0 /\ failures = 0 /\ crashes = 0

-----------------------------------------------------------------------------
(* The source.                                                             *)

Size(g) == Len(files[g].bytes)

\* The application writes a byte, the journal takes an entry.
Write ==
    /\ path # 0
    /\ written < MaxBytes /\ written' = written + 1
    /\ \E b \in IF kind = "file" THEN {"x", "newline"} ELSE {"newline"} :
          files' = [files EXCEPT ![path].bytes = Append(@, b)]
    /\ UNCHANGED <<kind, path, pc, known, cursor, pending, found, lines, spoolVars, torn, failures, crashes>>

\* The file is renamed away, created late or after a rotation, or truncated.
ReplaceFile ==
    /\ kind = "file"
    /\ \/ path # 0 /\ Len(files) < MaxGenerations /\ path' = 0 /\ files' = files
       \/ path = 0 /\ Size(Len(files)) = 0 /\ path' = Len(files) /\ files' = files
       \/ /\ Len(files) < MaxGenerations
          /\ path' = Len(files) + 1
          /\ \E i \in IF path = 0 THEN {Len(files) + 1} ELSE {files[path].inode} :
                files' = Append(files, [inode |-> i, bytes |-> <<>>])
    /\ UNCHANGED <<kind, pc, known, cursor, pending, found, lines, spoolVars, torn, written, failures, crashes>>

-----------------------------------------------------------------------------
(* collect().                                                              *)

\* Discovery learns the id of the service; until then _emit_collector
\* returns at once.
LearnService ==
    /\ pc \in {"idle", "found", "read", "appended"} /\ ~known
    /\ known' = TRUE
    /\ UNCHANGED <<sourceVars, pc, cursor, pending, found, lines, spoolVars, torn, written, failures, crashes>>

\* Mutant: a file that is not longer than the offset is not read.
StatOnlyGrown ==
    /\ pc = "idle" /\ known
    /\ IF path = 0 \/ (cursor # NoCursor /\ Size(path) <= cursor.offset)
       THEN /\ lines' = <<>> /\ found' = NotFound
            /\ pc' = IF pending = NoCursor THEN "idle" ELSE "read"
       ELSE found' = [gen |-> path, size |-> Size(path)] /\ pc' = "found" /\ lines' = lines
    /\ UNCHANGED <<sourceVars, known, cursor, pending, spoolVars, torn, written, failures, crashes>>

\* _read() asks for the file's status; without a file collect() returns no
\* events, whatever _pending holds.  journalctl takes the time of its start.
Stat ==
    /\ pc = "idle" /\ known
    /\ IF path = 0
       THEN /\ lines' = <<>> /\ found' = NotFound
            /\ pc' = IF pending = NoCursor THEN "idle" ELSE "read"
       ELSE found' = [gen |-> path, size |-> Size(path)] /\ pc' = "found" /\ lines' = lines
    /\ UNCHANGED <<sourceVars, known, cursor, pending, spoolVars, torn, written, failures, crashes>>

Rotated == cursor = NoCursor \/ cursor.inode # files[found.gen].inode
Truncated == ~Rotated /\ found.size < cursor.offset

\* Where reading starts: a file that is new or shorter is read from its start.
Start == IF Rotated \/ Truncated
         THEN [NoCursor EXCEPT !.inode = files[found.gen].inode]
         ELSE cursor

IsNewline(cell) == files[cell[1]].bytes[cell[2]] = "newline"

Newlines(cells) == Cardinality({n \in DOMAIN cells : IsNewline(cells[n])})

\* The place of the k-th newline, 0 for k = 0.
LineEnd(cells, k) ==
    CHOOSE n \in 0..Len(cells) : /\ Newlines(SubSeq(cells, 1, n)) = k
                                 /\ n = 0 \/ IsNewline(cells[n])
CutTo(cells) == SubSeq(cells, 1, Min({Len(cells), MaxLineBytes}))

\* The bytes read() returns, as cells; at most one line limit per line and one.
Chunk(start) ==
    [n \in 1..Min({MaxLineBytes * MaxLines + 1, Max({0, Size(path) - start.offset})}) |->
        <<path, start.offset + n>>]

\* Mutant: a line is flagged only for what is left of it.
EventForgetsCut(cells, k, wasCut) ==
    LET line == SubSeq(cells, LineEnd(cells, k - 1) + 1, LineEnd(cells, k) - 1)
    IN [text |-> CutTo(line), end |-> cells[LineEnd(cells, k)],
        truncated |-> Len(line) > MaxLineBytes]

\* _event(): the text is cut, and flagged when it is or was before.
Event(cells, k, wasCut) ==
    LET line == SubSeq(cells, LineEnd(cells, k - 1) + 1, LineEnd(cells, k) - 1)
    IN [text |-> CutTo(line), end |-> cells[LineEnd(cells, k)],
        truncated |-> (k = 1 /\ wasCut) \/ Len(line) > MaxLineBytes]

EventsOf(start, cells) ==
    [k \in 1..Min({MaxLines, Newlines(cells)}) |-> Event(cells, k, start.cut)]

\* Mutant: the partial line is kept whole.
CursorAfterUncut(start, cells, end) ==
    LET n == Newlines(cells)
        rest == IF n > MaxLines THEN <<>> ELSE SubSeq(cells, LineEnd(cells, n) + 1, Len(cells))
    IN [inode |-> start.inode, gen |-> path, partial |-> rest,
        offset |-> IF n > MaxLines THEN start.offset + Max({0, LineEnd(cells, MaxLines) - Len(start.partial)})
                   ELSE end,
        cut |-> (start.cut /\ n = 0) \/ Len(rest) > MaxLineBytes]

\* The cursor after a read: lines beyond the limit are read again next time,
\* bytes of the previous partial line not counting for the offset; else what
\* follows the last newline is the new partial line.
CursorAfter(start, cells, end) ==
    LET n == Newlines(cells)
        rest == IF n > MaxLines THEN <<>> ELSE SubSeq(cells, LineEnd(cells, n) + 1, Len(cells))
    IN [inode |-> start.inode, gen |-> path, partial |-> CutTo(rest),
        offset |-> IF n > MaxLines THEN start.offset + Max({0, LineEnd(cells, MaxLines) - Len(start.partial)})
                   ELSE end,
        cut |-> (start.cut /\ n = 0) \/ Len(rest) > MaxLineBytes]

\* _read() opens the path again, which may name another file by now.
ReadFile ==
    /\ pc = "found" /\ kind = "file" /\ path # 0
    /\ LET start == Start
           cells == start.partial \o Chunk(start)
       IN /\ lines' = EventsOf(start, cells)
          /\ pending' = CursorAfter(start, cells, start.offset + Len(Chunk(start)))
          /\ torn' = (torn \/ found.gen # path \/ (start.offset > 0 /\ start.gen # path))
    /\ pc' = "read"
    /\ UNCHANGED <<sourceVars, known, cursor, found, spoolVars, written, failures, crashes>>

\* journalctl prints the last entries after the cursor or, without one, after
\* its start.  --lines keeps the newest, so older ones may be passed over.
ReadJournal ==
    /\ pc = "found" /\ kind = "journald"
    /\ LET after == IF saved = NoCursor THEN found.size ELSE saved.offset
           from == Max({after, Size(1) - MaxLines})
       IN /\ lines' = [k \in 1..(Size(1) - from) |->
                         [text |-> <<>>, end |-> <<1, from + k>>, truncated |-> FALSE]]
          /\ pending' = IF from < Size(1)
                        THEN [NoCursor EXCEPT !.inode = 1, !.gen = 1, !.offset = Size(1)]
                        ELSE pending
          /\ torn' = (torn \/ after < from)
          /\ pc' = IF lines' = <<>> /\ pending' = NoCursor THEN "idle" ELSE "read"
    /\ UNCHANGED <<sourceVars, known, cursor, found, spoolVars, written, failures, crashes>>

-----------------------------------------------------------------------------
(* _emit_collector and the guarded loop.                                   *)

\* Mutant: the cursor is saved in a transaction of its own, before the lines.
AppendCursorFirst ==
    /\ pc = "read"
    /\ IF saved = pending THEN spool' = spool \o lines /\ pc' = "appended" /\ saved' = saved
       ELSE saved' = pending /\ UNCHANGED <<spool, pc>>
    /\ UNCHANGED <<sourceVars, known, cursor, pending, found, lines, torn, written, failures, crashes>>

\* append() commits the events and the cursor together.
AppendLines ==
    /\ pc = "read"
    /\ spool' = spool \o lines
    /\ saved' = pending
    /\ pc' = "appended"
    /\ UNCHANGED <<sourceVars, known, cursor, pending, found, lines, torn, written, failures, crashes>>

\* Mutant: the cursor in memory is not moved.
CommitStateForgotten ==
    /\ pc = "appended"
    /\ cursor' = cursor
    /\ pending' = NoCursor /\ lines' = <<>> /\ found' = NotFound
    /\ pc' = "idle"
    /\ UNCHANGED <<sourceVars, known, spoolVars, torn, written, failures, crashes>>

\* emit() returned: commit_state_update().
CommitState ==
    /\ pc = "appended"
    /\ cursor' = IF kind = "file" THEN pending ELSE cursor
    /\ pending' = NoCursor /\ lines' = <<>> /\ found' = NotFound
    /\ pc' = "idle"
    /\ UNCHANGED <<sourceVars, known, spoolVars, torn, written, failures, crashes>>

\* Opening the file, journalctl, the append, or what emit() does after the
\* append raises.  The loop reports the error and goes on; when reporting it
\* raises too, the task ends.  What is pending stays.
Fail ==
    /\ pc \in {"found", "read", "appended"}
    /\ failures < MaxFailures
    /\ failures' = failures + 1
    /\ pc' \in {"idle", "dead"}
    /\ lines' = <<>> /\ found' = NotFound
    /\ UNCHANGED <<sourceVars, known, cursor, pending, spoolVars, torn, written, crashes>>

\* open() finds no file: it was renamed away after stat().
OpenFails ==
    /\ pc = "found" /\ kind = "file" /\ path = 0
    /\ pc' = "idle"
    /\ lines' = <<>> /\ found' = NotFound
    /\ UNCHANGED <<sourceVars, known, cursor, pending, spoolVars, torn, written, failures, crashes>>

\* The agent dies; the spool stays.
Crash ==
    /\ pc # "down"
    /\ crashes < MaxCrashes
    /\ crashes' = crashes + 1
    /\ pc' = "down"
    /\ known' = FALSE
    /\ cursor' = NoCursor /\ pending' = NoCursor
    /\ lines' = <<>> /\ found' = NotFound
    /\ UNCHANGED <<sourceVars, spoolVars, torn, written, failures>>

\* A new agent: restore().
Restart ==
    /\ pc = "down"
    /\ pc' = "idle"
    /\ cursor' = IF kind = "file" THEN saved ELSE NoCursor
    /\ UNCHANGED <<sourceVars, known, pending, found, lines, spoolVars, torn, written, failures, crashes>>

Next == \/ Write \/ ReplaceFile \/ LearnService
        \/ Stat \/ ReadFile \/ ReadJournal
        \/ AppendLines \/ CommitState \/ Fail \/ OpenFails
        \/ Crash \/ Restart

Spec == Init /\ [][Next]_vars

\* The loop polls every second, a thread's read and a spool transaction end,
\* discovery goes on, and systemd restarts an agent that died.
Fairness == /\ WF_vars(LearnService) /\ WF_vars(Stat)
            /\ WF_vars(ReadFile) /\ WF_vars(ReadJournal) /\ WF_vars(OpenFails)
            /\ WF_vars(AppendLines) /\ WF_vars(CommitState)
            /\ WF_vars(Restart)

FairSpec == Spec /\ Fairness

-----------------------------------------------------------------------------
(* Properties.                                                             *)

Cells(g, first, last) == [n \in 1..Max({0, last - first + 1}) |-> <<g, first + n - 1>>]

\* The newline before position n of generation g, 0 when there is none.
LineStart(g, n) == Max({0} \cup {m \in 1..(n - 1) : IsNewline(<<g, m>>)})

Spooled(cell) == \E k \in DOMAIN spool : spool[k].end = cell

CursorType ==
    [inode : 0..MaxGenerations, gen : 0..MaxGenerations, offset : 0..MaxBytes,
     partial : Seq((1..MaxGenerations) \X (1..MaxBytes)), cut : BOOLEAN]

\* The shape of the state; a cursor keeps at most max_line_bytes of a line
\* that never ends, and _pending survives only a failed emit or read.
TypeOK ==
    /\ path \in 0..Len(files)
    /\ pc \in {"idle", "found", "read", "appended", "dead", "down"}
    /\ known \in BOOLEAN /\ torn \in BOOLEAN
    /\ \A c \in {cursor, pending, saved} :
          c \in CursorType /\ Len(c.partial) <= MaxLineBytes
    /\ found.gen \in 0..Len(files) /\ found.size \in 0..MaxBytes
    /\ pc = "idle" /\ failures = 0 => pending = NoCursor
    /\ Len(lines) <= MaxLines

\* The saved cursor tells exactly what was spooled of the file at the path:
\* every line that ends before the offset, and of the line that does not end
\* there its bytes up to the limit.  For a journal: every entry between the
\* first one collected and the cursor.  No failure of emit(), crash or restart
\* between the steps of _emit_collector loses or skips a line.
CursorExact ==
    ~torn =>
    /\ kind = "file" /\ path # 0 /\ saved.gen = path =>
          LET rest == Cells(path, LineStart(path, saved.offset + 1) + 1, saved.offset)
          IN /\ \A n \in 1..saved.offset : IsNewline(<<path, n>>) => Spooled(<<path, n>>)
             /\ saved.partial = CutTo(rest)
             /\ saved.cut = (Len(rest) > MaxLineBytes)
    /\ kind = "journald" =>
          \A n, m \in 1..saved.offset : n <= m /\ Spooled(<<1, n>>) => Spooled(<<1, m>>)

\* An event is one whole line of one file, cut at the limit, and says so: the
\* pieces of a line read in several polls, across restarts, are joined right.
LinesWhole ==
    ~torn /\ kind = "file" =>
    \A k \in DOMAIN spool :
        LET e == spool[k]
            line == Cells(e.end[1], LineStart(e.end[1], e.end[2]) + 1, e.end[2] - 1)
        IN e.text = CutTo(line) /\ e.truncated = (Len(line) > MaxLineBytes)

\* Until something fails in the middle of a collection, every line is spooled
\* once, even when the agent dies at any point and restores its cursor.
OnceUnlessFailed ==
    failures = 0 /\ ~torn =>
    \A j, k \in DOMAIN spool : spool[j].end = spool[k].end => j = k

\* When the file is left alone, all its complete lines are spooled in the
\* end, however many exceed the limit of one poll, unless the task has died.
CatchesUp ==
    <>[](\/ kind = "journald" \/ torn \/ pc = "dead" \/ path = 0
         \/ \A n \in 1..Size(path) : IsNewline(<<path, n>>) => Spooled(<<path, n>>))
=============================================================================
