--------------------------- MODULE DeadLetterFiles ---------------------------
(***************************************************************************)
(* The dead-letter queue on disk (ingest/internal/dlq/dlq.go): one file    *)
(* per failed event, named after the second and a counter that a restart   *)
(* resets.  Operations hold the queue's lock; a crash does not wait.       *)
(***************************************************************************)
EXTENDS Integers, FiniteSets

CONSTANTS
  MaxSecond,     \* bound on the clock
  MaxEntries     \* bound on the events that fail

VARIABLES
  second,      \* the clock
  written,     \* the counter
  files,       \* the files: second, counter, and the entry, 0 when torn
  dead,        \* the entries: number, second, and whether somebody removed it
  restarts     \* the seconds in which the service was restarted

dlqVars == <<second, written, files, dead, restarts>>

DlqInit ==
  /\ second = 1
  /\ written = 0
  /\ files = {}
  /\ dead = {}
  /\ restarts = {}

Entry(number) == [number |-> number, second |-> second, removed |-> FALSE]
File(entry) == [second |-> second, counter |-> written, entry |-> entry]

\* os.WriteFile truncates a file of that name.
WithFile(file) ==
  {f \in files : <<f.second, f.counter>> # <<file.second, file.counter>>} \cup {file}

\* A plausible mistake: the counter stays.
WriteUncounted ==
  LET number == Cardinality(dead) + 1
  IN  /\ number <= MaxEntries
      /\ files' = WithFile(File(number))
      /\ dead' = dead \cup {Entry(number)}
      /\ UNCHANGED <<second, written, restarts>>

Write ==
  LET number == Cardinality(dead) + 1
  IN  /\ number <= MaxEntries
      /\ files' = WithFile(File(number))
      /\ dead' = dead \cup {Entry(number)}
      /\ written' = written + 1
      /\ UNCHANGED <<second, restarts>>

\* The disk is full: the file may have been truncated, the caller is told.
WriteFails ==
  /\ files' \in {files, WithFile(File(0))}
  /\ UNCHANGED <<second, written, dead, restarts>>

RemoveFiles(removed) ==
  /\ removed # {}
  /\ files' = files \ removed
  /\ dead' = {IF \E f \in removed : f.entry = e.number
              THEN [e EXCEPT !.removed = TRUE] ELSE e : e \in dead}
  /\ UNCHANGED <<second, written, restarts>>

\* Delete removes every file of a second, and stops at one it cannot remove.
Delete(s) ==
  \E removed \in SUBSET {f \in files : f.second = s} : RemoveFiles(removed)

\* Purge leaves what it cannot remove.
PurgeFiles == \E removed \in SUBSET files : RemoveFiles(removed)

RestartIngest ==
  /\ written' = 0
  /\ restarts' = restarts \cup {second}
  /\ UNCHANGED <<second, files, dead>>

NextSecond ==
  /\ second < MaxSecond
  /\ second' = second + 1
  /\ UNCHANGED <<written, files, dead, restarts>>

DlqNext ==
  \/ Write \/ WriteFails \/ PurgeFiles \/ RestartIngest \/ NextSecond
  \/ \E s \in 1 .. MaxSecond : Delete(s)

DlqSpec == DlqInit /\ [][DlqNext]_dlqVars

-----------------------------------------------------------------------------
\* List shows the files it can parse.
Listed == {f.entry : f \in files} \ {0}

\* Every failed event whose write was answered stays in the queue until an
\* operator removes it, whatever is written, torn or removed around it, and
\* across restarts: except when the service restarts within the second in
\* which it was written (Write, Delete, Purge, List).
EntriesAreKept ==
  \A e \in dead : e.removed \/ e.second \in restarts \/ e.number \in Listed
=============================================================================
