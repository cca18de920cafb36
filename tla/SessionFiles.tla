---------------------------- MODULE SessionFiles ----------------------------
(***************************************************************************)
(* The files of JSON lines a server keeps: handles, jobs, requests, the    *)
(* operation journal and the turns of a session, and the logs that outlive *)
(* it.  A record is appended as one line and a reader replays the file.    *)
(* An append may be interrupted, by an exception that the caller survives  *)
(* or by the end of the process, and then leaves nothing, part of its      *)
(* line, the line without its end, or the whole of it.                     *)
(*                                                                         *)
(* A behaviour is about one file, chosen at the start: no two of them      *)
(* share anything.  The number of a record stands for all values that it   *)
(* sets.                                                                   *)
(*                                                                         *)
(* Code: src/server/replay.py, src/server/lineage_store.py,                *)
(* src/server/delegation_job_store.py, src/server/pending_request_store.py,*)
(* src/server/turn_store.py, and of src/server/journal.py the operations,  *)
(* the once-only logs and their pruning.                                   *)
(***************************************************************************)
EXTENDS Naturals, Sequences, FiniteSets

CONSTANTS Ids,          \* collaborations, jobs, requests, keys
          MaxWrites,    \* bound: appends in all
          MaxTears,     \* bound: of them, interrupted ones
          MaxRestarts   \* bound: ends of the process

ASSUME SessionFilesAssumption == /\ MaxWrites \in Nat /\ MaxTears \in Nat
                                 /\ MaxRestarts \in Nat

----------------------------------------------------------------------------
(* The records of each file: the fields that an operation sets.  "create"  *)
(* makes the row, the others change one that is there.                     *)

HandleOps == [create         |-> {"status", "runtime", "thread"},
              update_status  |-> {"status"},
              update_runtime |-> {"runtime"},
              update_thread  |-> {"runtime", "thread"}]

JobOps == [create                      |-> {"status", "promotion", "attempt",
                                            "artifacts", "parked"},
           update_status               |-> {"status"},
           update_status_and_promotion |-> {"status", "promotion"},
           update_promotion_state      |-> {"promotion"},
           update_promotion_attempt    |-> {"promotion", "attempt"},
           update_artifacts            |-> {"artifacts"},
           update_parked_request       |-> {"parked"}]

RequestOps == [create                   |-> {"status", "dispatch", "resolved",
                                             "timeout", "abort", "echo"},
               update_status            |-> {"status"},
               mark_resolved            |-> {"status", "resolved"},
               record_response_dispatch |-> {"dispatch"},
               record_protocol_echo     |-> {"echo"},
               record_timeout           |-> {"status", "dispatch", "timeout"},
               record_dispatch_failure  |-> {"status", "dispatch", "resolved"},
               record_internal_abort    |-> {"status", "dispatch", "resolved",
                                             "abort"}]

(* In these a record replaces the one of the same key.                     *)
PhaseOps == [create |-> {"phase"}]
TurnOps  == [create |-> {"context_size"}]
LogOps   == [create |-> {"event"}]

Ops == [handles |-> HandleOps, jobs |-> JobOps, requests |-> RequestOps,
        operations |-> PhaseOps, turns |-> TurnOps, log |-> LogOps]

Stores == DOMAIN Ops
IsLog(s) == s = "log"
UpdatesOf(s) == [store : {s}, op : DOMAIN Ops[s], id : Ids]
Update == UNION {UpdatesOf(s) : s \in Stores}
Record == [update : Update, n : 1..MaxWrites]

NoRow == <<>>
Empty == [id \in Ids |-> NoRow]
Sets(u)   == Ops[u.store][u.op]
Fields(u) == Ops[u.store]["create"]

Created(table, u, n) == [table EXCEPT ![u.id] = [f \in Fields(u) |-> n]]
Updated(row, u, n)   == [f \in DOMAIN row |-> IF f \in Sets(u) THEN n ELSE row[f]]
(* Fault: an update of a missing row makes one.                            *)
ChangedOrMade(table, u, n) ==
    [table EXCEPT ![u.id] =
        IF @ = NoRow THEN [f \in Fields(u) |-> n] ELSE Updated(@, u, n)]
Changed(table, u, n) == [table EXCEPT ![u.id] = Updated(@, u, n)]

Applied(table, u, n) == IF u.op = "create" THEN Created(table, u, n)
                                           ELSE Changed(table, u, n)

----------------------------------------------------------------------------
(* Lines, and what a reader makes of them.                                 *)

Broken  == [kind |-> "broken"]                 \* not JSON
Foreign == [kind |-> "foreign"]                \* JSON, but of another version
Whole(r) == [kind |-> "record", rec |-> r, old |-> FALSE]

Line == {Broken, Foreign}
        \cup [kind : {"record"}, rec : Record, old : BOOLEAN]

IsRecord(line) == line.kind = "record"
RecordsOf(f)   == {i \in DOMAIN f : IsRecord(f[i])}

(* What a line does to the table a reader has so far; the tables after the *)
(* lines of a file, one by one; and the last of them.                      *)
Read(table, line) == IF IsRecord(line)
                     THEN Applied(table, line.rec.update, line.rec.n)
                     ELSE table
Tables(f) == LET After[i \in 0..Len(f)] ==
                     IF i = 0 THEN Empty ELSE Read(After[i - 1], f[i])
             IN  After
Replay(f) == Tables(f)[Len(f)]

ValidLines(f) == {i \in DOMAIN f : f[i].kind # "broken"}

(* Fault: the comparison the other way round.                              *)
SwappedLabel(f, i) ==
    IF f[i].kind = "foreign" THEN "schema_violation"
    ELSE IF ValidLines(f) # {} /\ \A v \in ValidLines(f) : i < v
         THEN "trailing_truncation"
         ELSE "mid_file_corruption"

(* The label of a line that is no record of this version: a line that does *)
(* not parse is a truncation when valid lines come before and none after.  *)
Label(f, i) ==
    IF f[i].kind = "foreign" THEN "schema_violation"
    ELSE IF ValidLines(f) # {} /\ \A v \in ValidLines(f) : v < i
         THEN "trailing_truncation"
         ELSE "mid_file_corruption"

HasWarnings(f) == \E i \in DOMAIN f : ~ IsRecord(f[i])
                                      /\ Label(f, i) # "trailing_truncation"

----------------------------------------------------------------------------
VARIABLES store,      \* which of the files this is
          file,       \* its lines
          unended,    \* does the last one lack its newline?
          up,         \* is the process running?
          loaded,     \* has it read the keys of the log?
          seen,       \* those it knows
          acked,      \* records whose append has returned, and not expired
          writes, tears, restarts   \* counters

vars == <<store, file, unended, up, loaded, seen, acked, writes, tears, restarts>>

TypeOK ==
    /\ store \in Stores
    /\ file \in Seq(Line)
    /\ unended \in BOOLEAN
    /\ unended => file # <<>>
    /\ up \in BOOLEAN
    /\ loaded \in BOOLEAN
    /\ seen \subseteq Ids
    /\ acked \subseteq 1..writes
    /\ writes \in 0..MaxWrites
    /\ tears \in 0..MaxTears
    /\ restarts \in 0..MaxRestarts

Init ==
    /\ store \in Stores
    /\ file \in {<<>>, <<Foreign>>}
    /\ unended = FALSE
    /\ up = TRUE
    /\ loaded = FALSE
    /\ seen = {}
    /\ acked = {}
    /\ writes = 0
    /\ tears = 0
    /\ restarts = 0

Keys(f) == {f[i].rec.update.id : i \in RecordsOf(f)}

(* The keys of a log are read from the file at the first append.           *)
(* Fault: they are not.                                                    *)
KnownUnread == seen
Known == IF loaded THEN seen ELSE Keys(file)

(* Fault: the file is opened for writing, not for appending.               *)
Overwritten(line) == <<line>>

(* Fault: the end of a line is never missing.                              *)
AppendedApart(line) == Append(file, line)

(* A line behind an unended one spoils both.                               *)
Appended(line) == IF unended THEN [file EXCEPT ![Len(file)] = Broken]
                             ELSE Append(file, line)

Written(op, id) == [update |-> [store |-> store, op |-> op, id |-> id],
                    n |-> writes + 1]

Appends(op, id) == /\ up
                   /\ op \in DOMAIN Ops[store]
                   /\ IsLog(store) => id \notin Known
                   /\ writes < MaxWrites
                   /\ writes' = writes + 1

(* _append(), write_phase(), write(), append_*_once(): it returns.         *)
AppendSucceeds(op, id) ==
    /\ Appends(op, id)
    /\ file' = Appended(Whole(Written(op, id)))
    /\ unended' = FALSE
    /\ acked' = acked \cup {writes + 1}
    /\ IF IsLog(store) THEN seen' = Known \cup {id} /\ loaded' = TRUE
                        ELSE UNCHANGED <<seen, loaded>>
    /\ UNCHANGED <<store, up, tears, restarts>>

(* The process ends.  Of the other files it keeps nothing in memory, but a *)
(* cache of the turns that every write drops.                              *)
Ends == /\ IsLog(store)
        /\ restarts < MaxRestarts
        /\ up' = FALSE /\ restarts' = restarts + 1
        /\ loaded' = FALSE /\ seen' = {}

(* The append raises, and the process goes on with what it knew.           *)
Survives == /\ IF IsLog(store) THEN seen' = Known /\ loaded' = TRUE
                                ELSE UNCHANGED <<seen, loaded>>
            /\ UNCHANGED <<up, restarts>>

(* The append is interrupted.  It raises with its whole line in the file   *)
(* only if it was followed by an fsync, which the logs do without.         *)
AppendInterrupted(op, id) ==
    /\ Appends(op, id)
    /\ tears < MaxTears
    /\ tears' = tears + 1
    /\ Survives \/ Ends
    /\ \/ UNCHANGED <<file, unended>>
       \/ file' = Appended(Broken) /\ unended' = TRUE
       \/ file' = Appended(Whole(Written(op, id))) /\ unended' = TRUE
       \/ /\ IsLog(store) => ~ up'
          /\ file' = Appended(Whole(Written(op, id)))
          /\ unended' = FALSE
    /\ UNCHANGED <<store, acked>>

ProcessEnds == up /\ Ends /\ UNCHANGED <<store, file, unended, acked, writes, tears>>

(* The lines that are kept when the expired records go.                    *)
Expired(line) == IsRecord(line) /\ line.old
Pruned(f) == LET Kept[i \in 0..Len(f)] ==
                     IF i = 0 THEN <<>>
                     ELSE IF Expired(f[i]) THEN Kept[i - 1]
                     ELSE Append(Kept[i - 1], f[i])
             IN  Kept
Unexpired(f) == Pruned(f)[Len(f)]
ExpiredNumbers(f) == {f[i].rec.n : i \in {j \in DOMAIN f : Expired(f[j])}}

(* Fault: the end of the file is taken for what it was.                    *)
PruneKeepsEnd == /\ file' = Unexpired(file)
                 /\ UNCHANGED unended
                 /\ seen' = Keys(file') /\ loaded' = TRUE
                 /\ acked' = acked \ ExpiredNumbers(file)

(* prune_audit_logs(): expired records go, all else stays, and every line  *)
(* has its end.                                                            *)
Prune == /\ file' = Unexpired(file)
         /\ unended' = FALSE
         /\ seen' = Keys(file') /\ loaded' = TRUE
         /\ acked' = acked \ ExpiredNumbers(file)

(* main(): the logs are pruned, unless that raises an OSError.             *)
ProcessStarts ==
    /\ ~ up
    /\ up' = TRUE
    /\ \/ Prune
       \/ UNCHANGED <<file, unended, seen, loaded, acked>>
    /\ UNCHANGED <<store, writes, tears, restarts>>

(* Thirty days go by.  Only for a log does that make a difference.         *)
TimePasses ==
    /\ file' = [i \in DOMAIN file |->
                   IF IsLog(store) /\ IsRecord(file[i])
                   THEN [file[i] EXCEPT !.old = TRUE]
                   ELSE file[i]]
    /\ UNCHANGED <<store, unended, up, loaded, seen, acked, writes, tears, restarts>>

Next == \/ \E id \in Ids : \E op \in DOMAIN Ops[store] :
              AppendSucceeds(op, id) \/ AppendInterrupted(op, id)
        \/ ProcessEnds \/ ProcessStarts \/ TimePasses

Spec == Init /\ [][Next]_vars

----------------------------------------------------------------------------
(* Properties.                                                             *)

(* The sequential replay has a simple meaning, whatever the records and    *)
(* however they are interleaved with broken lines: a row exists since its  *)
(* last readable "create", and each field has the value of the last record *)
(* since then that sets it; an update before any "create" has no effect.   *)
LatestOf(S)    == CHOOSE i \in S : \A j \in S : j <= i
Creates(f, id) == {i \in RecordsOf(f) : /\ f[i].rec.update.op = "create"
                                        /\ f[i].rec.update.id = id}
Setting(f, id, field) == {i \in RecordsOf(f) : /\ f[i].rec.update.id = id
                                               /\ field \in Sets(f[i].rec.update)
                                               /\ i >= LatestOf(Creates(f, id))}
LastWins(f, id) == IF Creates(f, id) = {} THEN NoRow
                   ELSE [field \in Ops[store]["create"] |->
                            f[LatestOf(Setting(f, id, field))].rec.n]
ReplayIsLastWins == \A id \in Ids : Replay(file)[id] = LastWins(file, id)

Readable == {file[i].rec.n : i \in RecordsOf(file)}
Lost     == acked \ Readable

(* replay_jsonl() tells a loss from a harmless end: when an acknowledged   *)
(* record is missing and a later one is there, the diagnostics have a      *)
(* warning.  (The stores of jobs and requests skip lines of their own and  *)
(* have no diagnostics, and nobody replays a log.)                         *)
Replayed == store \in {"handles", "operations", "turns"}
MissingRecordWarns ==
    Replayed /\ (\E n \in Lost : \E m \in Readable : m > n) => HasWarnings(file)

(* append_*_once() and the pruning: however the process was interrupted,   *)
(* no event has two readable records in a log.                             *)
LoggedOnce ==
    IsLog(store) =>
        \A i, j \in DOMAIN file :
            IsRecord(file[i]) /\ IsRecord(file[j])
            /\ file[i].rec.update.id = file[j].rec.update.id => i = j

(* The files implement the table: readers see one record after another     *)
(* applied, and only the write that follows an interrupted one can be lost.*)
Ended == IF unended THEN [file EXCEPT ![Len(file)] = Broken] ELSE file
Table == INSTANCE SessionTable
            WITH Kinds <- Stores, Updates <- UpdatesOf, Expires <- IsLog,
                 kind <- store, count <- writes, table <- Replay(file),
                 prior <- Replay(Ended), doubtful <- unended,
                 lost <- Cardinality(Lost), interrupted <- tears
ImplementsTable == Table!Spec
LossIsBounded   == Table!LossIsBounded
=============================================================================
