---------------------------- MODULE SessionTable ----------------------------
(***************************************************************************)
(* What the files of JSON lines promise their readers: a table of rows,    *)
(* changed by one record at a time.  A write that was interrupted, by an   *)
(* error or by the end of the process, may have happened or not, and it    *)
(* may cost the write that comes next; nothing else is ever lost.          *)
(*                                                                         *)
(* Code: the contract of src/server/replay.py and of the stores over it.   *)
(***************************************************************************)
EXTENDS Naturals

CONSTANTS Ids,            \* the keys of the table
          NoRow,          \* what a key without a row has
          Kinds,          \* kinds of tables
          Updates(_),     \* what a record can do to a table of a kind
          Expires(_),     \* are old rows of such a table dropped?
          Applied(_, _, _)   \* the table after an update, made by a record

VARIABLES count,       \* records written so far
          table,       \* what a reader finds
          prior,       \* what it finds when the unfinished end is gone
          doubtful,    \* has the last write left an unfinished end?
          kind,        \* of which kind it is
          lost,        \* acknowledged writes that no reader finds
          interrupted  \* writes that were not acknowledged

vars == <<count, table, prior, doubtful, kind, lost, interrupted>>

Init == /\ count = 0
        /\ table = [id \in Ids |-> NoRow]
        /\ prior = table
        /\ doubtful = FALSE
        /\ kind \in Kinds
        /\ lost = 0
        /\ interrupted = 0

(* The record is readable, unless it continues an unfinished line.         *)
Lands(u) == /\ table' = IF doubtful THEN prior ELSE Applied(table, u, count')
            /\ prior' = table'
            /\ doubtful' = FALSE

Write(u) == /\ count' = count + 1
            /\ Lands(u)
            /\ lost' = IF doubtful THEN lost + 1 ELSE lost
            /\ UNCHANGED <<kind, interrupted>>

(* Part of it, or all but the end of its line.                             *)
LandsInPart(u) == /\ prior' = IF doubtful THEN prior ELSE table
                  /\ \/ table' = prior'
                     \/ ~ doubtful /\ table' = Applied(table, u, count')
                  /\ doubtful' = TRUE

Interrupt(u) == /\ count' = count + 1
                /\ \/ UNCHANGED <<table, prior, doubtful>>
                   \/ Lands(u)
                   \/ LandsInPart(u)
                /\ interrupted' = interrupted + 1
                /\ UNCHANGED <<kind, lost>>

(* Old rows are dropped, and the file is written anew.                     *)
Expire(gone) == /\ Expires(kind)
                /\ table' = [id \in Ids |-> IF id \in gone THEN NoRow
                                                           ELSE table[id]]
                /\ prior' = table'
                /\ doubtful' = FALSE
                /\ UNCHANGED <<count, kind, lost, interrupted>>

Next == \/ \E u \in Updates(kind) : Write(u) \/ Interrupt(u)
        \/ \E gone \in SUBSET Ids : Expire(gone)

Spec == Init /\ [][Next]_vars

(* Every acknowledged write that is lost is paid for by an interrupted one. *)
LossIsBounded == lost <= interrupted
=============================================================================
