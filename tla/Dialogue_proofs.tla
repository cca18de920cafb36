--------------------------- MODULE Dialogue_proofs ---------------------------
(***************************************************************************)
(* Proofs about Dialogue, for any dialogues and any bounds: type           *)
(* correctness; and, for a server whose stores outlive it and whose first  *)
(* dispatched record of a dialogue never raises, what the journal, the     *)
(* local store and the remote thread say of the same turn, its size        *)
(* included.                                                               *)
(***************************************************************************)
EXTENDS Dialogue, TLAPS, FiniteSetTheorems, NaturalsInduction

----------------------------------------------------------------------------
(* The types.                                                              *)

StoreShapes ==
    /\ thread \in [Dialogues -> Seq(Prompts)]
    /\ journal \in Seq(Entry)
    /\ handle \in [Dialogues -> [status : {"none", "active", "unknown"},
                                 runtime : Runtimes \cup {0}]]
    /\ turnFile \in Seq(Line)
    /\ unended \in BOOLEAN
    /\ unended => turnFile # <<>>
    /\ audits \in [Prompts -> {0, 1}]
    /\ outcomes \in [Prompts -> {0, 1}]

ServerShapes ==
    /\ server \in {"cold", "reconciling", "reattaching", "ready"}
    /\ todo \subseteq Unresolved
    /\ server # "reconciling" => todo = {}
    /\ reattach \subseteq Dialogues

(* Every runtime but the cached one was lost to a crash or a fault.        *)
CounterShapes ==
    /\ prompts \in 0..MaxPrompts
    /\ crashes \in 0..MaxCrashes
    /\ faults \in 0..MaxFaults
    /\ runtimes \in Nat
    /\ runtime \in 0..runtimes
    /\ runtimes + (IF runtime = 0 THEN 1 ELSE 0) <= 1 + crashes + faults

OpenTurn(e) == /\ e.op = "turn_dispatch" /\ e.phase # "completed"
               /\ e.seq \in Prompts /\ e.size \in Prompts

(* Open turns have a number and a prompt, and no key has two entries.      *)
JournalShape ==
    /\ \A i \in DOMAIN journal :
          journal[i].op = "turn_dispatch" /\ journal[i].phase # "completed"
          => OpenTurn(journal[i])
    /\ \A i, j \in DOMAIN journal : SameKey(journal[i], journal[j]) => i = j

TurnSteps == ReplySteps \cup FinalSteps

(* The entry of a call belongs to its dialogue and to its kind of step.    *)
CallShape ==
    \/ call = Idle
    \/ /\ call \in [pc : StartSteps \cup TurnSteps \cup RecoverySteps,
                    of : Dialogues, entry : Entry, turn : 0..MaxPrompts,
                    caller : {"none", "reply", "repair", "recovery"}]
       /\ call.entry.of = call.of
       /\ call.pc \in StartSteps => call.entry = ThreadEntry(call.of, "intent")
       /\ call.pc \in RecoverySteps => call.entry.op = "thread_creation"
       /\ call.pc \in TurnSteps => OpenTurn(call.entry)
       /\ call.pc \in {"ran"} \cup FinalSteps => call.turn \in Prompts

(* Who works when, and on what: recovery on the first entry that is left.  *)
CallIsServed ==
    /\ call.pc \in StartSteps \cup ReplySteps => server = "ready"
    /\ call.pc \in RecoverySteps => server = "reconciling"
    /\ call.pc \in FinalSteps =>
          server = (IF call.caller = "recovery" THEN "reconciling" ELSE "ready")
    /\ server = "reconciling" /\ ~ At("idle") =>
          \E i \in todo \ Rest : journal[i] = call.entry

TypeInv == /\ StoreShapes /\ ServerShapes /\ CounterShapes /\ JournalShape
           /\ CallShape /\ CallIsServed

----------------------------------------------------------------------------
(* Facts about the operators.                                              *)

LEMMA RestIs ==
  ASSUME todo \subseteq Nat, NEW i \in todo \ Rest
  PROVE  /\ Rest \subseteq todo
         /\ \A k \in todo : k = i \/ k \in Rest
<1>1. \A k \in todo : i <= k
  BY DEF Rest
<1> QED
  BY <1>1 DEF Rest

(* What a record in the journal changes.                                   *)
LEMMA WriteEffect ==
  ASSUME journal \in Seq(Entry), NEW e \in Entry, WritePhase(e)
  PROVE  /\ journal' \in Seq(Entry)
         /\ DOMAIN journal \subseteq DOMAIN journal'
         /\ \A i \in DOMAIN journal :
               journal'[i] = IF SameKey(journal[i], e) THEN e ELSE journal[i]
         /\ \A i \in DOMAIN journal' :
               \/ journal'[i] = e
               \/ i \in DOMAIN journal /\ journal'[i] = journal[i]
         /\ \E i \in DOMAIN journal' : journal'[i] = e
         /\ \A i \in DOMAIN journal' \ DOMAIN journal :
               /\ journal'[i] = e
               /\ \A j \in DOMAIN journal : ~ SameKey(journal[j], e)
         /\ \A i, j \in DOMAIN journal' \ DOMAIN journal : i = j
<1>1. CASE \E i \in DOMAIN journal : SameKey(journal[i], e)
  <2>1. journal' = [i \in DOMAIN journal |->
                      IF SameKey(journal[i], e) THEN e ELSE journal[i]]
    BY <1>1 DEF WritePhase
  <2>2. DOMAIN journal' = DOMAIN journal
    BY <2>1
  <2>3. DOMAIN journal = 1..Len(journal) /\ Len(journal) \in Nat
    OBVIOUS
  <2>4. \A i \in DOMAIN journal : journal[i] \in Entry
    OBVIOUS
  <2>5. \A i \in 1..Len(journal) : journal'[i] \in Entry
    BY <2>1, <2>3, <2>4
  <2>6. journal' \in Seq(Entry)
    BY <2>1, <2>3, <2>5
  <2>7. \E i \in DOMAIN journal' : journal'[i] = e
    BY <1>1, <2>1, <2>2
  <2> QED
    BY <2>1, <2>2, <2>6, <2>7
<1>2. CASE ~ \E i \in DOMAIN journal : SameKey(journal[i], e)
  <2>1. journal' = Append(journal, e)
    BY <1>2 DEF WritePhase
  <2>2. /\ Len(journal) \in Nat
        /\ DOMAIN journal = 1..Len(journal)
        /\ DOMAIN journal' = 1..(Len(journal) + 1)
        /\ journal' \in Seq(Entry)
        /\ journal'[Len(journal) + 1] = e
        /\ \A i \in DOMAIN journal : journal'[i] = journal[i]
    BY <2>1
  <2> QED
    BY <1>2, <2>2
<1> QED
  BY <1>1, <1>2

LEMMA WriteKeepsShape ==
  ASSUME journal \in Seq(Entry), JournalShape, NEW e \in Entry, WritePhase(e),
         e.op = "turn_dispatch" /\ e.phase # "completed" => OpenTurn(e)
  PROVE  JournalShape'
<1>1. \A i \in DOMAIN journal' :
         journal'[i].op = "turn_dispatch" /\ journal'[i].phase # "completed"
         => OpenTurn(journal'[i])
  BY WriteEffect DEF JournalShape
<1>2. ASSUME NEW i \in DOMAIN journal', NEW j \in DOMAIN journal',
             SameKey(journal'[i], journal'[j])
      PROVE  i = j
  <2>1. CASE i \in DOMAIN journal /\ j \in DOMAIN journal
    <3>1. SameKey(journal[i], journal[j])
      BY <1>2, <2>1, WriteEffect DEF SameKey
    <3> QED
      BY <2>1, <3>1 DEF JournalShape
  <2>2. CASE i \notin DOMAIN journal /\ j \in DOMAIN journal
    BY <1>2, <2>2, WriteEffect DEF SameKey
  <2>3. CASE i \in DOMAIN journal /\ j \notin DOMAIN journal
    BY <1>2, <2>3, WriteEffect DEF SameKey
  <2>4. CASE i \notin DOMAIN journal /\ j \notin DOMAIN journal
    BY <2>4, WriteEffect
  <2> QED
    BY <2>1, <2>2, <2>3, <2>4
<1> QED
  BY <1>1, <1>2 DEF JournalShape, OpenTurn

LEMMA CompletedIsEntry ==
  ASSUME NEW e \in Entry
  PROVE  /\ [e EXCEPT !.phase = "completed", !.size = 0] \in Entry
         /\ [e EXCEPT !.phase = "completed", !.size = 0].phase = "completed"
         /\ SameKey([e EXCEPT !.phase = "completed", !.size = 0], e)
<1>1. 0 \in 0..MaxPrompts
  BY DialogueAssumption
<1>2. [e EXCEPT !.phase = "completed", !.size = 0] \in Entry
  BY <1>1 DEF Entry
<1> QED
  BY <1>2 DEF Entry, SameKey

LEMMA ThreadEntryIsEntry ==
  ASSUME NEW d \in Dialogues, NEW phase \in {"intent", "dispatched", "completed"}
  PROVE  /\ ThreadEntry(d, phase) \in Entry
         /\ ThreadEntry(d, phase).op = "thread_creation"
         /\ ThreadEntry(d, phase).of = d
         /\ ThreadEntry(d, phase).phase = phase
  BY DialogueAssumption DEF Entry, ThreadEntry

LEMMA AppendedEffect ==
  ASSUME turnFile \in Seq(Line), unended \in BOOLEAN, unended => turnFile # <<>>,
         NEW line \in Line, turnFile' = Appended(line)
  PROVE  /\ turnFile' \in Seq(Line)
         /\ turnFile' # <<>>
         /\ DOMAIN turnFile \subseteq DOMAIN turnFile'
         /\ \A i \in DOMAIN turnFile :
               /\ turnFile'[i].of = turnFile[i].of
               /\ turnFile'[i].seq = turnFile[i].seq
               /\ turnFile'[i].size = turnFile[i].size
               /\ ~ turnFile[i].valid => ~ turnFile'[i].valid
               /\ ~ unended => turnFile'[i] = turnFile[i]
         /\ \A i \in DOMAIN turnFile' \ DOMAIN turnFile : turnFile'[i] = line
         /\ unended => \E i \in DOMAIN turnFile' : ~ turnFile'[i].valid
         /\ ~ unended => \E i \in DOMAIN turnFile' : turnFile'[i] = line
<1>1. CASE unended
  <2>1. turnFile' = [turnFile EXCEPT ![Len(turnFile)].valid = FALSE]
    BY <1>1 DEF Appended
  <2>2. Len(turnFile) \in DOMAIN turnFile
    BY <1>1
  <2>3. /\ DOMAIN turnFile' = DOMAIN turnFile
        /\ \A i \in DOMAIN turnFile : turnFile[i] \in Line
        /\ DOMAIN turnFile = 1..Len(turnFile)
        /\ Len(turnFile) \in Nat
    BY <2>1
  <2>4. \A i \in DOMAIN turnFile :
           turnFile'[i] = IF i = Len(turnFile) THEN [turnFile[i] EXCEPT !.valid = FALSE]
                                               ELSE turnFile[i]
    BY <2>1, <2>2
  <2>5. \A i \in DOMAIN turnFile :
           /\ turnFile'[i] \in Line
           /\ turnFile'[i].of = turnFile[i].of
           /\ turnFile'[i].seq = turnFile[i].seq
           /\ turnFile'[i].size = turnFile[i].size
           /\ ~ turnFile[i].valid => ~ turnFile'[i].valid
    BY <2>3, <2>4 DEF Line
  <2>6. ~ turnFile'[Len(turnFile)].valid
    BY <2>2, <2>3, <2>4 DEF Line
  <2>7. turnFile' = [i \in 1..Len(turnFile) |-> turnFile'[i]]
    BY <2>1, <2>3
  <2>8. turnFile' \in Seq(Line)
    BY <2>3, <2>5, <2>7
  <2> QED
    BY <1>1, <2>2, <2>3, <2>5, <2>6, <2>8
<1>2. CASE ~ unended
  <2>1. turnFile' = Append(turnFile, line)
    BY <1>2 DEF Appended
  <2>2. /\ Len(turnFile) \in Nat
        /\ DOMAIN turnFile = 1..Len(turnFile)
        /\ DOMAIN turnFile' = 1..(Len(turnFile) + 1)
        /\ turnFile' \in Seq(Line)
        /\ turnFile'[Len(turnFile) + 1] = line
        /\ \A i \in DOMAIN turnFile : turnFile'[i] = turnFile[i]
    BY <2>1
  <2> QED
    BY <1>2, <2>2
<1> QED
  BY <1>1, <1>2

(* The counters, and what a runtime can be.                                *)
LEMMA CountersKept ==
  ASSUME CounterShapes, [Next]_vars
  PROVE  CounterShapes'
<1>1. CASE \E d \in Dialogues : StartIntent(d)
  BY <1>1, DialogueAssumption DEF StartIntent, GetRuntime, CounterShapes
<1>2. CASE StartThread
  BY <1>2, DialogueAssumption DEF StartThread, CounterShapes, counters
<1>3. CASE StartThreadRaises
  BY <1>3, DialogueAssumption
     DEF StartThreadRaises, Invalidate, Fault, CounterShapes, disk
<1>4. CASE StartCreatesHandle
  BY <1>4, DialogueAssumption DEF StartCreatesHandle, CounterShapes, counters
<1>5. CASE StartCompletes
  BY <1>5, DialogueAssumption DEF StartCompletes, CounterShapes, counters
<1>6. CASE \E d \in Dialogues : ReplyIntent(d)
  BY <1>6, DialogueAssumption DEF ReplyIntent, GetRuntime, CounterShapes
<1>7. CASE \E d \in Dialogues : ReplyQuarantines(d)
  BY <1>7, DialogueAssumption DEF ReplyQuarantines, GetRuntime, CounterShapes
<1>8. CASE RunTurn
  BY <1>8, DialogueAssumption DEF RunTurn, CounterShapes, disk, counters
<1>9. CASE RunTurnRaises
  BY <1>9, DialogueAssumption
     DEF RunTurnRaises, Invalidate, Fault, CounterShapes, disk
<1>10. CASE WriteDispatched
  BY <1>10, DialogueAssumption DEF WriteDispatched, CounterShapes, counters
<1>11. CASE RepairUnconfirmed
  BY <1>11, DialogueAssumption
     DEF RepairUnconfirmed, GetRuntime, NoRuntime, CallRaises, Fault,
         CounterShapes
<1>12. CASE RepairConfirmed
  BY <1>12, DialogueAssumption
     DEF RepairConfirmed, GetRuntime, CounterShapes, disk
<1>13. CASE ResumeInline
  BY <1>13, DialogueAssumption DEF ResumeInline, GetRuntime, CounterShapes
<1>14. CASE ResumeInlineFails
  BY <1>14, DialogueAssumption
     DEF ResumeInlineFails, GetRuntime, NoRuntime, CallRaises, Fault,
         CounterShapes
<1>15. CASE FinalizeStores
  BY <1>15, DialogueAssumption DEF FinalizeStores, CounterShapes, counters
<1>16. CASE FinalizeAudits
  BY <1>16, DialogueAssumption DEF FinalizeAudits, CounterShapes, counters
<1>17. CASE FinalizeReports
  BY <1>17, DialogueAssumption DEF FinalizeReports, CounterShapes, counters
<1>18. CASE FinalizeCompletes
  BY <1>18, DialogueAssumption DEF FinalizeCompletes, CounterShapes, counters
<1>19. CASE FinalizeRaises
  BY <1>19, DialogueAssumption DEF FinalizeRaises, Fault, CounterShapes
<1>20. CASE BeginRecovery
  BY <1>20, DialogueAssumption DEF BeginRecovery, CounterShapes, disk, counters
<1>21. CASE \E i \in todo : RecoverThreadIntent(i)
  BY <1>21, DialogueAssumption DEF RecoverThreadIntent, CounterShapes, counters
<1>22. CASE \E i \in todo : RecoverThread(i)
  BY <1>22, DialogueAssumption
     DEF RecoverThread, GetRuntime, CounterShapes, disk
<1>23. CASE \E i \in todo : RecoveryRaises(i)
  BY <1>23, DialogueAssumption
     DEF RecoveryRaises, GetRuntime, NoRuntime, CallRaises, Fault,
         CounterShapes, Abandon, disk
<1>24. CASE \E i \in todo : RecoverTurnUnconfirmed(i)
  BY <1>24, DialogueAssumption
     DEF RecoverTurnUnconfirmed, GetRuntime, NoRuntime, CallRaises, Fault,
         CounterShapes
<1>25. CASE \E i \in todo : RecoverTurnConfirmed(i)
  BY <1>25, DialogueAssumption
     DEF RecoverTurnConfirmed, GetRuntime, CounterShapes, disk
<1>26. CASE RecoverHandle
  BY <1>26, DialogueAssumption DEF RecoverHandle, CounterShapes, counters
<1>27. CASE RecoverThreadCompletes
  BY <1>27, DialogueAssumption
     DEF RecoverThreadCompletes, CounterShapes, counters
<1>28. CASE BeginReattach
  BY <1>28, DialogueAssumption DEF BeginReattach, CounterShapes, disk, counters
<1>29. CASE \E d \in Dialogues : Reattach(d)
  BY <1>29, DialogueAssumption DEF Reattach, GetRuntime, CounterShapes
<1>30. CASE \E d \in Dialogues : ReattachFails(d)
  BY <1>30, DialogueAssumption
     DEF ReattachFails, GetRuntime, NoRuntime, CallRaises, Fault, CounterShapes
<1>31. CASE EndRecovery
  BY <1>31, DialogueAssumption DEF EndRecovery, CounterShapes, disk, counters
<1>32. CASE WriteRaises
  BY <1>32, DialogueAssumption
     DEF WriteRaises, Fault, CounterShapes, Abandon, disk
<1>33. CASE OtherCall
  BY <1>33, DialogueAssumption
     DEF OtherCall, GetRuntime, Invalidate, Fault, CounterShapes, disk
<1>34. CASE ServerEnds
  BY <1>34, DialogueAssumption
     DEF ServerEnds, Fault, CounterShapes, Abandon, Dies, Returns
<1>35. CASE UNCHANGED vars
  BY <1>35, DialogueAssumption DEF vars, CounterShapes, disk, memory, counters
<1> QED
  BY <1>1, <1>2, <1>3, <1>4, <1>5, <1>6, <1>7, <1>8, <1>9, <1>10, <1>11,
     <1>12, <1>13, <1>14, <1>15, <1>16, <1>17, <1>18, <1>19, <1>20, <1>21,
     <1>22, <1>23, <1>24, <1>25, <1>26, <1>27, <1>28, <1>29, <1>30, <1>31,
     <1>32, <1>33, <1>34, <1>35
     DEF Next, Start, Reply, Finalize, Recover

LEMMA RuntimeBound ==
  ASSUME NEW r, NEW n \in Nat, NEW c \in 0..MaxCrashes, NEW f \in 0..MaxFaults,
         r \in 0..n, n + (IF r = 0 THEN 1 ELSE 0) <= 1 + c + f
  PROVE  r \in Runtimes \cup {0}
  BY DialogueAssumption DEF Runtimes

LEMMA RuntimeRange ==
  ASSUME CounterShapes, CounterShapes'
  PROVE  runtime \in Runtimes \cup {0} /\ runtime' \in Runtimes \cup {0}
<1>1. runtime \in Runtimes \cup {0}
  BY RuntimeBound DEF CounterShapes
<1>2. runtime' \in Runtimes \cup {0}
  BY RuntimeBound DEF CounterShapes
<1> QED
  BY <1>1, <1>2

LEMMA CompleteKeepsShape ==
  ASSUME journal \in Seq(Entry), JournalShape, NEW e \in Entry, Complete(e)
  PROVE  journal' \in Seq(Entry) /\ JournalShape'
  BY CompletedIsEntry, WriteEffect, WriteKeepsShape DEF Complete

LEMMA JournalKept ==
  ASSUME StoreShapes, ServerShapes, CounterShapes, JournalShape, CallShape,
         [Next]_vars
  PROVE  journal' \in Seq(Entry) /\ JournalShape'
<1>1. CASE \E d \in Dialogues : StartIntent(d)
  <2>0. PICK d \in Dialogues : StartIntent(d)
    BY <1>1
  <2>1. ThreadEntry(d, "intent") \in Entry
    BY ThreadEntryIsEntry
  <2>2. WritePhase(ThreadEntry(d, "intent"))
    BY <2>0 DEF StartIntent
  <2>3. ThreadEntry(d, "intent").op = "turn_dispatch" /\ ThreadEntry(d, "intent").phase # "completed" => OpenTurn(ThreadEntry(d, "intent"))
    BY ThreadEntryIsEntry
  <2> QED
    BY <2>1, <2>2, <2>3, WriteEffect, WriteKeepsShape DEF StoreShapes
<1>2. CASE StartThread
  <2>4. call.of \in Dialogues
    BY <1>2 DEF StartThread, At, CallShape, Idle
  <2>1. ThreadEntry(call.of, "dispatched") \in Entry
    BY <2>4, ThreadEntryIsEntry
  <2>2. WritePhase(ThreadEntry(call.of, "dispatched"))
    BY <1>2 DEF StartThread
  <2>3. ThreadEntry(call.of, "dispatched").op = "turn_dispatch" /\ ThreadEntry(call.of, "dispatched").phase # "completed" => OpenTurn(ThreadEntry(call.of, "dispatched"))
    BY <2>4, ThreadEntryIsEntry
  <2> QED
    BY <2>1, <2>2, <2>3, WriteEffect, WriteKeepsShape DEF StoreShapes
<1>3. CASE StartThreadRaises
  BY <1>3 DEF StartThreadRaises, StoreShapes, OpenTurn, JournalShape, disk
<1>4. CASE StartCreatesHandle
  BY <1>4 DEF StartCreatesHandle, StoreShapes, OpenTurn, JournalShape
<1>5. CASE StartCompletes
  <2>4. call.of \in Dialogues
    BY <1>5 DEF StartCompletes, At, CallShape, Idle
  <2>5. ThreadEntry(call.of, "completed") \in Entry
    BY <2>4, ThreadEntryIsEntry
  <2> QED
    BY <1>5, <2>5, CompleteKeepsShape DEF StartCompletes, StoreShapes
<1>6. CASE \E d \in Dialogues : ReplyIntent(d)
  <2>0. PICK d \in Dialogues : ReplyIntent(d)
    BY <1>6
  <2> DEFINE e == [op |-> "turn_dispatch", of |-> d, runtime |-> runtime',
                   seq |-> NextSequence(d), size |-> prompts', phase |-> "intent"]
  <2>1. e \in Entry /\ OpenTurn(e)
    <3>1. prompts' \in Prompts
      BY <2>0, DialogueAssumption DEF ReplyIntent, CounterShapes, Prompts
    <3>2. NextSequence(d) \in Prompts
      BY <2>0, DialogueAssumption
         DEF ReplyIntent, NextSequence, Prompts, StoreShapes
    <3>3. runtime' \in Runtimes \cup {0}
      BY RuntimeRange, CountersKept
    <3> QED
      BY <3>1, <3>2, <3>3 DEF Entry, OpenTurn, Prompts
  <2>2. WritePhase(e)
    BY <2>0 DEF ReplyIntent
  <2> QED
    BY <2>1, <2>2, WriteEffect, WriteKeepsShape DEF StoreShapes
<1>7. CASE \E d \in Dialogues : ReplyQuarantines(d)
  BY <1>7 DEF ReplyQuarantines, StoreShapes, OpenTurn, JournalShape
<1>8. CASE RunTurn
  BY <1>8 DEF RunTurn, StoreShapes, OpenTurn, JournalShape, disk
<1>9. CASE RunTurnRaises
  BY <1>9 DEF RunTurnRaises, StoreShapes, OpenTurn, JournalShape, disk
<1>10. CASE WriteDispatched
  <2> DEFINE e == [call.entry EXCEPT !.phase = "dispatched"]
  <2>1. e \in Entry /\ OpenTurn(e)
    <3>1. call.entry \in Entry /\ OpenTurn(call.entry)
      BY <1>10 DEF WriteDispatched, At, CallShape, Idle, TurnSteps, ReplySteps
    <3> QED
      BY <3>1 DEF Entry, OpenTurn
  <2>2. WritePhase(e)
    BY <1>10 DEF WriteDispatched
  <2> QED
    BY <2>1, <2>2, WriteEffect, WriteKeepsShape DEF StoreShapes
<1>11. CASE RepairUnconfirmed
  BY <1>11 DEF RepairUnconfirmed, StoreShapes, OpenTurn, JournalShape
<1>12. CASE RepairConfirmed
  BY <1>12 DEF RepairConfirmed, StoreShapes, OpenTurn, JournalShape, disk
<1>13. CASE ResumeInline
  BY <1>13 DEF ResumeInline, StoreShapes, OpenTurn, JournalShape
<1>14. CASE ResumeInlineFails
  BY <1>14 DEF ResumeInlineFails, StoreShapes, OpenTurn, JournalShape
<1>15. CASE FinalizeStores
  BY <1>15 DEF FinalizeStores, StoreShapes, OpenTurn, JournalShape
<1>16. CASE FinalizeAudits
  BY <1>16 DEF FinalizeAudits, StoreShapes, OpenTurn, JournalShape
<1>17. CASE FinalizeReports
  BY <1>17 DEF FinalizeReports, StoreShapes, OpenTurn, JournalShape
<1>18. CASE FinalizeCompletes
  <2>1. call.entry \in Entry
    BY <1>18 DEF FinalizeCompletes, At, CallShape, Idle
  <2> QED
    BY <1>18, <2>1, CompleteKeepsShape DEF FinalizeCompletes, StoreShapes
<1>19. CASE FinalizeRaises
  BY <1>19 DEF FinalizeRaises, StoreShapes, OpenTurn, JournalShape
<1>20. CASE BeginRecovery
  BY <1>20 DEF BeginRecovery, StoreShapes, OpenTurn, JournalShape, disk
<1>21. CASE \E i \in todo : RecoverThreadIntent(i)
  <2>0. PICK i \in todo : RecoverThreadIntent(i)
    BY <1>21
  <2>1. journal[i] \in Entry
    BY DEF StoreShapes, ServerShapes, Unresolved
  <2> QED
    BY <2>0, <2>1, CompleteKeepsShape DEF RecoverThreadIntent, StoreShapes
<1>22. CASE \E i \in todo : RecoverThread(i)
  BY <1>22 DEF RecoverThread, StoreShapes, OpenTurn, JournalShape, disk
<1>23. CASE \E i \in todo : RecoveryRaises(i)
  BY <1>23 DEF RecoveryRaises, StoreShapes, OpenTurn, JournalShape, disk
<1>24. CASE \E i \in todo : RecoverTurnUnconfirmed(i)
  BY <1>24 DEF RecoverTurnUnconfirmed, StoreShapes, OpenTurn, JournalShape
<1>25. CASE \E i \in todo : RecoverTurnConfirmed(i)
  BY <1>25 DEF RecoverTurnConfirmed, StoreShapes, OpenTurn, JournalShape, disk
<1>26. CASE RecoverHandle
  BY <1>26 DEF RecoverHandle, StoreShapes, OpenTurn, JournalShape
<1>27. CASE RecoverThreadCompletes
  <2>1. call.entry \in Entry
    BY <1>27 DEF RecoverThreadCompletes, At, CallShape, Idle
  <2> QED
    BY <1>27, <2>1, CompleteKeepsShape DEF RecoverThreadCompletes, StoreShapes
<1>28. CASE BeginReattach
  BY <1>28 DEF BeginReattach, StoreShapes, OpenTurn, JournalShape, disk
<1>29. CASE \E d \in Dialogues : Reattach(d)
  BY <1>29 DEF Reattach, StoreShapes, OpenTurn, JournalShape
<1>30. CASE \E d \in Dialogues : ReattachFails(d)
  BY <1>30 DEF ReattachFails, StoreShapes, OpenTurn, JournalShape
<1>31. CASE EndRecovery
  BY <1>31 DEF EndRecovery, StoreShapes, OpenTurn, JournalShape, disk
<1>32. CASE WriteRaises
  BY <1>32 DEF WriteRaises, StoreShapes, OpenTurn, JournalShape, disk
<1>33. CASE OtherCall
  BY <1>33 DEF OtherCall, StoreShapes, OpenTurn, JournalShape, disk
<1>34. CASE ServerEnds
  BY <1>34 DEF ServerEnds, StoreShapes, OpenTurn, JournalShape, Dies, Returns
<1>35. CASE UNCHANGED vars
  BY <1>35 DEF vars, StoreShapes, OpenTurn, JournalShape, disk
<1> QED
  BY <1>1, <1>2, <1>3, <1>4, <1>5, <1>6, <1>7, <1>8, <1>9, <1>10, <1>11,
     <1>12, <1>13, <1>14, <1>15, <1>16, <1>17, <1>18, <1>19, <1>20, <1>21,
     <1>22, <1>23, <1>24, <1>25, <1>26, <1>27, <1>28, <1>29, <1>30, <1>31,
     <1>32, <1>33, <1>34, <1>35
     DEF Next, Start, Reply, Finalize, Recover

(* What a turn, a status and a log record change.                          *)
LEMMA TurnEffect ==
  ASSUME thread \in [Dialogues -> Seq(Prompts)], call.of \in Dialogues,
         call.entry.size \in Prompts, TurnCompletes
  PROVE  /\ thread' \in [Dialogues -> Seq(Prompts)]
         /\ \A d \in Dialogues : d # call.of => thread'[d] = thread[d]
         /\ Len(thread'[call.of]) = Len(thread[call.of]) + 1
         /\ thread'[call.of][Len(thread[call.of]) + 1] = call.entry.size
         /\ \A s \in DOMAIN thread[call.of] :
               thread'[call.of][s] = thread[call.of][s]
<1>1. thread[call.of] \in Seq(Prompts)
  OBVIOUS
<1>2. Append(thread[call.of], call.entry.size) \in Seq(Prompts)
  BY <1>1
<1>3. thread'[call.of] = Append(thread[call.of], call.entry.size)
  BY DEF TurnCompletes
<1>4. thread' \in [Dialogues -> Seq(Prompts)]
  BY <1>2 DEF TurnCompletes
<1>5. \A d \in Dialogues : d # call.of => thread'[d] = thread[d]
  BY DEF TurnCompletes
<1> QED
  BY <1>1, <1>3, <1>4, <1>5

Handles == [Dialogues -> [status : {"none", "active", "unknown"},
                          runtime : Runtimes \cup {0}]]

LEMMA StatusEffect ==
  ASSUME handle \in Handles, NEW d \in Dialogues,
         NEW status \in {"active", "unknown"}, SetStatus(d, status)
  PROVE  /\ handle' \in Handles
         /\ handle'[d].status = status
         /\ \A c \in Dialogues : c # d => handle'[c] = handle[c]
  BY DEF SetStatus, Handles

LEMMA RebindEffect ==
  ASSUME handle \in Handles, NEW d \in Dialogues,
         NEW status \in {"active", "unknown"}, Rebind(d, status),
         runtime' \in Runtimes \cup {0}
  PROVE  /\ handle' \in Handles
         /\ handle'[d].status = status
         /\ \A c \in Dialogues : c # d => handle'[c] = handle[c]
  BY DEF Rebind, Handles

LEMMA OnceEffect ==
  ASSUME NEW log \in [Prompts -> {0, 1}], NEW turn \in Prompts
  PROVE  /\ Once(log, turn) \in [Prompts -> {0, 1}]
         /\ Once(log, turn)[turn] = 1
         /\ \A p \in Prompts : log[p] = 1 => Once(log, turn)[p] = 1
  BY DEF Once

(* What the call of a step may rely on.                                    *)
LEMMA CallIs ==
  ASSUME CallShape, call.pc # "idle"
  PROVE  /\ call.of \in Dialogues /\ call.entry \in Entry
         /\ call.entry.of = call.of
         /\ call.pc \in TurnSteps => OpenTurn(call.entry)
         /\ call.pc \in {"ran"} \cup FinalSteps => call.turn \in Prompts
  BY DEF CallShape, Idle

LEMMA TearsEffect ==
  ASSUME StoreShapes, CallShape, NEW whole \in BOOLEAN, Tears(whole)
  PROVE  /\ call.pc = "storing" /\ unended' = TRUE
         /\ turnFile' \in Seq(Line) /\ turnFile' # <<>>
         /\ \E line \in Line :
               /\ turnFile' = Appended(line)
               /\ line.of = call.of /\ line.seq = call.entry.seq
               /\ line.size = call.entry.size
<1> DEFINE line == [of |-> call.of, seq |-> call.entry.seq,
                    size |-> call.entry.size, valid |-> whole]
<1>1. call.pc = "storing" /\ unended' = TRUE
  BY DEF Tears, At
<1>2. call.of \in Dialogues /\ OpenTurn(call.entry)
  BY <1>1, CallIs DEF TurnSteps, FinalSteps
<1>3. line \in Line
  BY <1>2 DEF Line, OpenTurn
<1>4. turnFile' = Appended(line)
  BY DEF Tears
<1>5. line.of = call.of /\ line.seq = call.entry.seq /\ line.size = call.entry.size
  OBVIOUS
<1> HIDE DEF line
<1>6. turnFile' \in Seq(Line) /\ turnFile' # <<>>
  BY <1>3, <1>4, AppendedEffect DEF StoreShapes
<1> QED
  BY <1>1, <1>3, <1>4, <1>5, <1>6

LEMMA StoresKept ==
  ASSUME TypeInv, [Next]_vars
  PROVE  StoreShapes'
<1>0. /\ StoreShapes /\ ServerShapes /\ CounterShapes /\ CallShape
      /\ journal' \in Seq(Entry)
  BY JournalKept DEF TypeInv
<1>1. CASE \E d \in Dialogues : StartIntent(d)
  BY <1>0, <1>1 DEF StartIntent, StoreShapes
<1>2. CASE StartThread
  BY <1>0, <1>2 DEF StartThread, StoreShapes
<1>3. CASE StartThreadRaises
  BY <1>0, <1>3 DEF StartThreadRaises, StoreShapes, disk
<1>4. CASE StartCreatesHandle
  <2>8. call.of \in Dialogues /\ call.entry \in Entry
    BY <1>0, <1>4, CallIs DEF StartCreatesHandle, At, FinalSteps
  <2>9. handle' \in Handles
    BY <1>0, <1>4, <2>8, RuntimeRange, CountersKept
       DEF StartCreatesHandle, StoreShapes, Handles
  <2> QED
    BY <1>0, <1>4, <2>9 DEF StartCreatesHandle, StoreShapes, Handles
<1>5. CASE StartCompletes
  BY <1>0, <1>5 DEF StartCompletes, StoreShapes
<1>6. CASE \E d \in Dialogues : ReplyIntent(d)
  BY <1>0, <1>6 DEF ReplyIntent, StoreShapes
<1>7. CASE \E d \in Dialogues : ReplyQuarantines(d)
  <2>0. PICK d \in Dialogues : ReplyQuarantines(d)
    BY <1>7
  <2>9. handle' \in Handles
    BY <1>0, <2>0, StatusEffect DEF ReplyQuarantines, StoreShapes, Handles
  <2> QED
    BY <1>0, <2>0, <2>9 DEF ReplyQuarantines, StoreShapes, Handles
<1>8. CASE RunTurn
  <2>8. call.of \in Dialogues /\ call.entry.size \in Prompts
    BY <1>0, <1>8, CallIs DEF RunTurn, At, TurnSteps, ReplySteps, OpenTurn
  <2>9. thread' \in [Dialogues -> Seq(Prompts)]
    BY <1>0, <1>8, <2>8, TurnEffect DEF RunTurn, StoreShapes
  <2> QED
    BY <1>0, <1>8, <2>9 DEF RunTurn, StoreShapes, Handles, disk
<1>9. CASE RunTurnRaises
  <2>8. call.of \in Dialogues /\ call.entry.size \in Prompts
    BY <1>0, <1>9, CallIs DEF RunTurnRaises, At, TurnSteps, ReplySteps, OpenTurn
  <2>9. thread' \in [Dialogues -> Seq(Prompts)]
    BY <1>0, <1>9, <2>8, TurnEffect DEF RunTurnRaises, StoreShapes
  <2> QED
    BY <1>0, <1>9, <2>9 DEF RunTurnRaises, StoreShapes, Handles, disk
<1>10. CASE WriteDispatched
  BY <1>0, <1>10 DEF WriteDispatched, StoreShapes
<1>11. CASE RepairUnconfirmed
  <2>8. call.of \in Dialogues /\ call.entry \in Entry
    BY <1>0, <1>11, CallIs DEF RepairUnconfirmed, At, FinalSteps
  <2>9. handle' \in Handles
    BY <1>0, <1>11, <2>8, StatusEffect
       DEF RepairUnconfirmed, StoreShapes, Handles
  <2> QED
    BY <1>0, <1>11, <2>9 DEF RepairUnconfirmed, StoreShapes, Handles
<1>12. CASE RepairConfirmed
  BY <1>0, <1>12 DEF RepairConfirmed, StoreShapes, disk
<1>13. CASE ResumeInline
  <2>8. call.of \in Dialogues /\ call.entry \in Entry
    BY <1>0, <1>13, CallIs DEF ResumeInline, At, FinalSteps
  <2>9. handle' \in Handles
    BY <1>0, <1>13, <2>8, RuntimeRange, CountersKept, RebindEffect
       DEF ResumeInline, StoreShapes, Handles
  <2> QED
    BY <1>0, <1>13, <2>9 DEF ResumeInline, StoreShapes, Handles
<1>14. CASE ResumeInlineFails
  <2>8. call.of \in Dialogues /\ call.entry \in Entry
    BY <1>0, <1>14, CallIs DEF ResumeInlineFails, At, FinalSteps
  <2>9. handle' \in Handles
    BY <1>0, <1>14, <2>8, StatusEffect
       DEF ResumeInlineFails, StoreShapes, Handles
  <2> QED
    BY <1>0, <1>14, <2>9 DEF ResumeInlineFails, StoreShapes, Handles
<1>15. CASE FinalizeStores
  <2> DEFINE line == [of |-> call.of, seq |-> call.entry.seq,
                      size |-> call.entry.size, valid |-> TRUE]
  <2>1. call.of \in Dialogues /\ OpenTurn(call.entry)
    BY <1>0, <1>15, CallIs DEF FinalizeStores, At, TurnSteps, FinalSteps
  <2>2. line \in Line
    BY <1>0, <2>1 DEF Line, OpenTurn
  <2>3. turnFile' = Appended(line) /\ unended' = FALSE
    BY <1>0, <1>15 DEF FinalizeStores
  <2>4. turnFile' \in Seq(Line)
    BY <1>0, <2>2, <2>3, AppendedEffect DEF StoreShapes
  <2> QED
    BY <1>0, <1>15, <2>3, <2>4 DEF FinalizeStores, StoreShapes
<1>16. CASE FinalizeAudits
  <2>1. call.turn \in Prompts
    BY <1>0, <1>16, CallIs DEF FinalizeAudits, At, FinalSteps
  <2>2. audits' \in [Prompts -> {0, 1}]
    BY <1>0, <1>16, <2>1, OnceEffect DEF FinalizeAudits, StoreShapes
  <2> QED
    BY <1>0, <1>16, <2>2 DEF FinalizeAudits, StoreShapes
<1>17. CASE FinalizeReports
  <2>1. call.turn \in Prompts
    BY <1>0, <1>17, CallIs DEF FinalizeReports, At, FinalSteps
  <2>2. outcomes' \in [Prompts -> {0, 1}]
    BY <1>0, <1>17, <2>1, OnceEffect DEF FinalizeReports, StoreShapes
  <2> QED
    BY <1>0, <1>17, <2>2 DEF FinalizeReports, StoreShapes
<1>18. CASE FinalizeCompletes
  BY <1>0, <1>18 DEF FinalizeCompletes, StoreShapes
<1>19. CASE FinalizeRaises
  <2>8. call.of \in Dialogues /\ call.entry \in Entry
    BY <1>0, <1>19, CallIs DEF FinalizeRaises, FinalSteps
  <2>9. handle' \in Handles
    BY <1>0, <1>19, <2>8, StatusEffect DEF FinalizeRaises, StoreShapes, Handles
  <2>10. CASE UNCHANGED <<turnFile, unended>>
    BY <1>0, <1>19, <2>9, <2>10 DEF FinalizeRaises, StoreShapes, Handles
  <2>11. CASE Tears(FALSE)
    <3>1. /\ turnFile' \in Seq(Line) /\ unended' \in BOOLEAN
          /\ unended' => turnFile' # <<>>
      BY <1>0, <2>11, TearsEffect
    <3> QED
      BY <1>0, <1>19, <2>9, <3>1 DEF FinalizeRaises, StoreShapes, Handles
  <2> QED
    BY <1>19, <2>10, <2>11 DEF FinalizeRaises
<1>20. CASE BeginRecovery
  BY <1>0, <1>20 DEF BeginRecovery, StoreShapes, disk
<1>21. CASE \E i \in todo : RecoverThreadIntent(i)
  BY <1>0, <1>21 DEF RecoverThreadIntent, StoreShapes
<1>22. CASE \E i \in todo : RecoverThread(i)
  BY <1>0, <1>22 DEF RecoverThread, StoreShapes, disk
<1>23. CASE \E i \in todo : RecoveryRaises(i)
  BY <1>0, <1>23 DEF RecoveryRaises, StoreShapes, disk
<1>24. CASE \E i \in todo : RecoverTurnUnconfirmed(i)
  <2>0. PICK i \in todo : RecoverTurnUnconfirmed(i)
    BY <1>24
  <2>7. journal[i] \in Entry
    BY <1>0 DEF StoreShapes, ServerShapes, Unresolved
  <2>8. journal[i].of \in Dialogues
    BY <1>0, <2>7 DEF Entry
  <2>9. handle' \in Handles
    BY <1>0, <2>0, <2>8, StatusEffect
       DEF RecoverTurnUnconfirmed, StoreShapes, Handles
  <2> QED
    BY <1>0, <2>0, <2>9 DEF RecoverTurnUnconfirmed, StoreShapes, Handles
<1>25. CASE \E i \in todo : RecoverTurnConfirmed(i)
  BY <1>0, <1>25 DEF RecoverTurnConfirmed, StoreShapes, disk
<1>26. CASE RecoverHandle
  <2>8. call.of \in Dialogues /\ call.entry \in Entry
    BY <1>0, <1>26, CallIs DEF RecoverHandle, At, FinalSteps
  <2>7. handle[call.of].status \in {"none", "active", "unknown"}
    BY <1>0, <2>8 DEF StoreShapes
  <2>9. handle' \in Handles
    BY <1>0, <1>26, <2>7, <2>8, RuntimeRange, CountersKept
       DEF RecoverHandle, StoreShapes, Handles
  <2> QED
    BY <1>0, <1>26, <2>9 DEF RecoverHandle, StoreShapes, Handles
<1>27. CASE RecoverThreadCompletes
  BY <1>0, <1>27 DEF RecoverThreadCompletes, StoreShapes
<1>28. CASE BeginReattach
  BY <1>0, <1>28 DEF BeginReattach, StoreShapes, disk
<1>29. CASE \E d \in Dialogues : Reattach(d)
  <2>0. PICK d \in Dialogues : Reattach(d)
    BY <1>29
  <2>9. handle' \in Handles
    BY <1>0, <2>0, RuntimeRange, CountersKept, RebindEffect, StatusEffect
       DEF Reattach, StoreShapes, Handles
  <2> QED
    BY <1>0, <2>0, <2>9 DEF Reattach, StoreShapes, Handles
<1>30. CASE \E d \in Dialogues : ReattachFails(d)
  <2>0. PICK d \in Dialogues : ReattachFails(d)
    BY <1>30
  <2>9. handle' \in Handles
    BY <1>0, <2>0, StatusEffect DEF ReattachFails, StoreShapes, Handles
  <2> QED
    BY <1>0, <2>0, <2>9 DEF ReattachFails, StoreShapes, Handles
<1>31. CASE EndRecovery
  BY <1>0, <1>31 DEF EndRecovery, StoreShapes, disk
<1>32. CASE WriteRaises
  BY <1>0, <1>32 DEF WriteRaises, StoreShapes, disk
<1>33. CASE OtherCall
  BY <1>0, <1>33 DEF OtherCall, StoreShapes, disk
<1>34. CASE ServerEnds
  <2>1. thread' \in [Dialogues -> Seq(Prompts)]
    <3>1. CASE At("running") /\ TurnCompletes
      <4>1. call.of \in Dialogues /\ call.entry.size \in Prompts
        BY <1>0, <3>1, CallIs DEF At, TurnSteps, ReplySteps, OpenTurn
      <4> QED
        BY <1>0, <3>1, <4>1, TurnEffect DEF StoreShapes
    <3>2. CASE UNCHANGED thread
      BY <1>0, <3>2 DEF StoreShapes
    <3> QED
      BY <1>0, <1>34, <3>1, <3>2 DEF ServerEnds, Dies, Returns
  <2>2. turnFile' \in Seq(Line) /\ unended' \in BOOLEAN /\ (unended' => turnFile' # <<>>)
    <3>1. CASE UNCHANGED <<turnFile, unended>>
      BY <1>0, <3>1 DEF StoreShapes
    <3>2. ASSUME NEW whole \in BOOLEAN, Tears(whole)
          PROVE  /\ turnFile' \in Seq(Line) /\ unended' \in BOOLEAN
                 /\ unended' => turnFile' # <<>>
      BY <1>0, <3>2, TearsEffect
    <3>3. CASE turnFile' = <<>> /\ unended' = FALSE
      <4>1. <<>> \in Seq(Line)
        OBVIOUS
      <4> QED
        BY <1>0, <3>3, <4>1
    <3> QED
      BY <1>0, <1>34, <3>1, <3>2, <3>3 DEF ServerEnds, Dies, Returns
  <2>3. handle' \in Handles
    BY <1>0, <1>34 DEF ServerEnds, Dies, Returns, StoreShapes, Handles
  <2> QED
    BY <1>0, <1>34, <2>1, <2>2, <2>3 DEF ServerEnds, StoreShapes, Handles
<1>35. CASE UNCHANGED vars
  BY <1>0, <1>35 DEF vars, StoreShapes, disk
<1> QED
  BY <1>1, <1>2, <1>3, <1>4, <1>5, <1>6, <1>7, <1>8, <1>9, <1>10, <1>11,
     <1>12, <1>13, <1>14, <1>15, <1>16, <1>17, <1>18, <1>19, <1>20, <1>21,
     <1>22, <1>23, <1>24, <1>25, <1>26, <1>27, <1>28, <1>29, <1>30, <1>31,
     <1>32, <1>33, <1>34, <1>35
     DEF Next, Start, Reply, Finalize, Recover

LEMMA CallIsShaped ==
  ASSUME NEW pc \in StartSteps \cup TurnSteps \cup RecoverySteps,
         NEW e \in Entry, NEW turn \in 0..MaxPrompts,
         NEW caller \in {"none", "reply", "repair", "recovery"},
         call' = [pc |-> pc, of |-> e.of, entry |-> e, turn |-> turn,
                  caller |-> caller],
         pc \in StartSteps => e = ThreadEntry(e.of, "intent"),
         pc \in RecoverySteps => e.op = "thread_creation",
         pc \in TurnSteps => OpenTurn(e),
         pc \in {"ran"} \cup FinalSteps => turn \in Prompts
  PROVE  CallShape'
<1>1. e.of \in Dialogues
  BY DEF Entry
<1>2. ThreadEntry(e.of, "intent")' = ThreadEntry(e.of, "intent")
  BY DEF ThreadEntry
<1> QED
  BY <1>1, <1>2 DEF CallShape, OpenTurn

LEMMA TurnCallIsShaped ==
  ASSUME NEW pc \in TurnSteps, NEW e \in Entry, OpenTurn(e),
         NEW turn \in 0..MaxPrompts,
         pc \in {"ran"} \cup FinalSteps => turn \in Prompts,
         NEW caller \in {"none", "reply", "repair", "recovery"},
         call' = [pc |-> pc, of |-> e.of, entry |-> e, turn |-> turn,
                  caller |-> caller]
  PROVE  CallShape'
<1>1. pc \notin StartSteps /\ pc \notin RecoverySteps
  BY DEF TurnSteps, StartSteps, ReplySteps, FinalSteps, RecoverySteps
<1> QED
  BY <1>1, CallIsShaped

LEMMA TurnFields ==
  ASSUME CallShape, call.pc \in TurnSteps
  PROVE  /\ call.of \in Dialogues /\ call.entry \in Entry
         /\ OpenTurn(call.entry) /\ call.entry.of = call.of
         /\ call.caller \in {"none", "reply", "repair", "recovery"}
         /\ call = [call EXCEPT !.entry = call.entry, !.caller = call.caller]
         /\ call = [call EXCEPT !.turn = call.turn]
<1>1. call.pc # "idle"
  BY DEF TurnSteps, ReplySteps, FinalSteps
<1>2. call \in [pc : StartSteps \cup TurnSteps \cup RecoverySteps,
                of : Dialogues, entry : Entry, turn : 0..MaxPrompts,
                caller : {"none", "reply", "repair", "recovery"}]
  BY <1>1 DEF CallShape, Idle
<1> QED
  BY <1>1, <1>2, CallIs

LEMMA TurnMoves ==
  ASSUME CallShape, call.pc \in TurnSteps, NEW pc \in TurnSteps,
         NEW e \in Entry, e.of = call.of, OpenTurn(e), NEW turn \in Prompts,
         NEW caller \in {"none", "reply", "repair", "recovery"},
         call' = [call EXCEPT !.pc = pc, !.entry = e, !.turn = turn,
                              !.caller = caller]
  PROVE  CallShape'
<1>1. turn \in 0..MaxPrompts
  BY DialogueAssumption DEF Prompts
<1>2. call \in [pc : StartSteps \cup TurnSteps \cup RecoverySteps,
                of : Dialogues, entry : Entry, turn : 0..MaxPrompts,
                caller : {"none", "reply", "repair", "recovery"}]
  BY DEF CallShape, Idle, TurnSteps, ReplySteps, FinalSteps
<1>3. call' = [pc |-> pc, of |-> e.of, entry |-> e, turn |-> turn,
               caller |-> caller]
  BY <1>2
<1> QED
  BY <1>1, <1>3, TurnCallIsShaped

LEMMA CallKept ==
  ASSUME TypeInv, [Next]_vars
  PROVE  CallShape'
<1>0. StoreShapes /\ ServerShapes /\ CounterShapes /\ CallShape /\ JournalShape
  BY DEF TypeInv
<1>1. CASE \E d \in Dialogues : StartIntent(d)
  <2>0. PICK d \in Dialogues : StartIntent(d)
    BY <1>1
  <2> DEFINE e == ThreadEntry(d, "intent")
  <2>1. e \in Entry /\ e.of = d /\ e = ThreadEntry(e.of, "intent")
    BY ThreadEntryIsEntry
  <2>2. call' = [pc |-> "starting", of |-> e.of, entry |-> e, turn |-> 0,
                 caller |-> "none"]
    BY <2>0, <2>1 DEF StartIntent, Idle
  <2>3. 0 \in 0..MaxPrompts
    BY DialogueAssumption
  <2>4. /\ "starting" \in StartSteps \cup TurnSteps \cup RecoverySteps
        /\ "starting" \notin TurnSteps /\ "starting" \notin RecoverySteps
        /\ "starting" \notin {"ran"} \cup FinalSteps
    BY DEF StartSteps, TurnSteps, ReplySteps, FinalSteps, RecoverySteps
  <2> HIDE DEF e
  <2> QED
    BY <2>1, <2>2, <2>3, <2>4, CallIsShaped
<1>2. CASE StartThread
  <2>1. CallShape /\ call.pc # "idle" /\ call.pc = "starting"
    BY <1>0, <1>2 DEF StartThread, At
  <2> QED
    BY <1>2, <2>1
       DEF StartThread, GoTo, CallShape, Idle, StartSteps, ReplySteps,
           FinalSteps, TurnSteps, RecoverySteps
<1>3. CASE \/ StartThreadRaises \/ StartCompletes
           \/ \E d \in Dialogues : ReplyQuarantines(d)
           \/ RepairUnconfirmed \/ ResumeInline \/ ResumeInlineFails
  BY <1>0, <1>3
     DEF StartThreadRaises, StartCompletes, ReplyQuarantines,
         RepairUnconfirmed, ResumeInline, ResumeInlineFails, CallShape, disk
<1>4. CASE StartCreatesHandle
  <2>1. CallShape /\ call.pc # "idle" /\ call.pc = "creating"
    BY <1>0, <1>4 DEF StartCreatesHandle, At
  <2> QED
    BY <1>4, <2>1
       DEF StartCreatesHandle, GoTo, CallShape, Idle, StartSteps, ReplySteps,
           FinalSteps, TurnSteps, RecoverySteps
<1>5. CASE \E d \in Dialogues : ReplyIntent(d)
  <2>0. PICK d \in Dialogues : ReplyIntent(d)
    BY <1>5
  <2> DEFINE e == [op |-> "turn_dispatch", of |-> d, runtime |-> runtime',
                   seq |-> NextSequence(d), size |-> prompts', phase |-> "intent"]
  <2>1. e \in Entry /\ OpenTurn(e)
    <3>1. prompts' \in Prompts
      BY <1>0, <2>0, DialogueAssumption DEF ReplyIntent, CounterShapes, Prompts
    <3>2. NextSequence(d) \in Prompts
      BY <1>0, <2>0, DialogueAssumption
         DEF ReplyIntent, NextSequence, Prompts, StoreShapes
    <3>3. runtime' \in Runtimes \cup {0}
      BY <1>0, RuntimeRange, CountersKept
    <3> QED
      BY <3>1, <3>2, <3>3 DEF Entry, OpenTurn, Prompts
  <2>2. call' = [pc |-> "running", of |-> d, entry |-> e, turn |-> 0, caller |-> "none"]
    BY <2>0 DEF ReplyIntent, Idle
  <2>3. e.of = d
    OBVIOUS
  <2> HIDE DEF e
  <2> QED
    BY <2>1, <2>2, <2>3, DialogueAssumption
       DEF CallShape, StartSteps, ReplySteps, FinalSteps, TurnSteps,
           RecoverySteps
<1>6. CASE RunTurn
  <2>1. CallShape /\ call.pc = "running" /\ call.pc \in TurnSteps
    BY <1>0, <1>6 DEF RunTurn, At, TurnSteps, ReplySteps
  <2>2. /\ call.of \in Dialogues /\ call.entry \in Entry
        /\ OpenTurn(call.entry) /\ call.entry.of = call.of
        /\ call.caller \in {"none", "reply", "repair", "recovery"}
        /\ call = [call EXCEPT !.entry = call.entry, !.caller = call.caller]
    BY <2>1, TurnFields
  <2>3. call' = [call EXCEPT !.pc = "ran", !.entry = call.entry,
                             !.turn = call.entry.size, !.caller = call.caller]
    BY <1>6, <2>2 DEF RunTurn
  <2> QED
    BY <2>1, <2>2, <2>3, TurnMoves DEF TurnSteps, ReplySteps, OpenTurn
<1>7. CASE RunTurnRaises
  <2>1. CallShape /\ call.pc # "idle" /\ call.pc = "running"
    BY <1>0, <1>7 DEF RunTurnRaises, At
  <2> QED
    BY <1>7, <2>1
       DEF RunTurnRaises, GoTo, CallShape, Idle, StartSteps, ReplySteps,
           FinalSteps, TurnSteps, RecoverySteps
<1>8. CASE WriteDispatched
  <2>1. CallShape /\ call.pc = "ran" /\ call.pc \in TurnSteps
    BY <1>0, <1>8 DEF WriteDispatched, At, TurnSteps, ReplySteps
  <2>2. /\ call.of \in Dialogues /\ call.entry \in Entry
        /\ OpenTurn(call.entry) /\ call.entry.of = call.of
        /\ call.caller \in {"none", "reply", "repair", "recovery"}
        /\ call = [call EXCEPT !.entry = call.entry, !.caller = call.caller]
    BY <2>1, TurnFields
  <2> DEFINE e == [call.entry EXCEPT !.phase = "dispatched"]
  <2>3. e \in Entry /\ OpenTurn(e) /\ e.of = call.of
    BY <2>2 DEF Entry, OpenTurn
  <2>4. call.turn \in Prompts /\ call = [call EXCEPT !.turn = call.turn]
    BY <2>1, TurnFields, CallIs
  <2>5. call' = [call EXCEPT !.pc = "storing", !.entry = e, !.turn = call.turn,
                             !.caller = "reply"]
    BY <1>8, <2>4 DEF WriteDispatched
  <2> HIDE DEF e
  <2> QED
    BY <2>1, <2>3, <2>4, <2>5, TurnMoves DEF TurnSteps, FinalSteps
<1>9. CASE RepairConfirmed
  <2>1. CallShape /\ call.pc = "repairing" /\ call.pc \in TurnSteps
    BY <1>0, <1>9 DEF RepairConfirmed, At, TurnSteps, ReplySteps
  <2>2. /\ call.of \in Dialogues /\ call.entry \in Entry
        /\ OpenTurn(call.entry) /\ call.entry.of = call.of
        /\ call.caller \in {"none", "reply", "repair", "recovery"}
        /\ call = [call EXCEPT !.entry = call.entry, !.caller = call.caller]
    BY <2>1, TurnFields
  <2>3. thread[call.of] \in Seq(Prompts) /\ Len(thread[call.of]) >= call.entry.seq
    BY <1>0, <2>2, <1>9 DEF RepairConfirmed, Confirmed, StoreShapes
  <2> DEFINE turn == thread[call.of][call.entry.seq]
  <2>6. call.entry.seq \in 1..Len(thread[call.of])
    BY <2>2, <2>3, DialogueAssumption DEF Prompts, OpenTurn
  <2>4. turn \in Prompts
    BY <2>3, <2>6
  <2>5. call' = [call EXCEPT !.pc = "storing", !.entry = call.entry,
                             !.turn = turn, !.caller = "repair"]
    BY <1>9, <2>2 DEF RepairConfirmed
  <2> HIDE DEF turn
  <2> QED
    BY <2>1, <2>2, <2>4, <2>5, TurnMoves DEF TurnSteps, FinalSteps
<1>10. CASE FinalizeStores
  <2>1. CallShape /\ call.pc # "idle" /\ call.pc = "storing"
    BY <1>0, <1>10 DEF FinalizeStores, At
  <2> QED
    BY <1>10, <2>1
       DEF FinalizeStores, GoTo, CallShape, Idle, StartSteps, ReplySteps,
           FinalSteps, TurnSteps, RecoverySteps
<1>11. CASE FinalizeAudits
  <2>1. CallShape /\ call.pc # "idle" /\ call.pc = "auditing"
    BY <1>0, <1>11 DEF FinalizeAudits, At
  <2> QED
    BY <1>11, <2>1
       DEF FinalizeAudits, GoTo, CallShape, Idle, StartSteps, ReplySteps,
           FinalSteps, TurnSteps, RecoverySteps
<1>12. CASE FinalizeReports
  <2>1. CallShape /\ call.pc # "idle" /\ call.pc = "reporting"
    BY <1>0, <1>12 DEF FinalizeReports, At
  <2> QED
    BY <1>12, <2>1
       DEF FinalizeReports, GoTo, CallShape, Idle, StartSteps, ReplySteps,
           FinalSteps, TurnSteps, RecoverySteps
<1>13. CASE FinalizeCompletes
  <2>1. CallShape /\ call.pc = "closing" /\ call.pc # "idle"
    BY <1>0, <1>13 DEF FinalizeCompletes, At
  <2>2. CASE GoTo("resuming")
    BY <2>1, <2>2
       DEF GoTo, CallShape, Idle, StartSteps, ReplySteps, FinalSteps,
           TurnSteps, RecoverySteps
  <2> QED
    BY <1>13, <2>2 DEF FinalizeCompletes, NextEntry, CallShape
<1>14. CASE \/ FinalizeRaises \/ BeginRecovery
            \/ \E i \in todo : RecoverThreadIntent(i)
            \/ \E i \in todo : RecoveryRaises(i)
            \/ \E i \in todo : RecoverTurnUnconfirmed(i)
            \/ RecoverThreadCompletes
  BY <1>0, <1>14
     DEF FinalizeRaises, BeginRecovery, RecoverThreadIntent, RecoveryRaises,
         RecoverTurnUnconfirmed, RecoverThreadCompletes, CallShape, Abandon,
         NextEntry, disk
<1>15. CASE \E i \in todo : RecoverThread(i)
  <2>0. PICK i \in todo : RecoverThread(i)
    BY <1>15
  <2>1. journal[i] \in Entry /\ journal[i].phase # "completed" /\ i \in DOMAIN journal
    BY <1>0 DEF StoreShapes, ServerShapes, Unresolved
  <2>2. journal[i].of \in Dialogues
    BY <2>1 DEF Entry
  <2>3. journal[i].op = "thread_creation"
    BY <2>0 DEF RecoverThread, Reconciling
  <2>4. call' = [pc |-> "binding", of |-> journal[i].of, entry |-> journal[i],
                 turn |-> 0, caller |-> "none"]
    BY <2>0 DEF RecoverThread, Idle
  <2> QED
    BY <2>1, <2>2, <2>3, <2>4, DialogueAssumption
       DEF CallShape, StartSteps, ReplySteps, FinalSteps, TurnSteps,
           RecoverySteps
<1>16. CASE \E i \in todo : RecoverTurnConfirmed(i)
  <2>0. PICK i \in todo : RecoverTurnConfirmed(i)
    BY <1>16
  <2>1. journal[i] \in Entry /\ journal[i].phase # "completed" /\ i \in DOMAIN journal
    BY <1>0 DEF StoreShapes, ServerShapes, Unresolved
  <2>2. journal[i].of \in Dialogues
    BY <2>1 DEF Entry
  <2>3. OpenTurn(journal[i])
    BY <1>0, <2>0, <2>1 DEF RecoverTurnConfirmed, Reconciling, JournalShape
  <2>4. /\ thread[journal[i].of] \in Seq(Prompts)
        /\ Len(thread[journal[i].of]) >= journal[i].seq
    BY <1>0, <2>0, <2>2 DEF RecoverTurnConfirmed, Confirmed, StoreShapes
  <2>5. thread[journal[i].of][journal[i].seq] \in Prompts
    BY <2>3, <2>4, DialogueAssumption DEF Prompts, OpenTurn
  <2>6. thread[journal[i].of][journal[i].seq] \in 0..MaxPrompts
    BY <2>5, DialogueAssumption DEF Prompts
  <2>7. call' = [pc |-> "storing", of |-> journal[i].of, entry |-> journal[i],
                 turn |-> thread[journal[i].of][journal[i].seq], caller |-> "recovery"]
    BY <2>0 DEF RecoverTurnConfirmed, Idle
  <2> QED
    BY <2>1, <2>2, <2>3, <2>5, <2>6, <2>7
       DEF CallShape, StartSteps, ReplySteps, FinalSteps, TurnSteps,
           RecoverySteps
<1>17. CASE RecoverHandle
  <2>1. CallShape /\ call.pc # "idle" /\ call.pc = "binding"
    BY <1>0, <1>17 DEF RecoverHandle, At
  <2> QED
    BY <1>17, <2>1
       DEF RecoverHandle, GoTo, CallShape, Idle, StartSteps, ReplySteps,
           FinalSteps, TurnSteps, RecoverySteps
<1>18. CASE \/ BeginReattach
            \/ \E d \in Dialogues : Reattach(d)
            \/ \E d \in Dialogues : ReattachFails(d)
            \/ EndRecovery \/ WriteRaises \/ OtherCall
  BY <1>0, <1>18
     DEF BeginReattach, Reattach, ReattachFails, EndRecovery, WriteRaises,
         OtherCall, CallShape, Abandon, disk
<1>19. CASE ServerEnds
  BY <1>0, <1>19 DEF ServerEnds, CallShape, Abandon
<1>20. CASE UNCHANGED vars
  BY <1>0, <1>20 DEF vars, CallShape, disk, memory
<1> QED
  BY <1>1, <1>2, <1>3, <1>4, <1>5, <1>6, <1>7, <1>8, <1>9, <1>10, <1>11,
     <1>12, <1>13, <1>14, <1>15, <1>16, <1>17, <1>18, <1>19, <1>20
     DEF Next, Start, Reply, Finalize, Recover

LEMMA CompleteEffect ==
  ASSUME journal \in Seq(Entry), NEW e \in Entry, Complete(e)
  PROVE  /\ DOMAIN journal \subseteq DOMAIN journal'
         /\ \A k \in DOMAIN journal : ~ SameKey(journal[k], e) => journal'[k] = journal[k]
         /\ \A k \in DOMAIN journal : SameKey(journal[k], e) => journal'[k].phase = "completed"
         /\ \A k \in DOMAIN journal' :
               \/ journal'[k].phase = "completed" /\ SameKey(journal'[k], e)
               \/ k \in DOMAIN journal /\ journal'[k] = journal[k]
<1> DEFINE c == [e EXCEPT !.phase = "completed", !.size = 0]
<1>1. c \in Entry /\ c.phase = "completed" /\ SameKey(c, e)
  BY CompletedIsEntry
<1>2. WritePhase(c)
  BY DEF Complete
<1>3. \A k \in DOMAIN journal : SameKey(journal[k], e) <=> SameKey(journal[k], c)
  BY <1>1 DEF SameKey
<1> HIDE DEF c
<1> QED
  BY <1>1, <1>2, <1>3, WriteEffect

LEMMA ServerKept ==
  ASSUME TypeInv, [Next]_vars
  PROVE  ServerShapes'
<1>0. /\ StoreShapes /\ ServerShapes /\ CallShape /\ CallIsServed /\ JournalShape
      /\ DOMAIN journal \subseteq Nat
  BY DEF TypeInv, StoreShapes
<1>1. CASE \E d \in Dialogues : StartIntent(d)
  <2>0. PICK d \in Dialogues : StartIntent(d)
    BY <1>1
  <2>1. todo = {} /\ todo' = {} /\ server' = server /\ reattach' = reattach
    BY <1>0, <2>0
       DEF StartIntent, ServerShapes, CallIsServed, Serving, At, StartSteps,
           ReplySteps
  <2> QED
    BY <1>0, <2>1 DEF ServerShapes
<1>2. CASE StartThread
  <2>1. todo = {} /\ todo' = {} /\ server' = server /\ reattach' = reattach
    BY <1>0, <1>2
       DEF StartThread, ServerShapes, CallIsServed, At, StartSteps, ReplySteps
  <2> QED
    BY <1>0, <2>1 DEF ServerShapes
<1>3. CASE StartThreadRaises
  BY <1>0, <1>3 DEF StartThreadRaises, ServerShapes, Unresolved, At, Idle, disk
<1>4. CASE StartCreatesHandle
  BY <1>0, <1>4 DEF StartCreatesHandle, ServerShapes, Unresolved, GoTo, At
<1>5. CASE StartCompletes
  <2>1. todo = {} /\ todo' = {} /\ server' = server /\ reattach' = reattach
    BY <1>0, <1>5
       DEF StartCompletes, ServerShapes, CallIsServed, At, StartSteps,
           ReplySteps
  <2> QED
    BY <1>0, <2>1 DEF ServerShapes
<1>6. CASE \E d \in Dialogues : ReplyIntent(d)
  <2>0. PICK d \in Dialogues : ReplyIntent(d)
    BY <1>6
  <2>1. todo = {} /\ todo' = {} /\ server' = server /\ reattach' = reattach
    BY <1>0, <2>0
       DEF ReplyIntent, ServerShapes, CallIsServed, Serving, At, StartSteps,
           ReplySteps
  <2> QED
    BY <1>0, <2>1 DEF ServerShapes
<1>7. CASE \E d \in Dialogues : ReplyQuarantines(d)
  BY <1>0, <1>7 DEF ReplyQuarantines, ServerShapes, Unresolved, At, Serving
<1>8. CASE RunTurn
  BY <1>0, <1>8 DEF RunTurn, ServerShapes, Unresolved, At, disk
<1>9. CASE RunTurnRaises
  BY <1>0, <1>9 DEF RunTurnRaises, ServerShapes, Unresolved, GoTo, At, disk
<1>10. CASE WriteDispatched
  <2>1. todo = {} /\ todo' = {} /\ server' = server /\ reattach' = reattach
    BY <1>0, <1>10
       DEF WriteDispatched, ServerShapes, CallIsServed, At, StartSteps,
           ReplySteps
  <2> QED
    BY <1>0, <2>1 DEF ServerShapes
<1>11. CASE RepairUnconfirmed
  BY <1>0, <1>11 DEF RepairUnconfirmed, ServerShapes, Unresolved, At, Idle
<1>12. CASE RepairConfirmed
  BY <1>0, <1>12 DEF RepairConfirmed, ServerShapes, Unresolved, At, disk
<1>13. CASE ResumeInline
  BY <1>0, <1>13 DEF ResumeInline, ServerShapes, Unresolved, At, Idle
<1>14. CASE ResumeInlineFails
  BY <1>0, <1>14 DEF ResumeInlineFails, ServerShapes, Unresolved, At, Idle
<1>15. CASE FinalizeStores
  BY <1>0, <1>15 DEF FinalizeStores, ServerShapes, Unresolved, GoTo, At
<1>16. CASE FinalizeAudits
  BY <1>0, <1>16 DEF FinalizeAudits, ServerShapes, Unresolved, GoTo, At
<1>17. CASE FinalizeReports
  BY <1>0, <1>17 DEF FinalizeReports, ServerShapes, Unresolved, GoTo, At
<1>18. CASE FinalizeCompletes
  <2>1. CASE call.caller # "recovery"
    <3>1. server = "ready"
      BY <1>0, <2>1, <1>18 DEF FinalizeCompletes, At, CallIsServed, FinalSteps
    <3>2. todo = {} /\ todo' = {} /\ server' = server /\ reattach' = reattach
      BY <1>0, <2>1, <3>1, <1>18 DEF FinalizeCompletes, ServerShapes
    <3> QED
      BY <1>0, <3>2 DEF ServerShapes
  <2>2. CASE call.caller = "recovery"
    <3>9. server = "reconciling"
      BY <1>0, <2>2, <1>18 DEF FinalizeCompletes, At, CallIsServed, FinalSteps
    <3>1. PICK i \in todo \ Rest : journal[i] = call.entry
      BY <1>0, <2>2, <3>9, <1>18
         DEF FinalizeCompletes, At, CallIsServed, RecoverySteps, FinalSteps
    <3>2. \A k \in Rest : k \in todo /\ k # i
      BY <3>1, RestIs, <1>0 DEF ServerShapes, Unresolved
    <3>3. call.entry \in Entry
      BY <1>0, <1>18, CallIs DEF FinalizeCompletes, At
    <3>4. \A k \in Rest : k \in DOMAIN journal' /\ journal'[k] = journal[k]
      BY <1>0, <3>1, <3>2, <3>3, <1>18, CompleteEffect
         DEF FinalizeCompletes, StoreShapes, ServerShapes, Unresolved, JournalShape
    <3>5. todo' = Rest /\ server' = server /\ reattach' \subseteq Dialogues
      BY <1>0, <2>2, <3>9, <1>18 DEF FinalizeCompletes, NextEntry, ServerShapes
    <3> QED
      BY <1>0, <3>2, <3>4, <3>5, <3>9 DEF ServerShapes, Unresolved
  <2> QED
    BY <2>1, <2>2
<1>19. CASE FinalizeRaises
  <2>1. todo' \in {todo, Rest} /\ server' = server /\ reattach' = reattach /\ journal' = journal
    BY <1>19 DEF FinalizeRaises, NextEntry
  <2>2. todo' \subseteq todo
    BY <2>1 DEF Rest
  <2> QED
    BY <1>0, <2>1, <2>2 DEF ServerShapes, Unresolved
<1>20. CASE BeginRecovery
  BY <1>0, <1>20 DEF BeginRecovery, ServerShapes, Unresolved, disk
<1>21. CASE \E i \in todo : RecoverThreadIntent(i)
  <2>0. PICK i \in todo : RecoverThreadIntent(i)
    BY <1>21
  <2>1. journal[i] \in Entry /\ i \in todo \ Rest
    BY <1>0, <2>0
       DEF RecoverThreadIntent, Reconciling, StoreShapes, ServerShapes,
           Unresolved
  <2>2. \A k \in Rest : k \in todo /\ k # i
    BY <2>1, RestIs, <1>0 DEF ServerShapes, Unresolved
  <2>4. \A k \in Rest : k \in DOMAIN journal' /\ journal'[k] = journal[k]
    BY <1>0, <2>1, <2>2, <2>0, CompleteEffect
       DEF RecoverThreadIntent, StoreShapes, ServerShapes, Unresolved, JournalShape
  <2>5. todo' = Rest /\ server' = server /\ server = "reconciling" /\ reattach' = reattach
    BY <1>0, <2>0 DEF RecoverThreadIntent, Reconciling
  <2> QED
    BY <1>0, <2>2, <2>4, <2>5 DEF ServerShapes, Unresolved
<1>22. CASE \E i \in todo : RecoverThread(i)
  BY <1>0, <1>22 DEF RecoverThread, ServerShapes, Unresolved, Idle, disk
<1>23. CASE \E i \in todo : RecoveryRaises(i)
  BY <1>0, <1>23
     DEF RecoveryRaises, ServerShapes, Unresolved, Abandon, Idle, disk
<1>24. CASE \E i \in todo : RecoverTurnUnconfirmed(i)
  <2>0. PICK i \in todo : RecoverTurnUnconfirmed(i)
    BY <1>24
  <2>1. todo' \in {todo, Rest} /\ server' = server /\ reattach' = reattach /\ journal' = journal
    BY <2>0 DEF RecoverTurnUnconfirmed
  <2>2. todo' \subseteq todo
    BY <2>1 DEF Rest
  <2> QED
    BY <1>0, <2>1, <2>2 DEF ServerShapes, Unresolved
<1>25. CASE \E i \in todo : RecoverTurnConfirmed(i)
  BY <1>0, <1>25 DEF RecoverTurnConfirmed, ServerShapes, Unresolved, Idle, disk
<1>26. CASE RecoverHandle
  BY <1>0, <1>26 DEF RecoverHandle, ServerShapes, Unresolved, GoTo, At
<1>27. CASE RecoverThreadCompletes
  <2>9. server = "reconciling"
    BY <1>0, <1>27 DEF RecoverThreadCompletes, At, CallIsServed, RecoverySteps
  <2>1. PICK i \in todo \ Rest : journal[i] = call.entry
    BY <1>0, <2>9, <1>27
       DEF RecoverThreadCompletes, At, CallIsServed, RecoverySteps, FinalSteps
  <2>2. \A k \in Rest : k \in todo /\ k # i
    BY <2>1, RestIs, <1>0 DEF ServerShapes, Unresolved
  <2>3. call.entry \in Entry
    BY <1>0, <1>27, CallIs DEF RecoverThreadCompletes, At
  <2>4. \A k \in Rest : k \in DOMAIN journal' /\ journal'[k] = journal[k]
    BY <1>0, <2>1, <2>2, <2>3, <1>27, CompleteEffect
       DEF RecoverThreadCompletes, StoreShapes, ServerShapes, Unresolved, JournalShape
  <2>5. todo' = Rest /\ server' = server /\ reattach' \subseteq Dialogues
    BY <1>0, <2>9, <1>27 DEF RecoverThreadCompletes, NextEntry, ServerShapes
  <2> QED
    BY <1>0, <2>2, <2>4, <2>5, <2>9 DEF ServerShapes, Unresolved
<1>28. CASE BeginReattach
  BY <1>0, <1>28 DEF BeginReattach, ServerShapes, Unresolved, At, disk
<1>29. CASE \E d \in Dialogues : Reattach(d)
  BY <1>0, <1>29 DEF Reattach, ServerShapes, Unresolved
<1>30. CASE \E d \in Dialogues : ReattachFails(d)
  BY <1>0, <1>30 DEF ReattachFails, ServerShapes, Unresolved
<1>31. CASE EndRecovery
  BY <1>0, <1>31 DEF EndRecovery, ServerShapes, Unresolved, disk
<1>32. CASE WriteRaises
  BY <1>0, <1>32
     DEF WriteRaises, ServerShapes, Unresolved, Abandon, At, Idle, disk
<1>33. CASE OtherCall
  BY <1>0, <1>33 DEF OtherCall, ServerShapes, Unresolved, At, Serving, disk
<1>34. CASE ServerEnds
  BY <1>0, <1>34 DEF ServerEnds, ServerShapes, Unresolved, Abandon, Idle
<1>35. CASE UNCHANGED vars
  BY <1>0, <1>35 DEF vars, ServerShapes, Unresolved, disk, memory
<1> QED
  BY <1>1, <1>2, <1>3, <1>4, <1>5, <1>6, <1>7, <1>8, <1>9, <1>10, <1>11,
     <1>12, <1>13, <1>14, <1>15, <1>16, <1>17, <1>18, <1>19, <1>20, <1>21,
     <1>22, <1>23, <1>24, <1>25, <1>26, <1>27, <1>28, <1>29, <1>30, <1>31,
     <1>32, <1>33, <1>34, <1>35
     DEF Next, Start, Reply, Finalize, Recover

(* An idle server, or one that is cold or reattaching, has nothing in hand. *)
LEMMA IdleIsServed ==
  ASSUME call' = Idle
  PROVE  CallIsServed'
  BY DEF CallIsServed, Idle, At, StartSteps, ReplySteps, FinalSteps,
     RecoverySteps

LEMMA SameIsServed ==
  ASSUME CallIsServed, UNCHANGED <<call, server, todo, journal>>
  PROVE  CallIsServed'
  BY DEF CallIsServed, At, Rest

LEMMA StillIdle ==
  ASSUME CallIsServed, call.pc = "idle", call' = call
  PROVE  CallIsServed'
  BY DEF CallIsServed, At, StartSteps, ReplySteps, FinalSteps, RecoverySteps

LEMMA ReadyIsServed ==
  ASSUME server' = "ready", call'.pc \notin RecoverySteps,
         call'.pc \in FinalSteps => call'.caller # "recovery"
  PROVE  CallIsServed'
  BY DEF CallIsServed

(* The recovery goes on with the entry it has in hand.                     *)
LEMMA RecoveryIsServed ==
  ASSUME CallIsServed, call.pc # "idle", server = "reconciling",
         UNCHANGED <<server, todo, journal>>, call'.entry = call.entry,
         call'.pc \notin StartSteps \cup ReplySteps,
         call'.pc \in FinalSteps => call'.caller = "recovery"
  PROVE  CallIsServed'
  BY DEF CallIsServed, At, Rest

LEMMA ServedKept ==
  ASSUME TypeInv, [Next]_vars
  PROVE  CallIsServed'
<1>0. StoreShapes /\ ServerShapes /\ CallShape /\ CallIsServed
  BY DEF TypeInv
<1>1. CASE \E d \in Dialogues : StartIntent(d)
  <2>0. PICK d \in Dialogues : StartIntent(d)
    BY <1>1
  <2>1. server = "ready" /\ server' = server
    BY <1>0, <2>0
       DEF StartIntent, Serving, At, CallIsServed, StartSteps, ReplySteps,
           FinalSteps, RecoverySteps
  <2>2. /\ call'.pc \notin RecoverySteps
        /\ call'.pc \in FinalSteps => call'.caller # "recovery"
    BY <1>0, <2>0
       DEF StartIntent, Idle, CallShape, StartSteps, ReplySteps, FinalSteps,
           TurnSteps, RecoverySteps
  <2> QED
    BY <2>1, <2>2, ReadyIsServed
<1>2. CASE StartThread
  <2>1. server = "ready" /\ server' = server
    BY <1>0, <1>2
       DEF StartThread, At, CallIsServed, StartSteps, ReplySteps, FinalSteps,
           RecoverySteps
  <2>2. /\ call'.pc \notin RecoverySteps
        /\ call'.pc \in FinalSteps => call'.caller # "recovery"
    BY <1>0, <1>2
       DEF StartThread, GoTo, Idle, CallShape, StartSteps, ReplySteps,
           FinalSteps, TurnSteps, RecoverySteps
  <2> QED
    BY <2>1, <2>2, ReadyIsServed
<1>3. CASE \/ StartThreadRaises \/ StartCompletes \/ RepairUnconfirmed
           \/ ResumeInline \/ ResumeInlineFails
           \/ \E i \in todo : RecoveryRaises(i)
  BY <1>3, IdleIsServed
     DEF StartThreadRaises, StartCompletes, RepairUnconfirmed, ResumeInline,
         ResumeInlineFails, RecoveryRaises, Abandon
<1>4. CASE StartCreatesHandle
  <2>1. server = "ready" /\ server' = server
    BY <1>0, <1>4
       DEF StartCreatesHandle, At, CallIsServed, StartSteps, ReplySteps,
           FinalSteps, RecoverySteps
  <2>2. /\ call'.pc \notin RecoverySteps
        /\ call'.pc \in FinalSteps => call'.caller # "recovery"
    BY <1>0, <1>4
       DEF StartCreatesHandle, GoTo, Idle, CallShape, StartSteps, ReplySteps,
           FinalSteps, TurnSteps, RecoverySteps
  <2> QED
    BY <2>1, <2>2, ReadyIsServed
<1>5. CASE \E d \in Dialogues : ReplyIntent(d)
  <2>0. PICK d \in Dialogues : ReplyIntent(d)
    BY <1>5
  <2>1. server = "ready" /\ server' = server
    BY <1>0, <2>0
       DEF ReplyIntent, Serving, At, CallIsServed, StartSteps, ReplySteps,
           FinalSteps, RecoverySteps
  <2>2. /\ call'.pc \notin RecoverySteps
        /\ call'.pc \in FinalSteps => call'.caller # "recovery"
    BY <1>0, <2>0
       DEF ReplyIntent, Idle, CallShape, StartSteps, ReplySteps, FinalSteps,
           TurnSteps, RecoverySteps
  <2> QED
    BY <2>1, <2>2, ReadyIsServed
<1>6. CASE \/ \E d \in Dialogues : ReplyQuarantines(d)
           \/ \E i \in todo : RecoverThreadIntent(i)
           \/ \E i \in todo : RecoverTurnUnconfirmed(i)
           \/ BeginReattach \/ OtherCall
  BY <1>0, <1>6, StillIdle
     DEF ReplyQuarantines, RecoverThreadIntent, RecoverTurnUnconfirmed,
         BeginReattach, OtherCall, Serving, At, Reconciling
<1>7. CASE RunTurn
  <2>1. server = "ready" /\ server' = server
    BY <1>0, <1>7
       DEF RunTurn, At, CallIsServed, StartSteps, ReplySteps, FinalSteps,
           RecoverySteps
  <2>2. /\ call'.pc \notin RecoverySteps
        /\ call'.pc \in FinalSteps => call'.caller # "recovery"
    BY <1>0, <1>7
       DEF RunTurn, Idle, CallShape, StartSteps, ReplySteps, FinalSteps,
           TurnSteps, RecoverySteps
  <2> QED
    BY <2>1, <2>2, ReadyIsServed
<1>8. CASE RunTurnRaises
  <2>1. server = "ready" /\ server' = server
    BY <1>0, <1>8
       DEF RunTurnRaises, At, CallIsServed, StartSteps, ReplySteps,
           FinalSteps, RecoverySteps
  <2>2. /\ call'.pc \notin RecoverySteps
        /\ call'.pc \in FinalSteps => call'.caller # "recovery"
    BY <1>0, <1>8
       DEF RunTurnRaises, GoTo, Idle, CallShape, StartSteps, ReplySteps,
           FinalSteps, TurnSteps, RecoverySteps
  <2> QED
    BY <2>1, <2>2, ReadyIsServed
<1>9. CASE WriteDispatched
  <2>1. server = "ready" /\ server' = server
    BY <1>0, <1>9
       DEF WriteDispatched, At, CallIsServed, StartSteps, ReplySteps,
           FinalSteps, RecoverySteps
  <2>2. /\ call'.pc \notin RecoverySteps
        /\ call'.pc \in FinalSteps => call'.caller # "recovery"
    BY <1>0, <1>9
       DEF WriteDispatched, Idle, CallShape, StartSteps, ReplySteps,
           FinalSteps, TurnSteps, RecoverySteps
  <2> QED
    BY <2>1, <2>2, ReadyIsServed
<1>10. CASE RepairConfirmed
  <2>1. server = "ready" /\ server' = server
    BY <1>0, <1>10
       DEF RepairConfirmed, At, CallIsServed, StartSteps, ReplySteps,
           FinalSteps, RecoverySteps
  <2>2. /\ call'.pc \notin RecoverySteps
        /\ call'.pc \in FinalSteps => call'.caller # "recovery"
    BY <1>0, <1>10
       DEF RepairConfirmed, Idle, CallShape, StartSteps, ReplySteps,
           FinalSteps, TurnSteps, RecoverySteps
  <2> QED
    BY <2>1, <2>2, ReadyIsServed
<1>11. CASE FinalizeStores
  <2>1. call.pc \in FinalSteps /\ call.pc # "idle" /\ call.pc \in TurnSteps
    BY <1>11 DEF FinalizeStores, At, FinalSteps, TurnSteps
  <2>2. /\ call'.entry = call.entry /\ call'.caller = call.caller
        /\ call'.pc \in FinalSteps
        /\ UNCHANGED <<server, todo, journal>>
    BY <1>0, <2>1, <1>11 DEF FinalizeStores, GoTo, CallShape, Idle, FinalSteps
  <2>3. call'.pc \notin RecoverySteps /\ call'.pc \notin StartSteps \cup ReplySteps
    BY <2>2 DEF StartSteps, ReplySteps, FinalSteps, TurnSteps, RecoverySteps
  <2>4. CASE call.caller = "recovery"
    BY <1>0, <2>1, <2>2, <2>3, <2>4, RecoveryIsServed DEF CallIsServed
  <2>5. CASE call.caller # "recovery"
    BY <1>0, <2>1, <2>2, <2>3, <2>5, ReadyIsServed DEF CallIsServed
  <2> QED
    BY <2>4, <2>5
<1>12. CASE FinalizeAudits
  <2>1. call.pc \in FinalSteps /\ call.pc # "idle" /\ call.pc \in TurnSteps
    BY <1>12 DEF FinalizeAudits, At, FinalSteps, TurnSteps
  <2>2. /\ call'.entry = call.entry /\ call'.caller = call.caller
        /\ call'.pc \in FinalSteps
        /\ UNCHANGED <<server, todo, journal>>
    BY <1>0, <2>1, <1>12 DEF FinalizeAudits, GoTo, CallShape, Idle, FinalSteps
  <2>3. call'.pc \notin RecoverySteps /\ call'.pc \notin StartSteps \cup ReplySteps
    BY <2>2 DEF StartSteps, ReplySteps, FinalSteps, TurnSteps, RecoverySteps
  <2>4. CASE call.caller = "recovery"
    BY <1>0, <2>1, <2>2, <2>3, <2>4, RecoveryIsServed DEF CallIsServed
  <2>5. CASE call.caller # "recovery"
    BY <1>0, <2>1, <2>2, <2>3, <2>5, ReadyIsServed DEF CallIsServed
  <2> QED
    BY <2>4, <2>5
<1>13. CASE FinalizeReports
  <2>1. call.pc \in FinalSteps /\ call.pc # "idle" /\ call.pc \in TurnSteps
    BY <1>13 DEF FinalizeReports, At, FinalSteps, TurnSteps
  <2>2. /\ call'.entry = call.entry /\ call'.caller = call.caller
        /\ call'.pc \in FinalSteps
        /\ UNCHANGED <<server, todo, journal>>
    BY <1>0, <2>1, <1>13 DEF FinalizeReports, GoTo, CallShape, Idle, FinalSteps
  <2>3. call'.pc \notin RecoverySteps /\ call'.pc \notin StartSteps \cup ReplySteps
    BY <2>2 DEF StartSteps, ReplySteps, FinalSteps, TurnSteps, RecoverySteps
  <2>4. CASE call.caller = "recovery"
    BY <1>0, <2>1, <2>2, <2>3, <2>4, RecoveryIsServed DEF CallIsServed
  <2>5. CASE call.caller # "recovery"
    BY <1>0, <2>1, <2>2, <2>3, <2>5, ReadyIsServed DEF CallIsServed
  <2> QED
    BY <2>4, <2>5
<1>14. CASE FinalizeCompletes
  <2>1. CASE call' = Idle
    BY <2>1, IdleIsServed
  <2>2. CASE call.caller = "repair" /\ GoTo("resuming")
    <3>1. server = "ready" /\ server' = server
      BY <1>0, <1>14, <2>2 DEF FinalizeCompletes, At, CallIsServed, FinalSteps
    <3>2. call'.pc = "resuming"
      BY <1>0, <1>14, <2>2 DEF FinalizeCompletes, At, GoTo, CallShape, Idle
    <3> QED
      BY <3>1, <3>2, ReadyIsServed DEF FinalSteps, RecoverySteps
  <2> QED
    BY <1>14, <2>1, <2>2 DEF FinalizeCompletes, NextEntry
<1>15. CASE FinalizeRaises
  <2>1. call' = Idle
    BY <1>15 DEF FinalizeRaises, NextEntry
  <2> QED
    BY <2>1, IdleIsServed
<1>16. CASE BeginRecovery
  <2>1. server \in {"cold", "reattaching"} /\ call' = call
    BY <1>16 DEF BeginRecovery
  <2>2. call.pc = "idle"
    BY <1>0, <2>1
       DEF CallShape, CallIsServed, Idle, StartSteps, ReplySteps, FinalSteps,
           TurnSteps, RecoverySteps
  <2> QED
    BY <1>0, <2>1, <2>2, StillIdle
<1>17. CASE \E i \in todo : RecoverThread(i)
  <2>0. PICK i \in todo : RecoverThread(i)
    BY <1>17
  <2>1. /\ i \in todo \ Rest /\ server' = "reconciling"
        /\ UNCHANGED <<todo, journal>>
    BY <2>0 DEF RecoverThread, Reconciling, disk
  <2>2. call'.entry = journal[i] /\ call'.pc = "binding" 
    BY <2>0 DEF RecoverThread, Idle
  <2>3. Rest' = Rest
    BY <2>1 DEF Rest
  <2> QED
    BY <2>1, <2>2, <2>3
       DEF CallIsServed, StartSteps, ReplySteps, FinalSteps, TurnSteps,
           RecoverySteps
<1>18. CASE \E i \in todo : RecoverTurnConfirmed(i)
  <2>0. PICK i \in todo : RecoverTurnConfirmed(i)
    BY <1>18
  <2>1. /\ i \in todo \ Rest /\ server' = "reconciling"
        /\ UNCHANGED <<todo, journal>>
    BY <2>0 DEF RecoverTurnConfirmed, Reconciling, disk
  <2>2. call'.entry = journal[i] /\ call'.pc = "storing" /\ call'.caller = "recovery"
    BY <2>0 DEF RecoverTurnConfirmed, Idle
  <2>3. Rest' = Rest
    BY <2>1 DEF Rest
  <2> QED
    BY <2>1, <2>2, <2>3
       DEF CallIsServed, StartSteps, ReplySteps, FinalSteps, TurnSteps,
           RecoverySteps
<1>19. CASE RecoverHandle
  <2>1. call.pc # "idle" /\ server = "reconciling"
    BY <1>0, <1>19 DEF RecoverHandle, At, CallIsServed, RecoverySteps
  <2>2. /\ call'.entry = call.entry /\ call'.pc = "closing_thread"
        /\ UNCHANGED <<server, todo, journal>>
    BY <1>0, <2>1, <1>19 DEF RecoverHandle, GoTo, CallShape, Idle
  <2>3. call'.pc \notin FinalSteps /\ call'.pc \notin StartSteps \cup ReplySteps
    BY <2>2 DEF StartSteps, ReplySteps, FinalSteps, RecoverySteps
  <2> QED
    BY <1>0, <2>1, <2>2, <2>3, RecoveryIsServed
<1>20. CASE \/ RecoverThreadCompletes \/ ServerEnds
  BY <1>20, IdleIsServed
     DEF RecoverThreadCompletes, ServerEnds, NextEntry, Abandon
<1>21. CASE \E d \in Dialogues : Reattach(d)
  <2>0. PICK d \in Dialogues : Reattach(d)
    BY <1>21
  <2>1. server \in {"cold", "reattaching"} /\ call' = call
    BY <2>0 DEF Reattach
  <2>2. call.pc = "idle"
    BY <1>0, <2>1
       DEF CallShape, CallIsServed, Idle, StartSteps, ReplySteps, FinalSteps,
           TurnSteps, RecoverySteps
  <2> QED
    BY <1>0, <2>1, <2>2, StillIdle
<1>22. CASE \E d \in Dialogues : ReattachFails(d)
  <2>0. PICK d \in Dialogues : ReattachFails(d)
    BY <1>22
  <2>1. server \in {"cold", "reattaching"} /\ call' = call
    BY <2>0 DEF ReattachFails
  <2>2. call.pc = "idle"
    BY <1>0, <2>1
       DEF CallShape, CallIsServed, Idle, StartSteps, ReplySteps, FinalSteps,
           TurnSteps, RecoverySteps
  <2> QED
    BY <1>0, <2>1, <2>2, StillIdle
<1>23. CASE EndRecovery
  <2>1. server \in {"cold", "reattaching"} /\ call' = call
    BY <1>23 DEF EndRecovery
  <2>2. call.pc = "idle"
    BY <1>0, <2>1
       DEF CallShape, CallIsServed, Idle, StartSteps, ReplySteps, FinalSteps,
           TurnSteps, RecoverySteps
  <2> QED
    BY <1>0, <2>1, <2>2, StillIdle
<1>24. CASE WriteRaises
  <2>1. call' = Idle
    BY <1>24 DEF WriteRaises, Abandon
  <2> QED
    BY <2>1, IdleIsServed
<1>25. CASE UNCHANGED vars
  BY <1>0, <1>25, SameIsServed DEF vars, disk, memory
<1> QED
  BY <1>1, <1>2, <1>3, <1>4, <1>5, <1>6, <1>7, <1>8, <1>9, <1>10, <1>11,
     <1>12, <1>13, <1>14, <1>15, <1>16, <1>17, <1>18, <1>19, <1>20, <1>21,
     <1>22, <1>23, <1>24, <1>25
     DEF Next, Start, Reply, Finalize, Recover

LEMMA TypeInvInit == Init => TypeInv
<1> SUFFICES ASSUME Init PROVE TypeInv
  OBVIOUS
<1>1. StoreShapes
  <2>1. <<>> \in Seq(Prompts) /\ <<>> \in Seq(Entry) /\ <<>> \in Seq(Line)
    OBVIOUS
  <2>2. thread \in [Dialogues -> Seq(Prompts)]
    BY <2>1 DEF Init
  <2>3. handle \in [Dialogues -> [status : {"none", "active", "unknown"},
                                  runtime : Runtimes \cup {0}]]
    BY DEF Init
  <2>4. audits \in [Prompts -> {0, 1}] /\ outcomes \in [Prompts -> {0, 1}]
    BY DEF Init
  <2> QED
    BY <2>1, <2>2, <2>3, <2>4 DEF Init, StoreShapes
<1>2. ServerShapes
  BY DEF Init, ServerShapes, Unresolved
<1>3. CounterShapes
  BY DialogueAssumption DEF Init, CounterShapes
<1>4. JournalShape
  BY DEF Init, JournalShape
<1>5. CallShape /\ CallIsServed
  BY DEF Init, CallShape, CallIsServed, Idle, At, StartSteps, ReplySteps,
         FinalSteps, RecoverySteps
<1> QED
  BY <1>1, <1>2, <1>3, <1>4, <1>5 DEF TypeInv

LEMMA TypeInvKept ==
  ASSUME TypeInv, [Next]_vars
  PROVE  TypeInv'
<1>1. JournalShape' /\ CounterShapes'
  BY CountersKept, JournalKept DEF TypeInv
<1> QED
  BY <1>1, StoresKept, ServerKept, CallKept, ServedKept DEF TypeInv

(* The inductive invariant of the types.                                   *)
THEOREM TypeInvariant == Spec => []TypeInv
<1>1. TypeInv /\ [Next]_vars => TypeInv'
  BY TypeInvKept
<1> QED
  BY TypeInvInit, <1>1, PTL DEF Spec

LEMMA TypeInvImplies == TypeInv => TypeOK
<1> SUFFICES ASSUME TypeInv PROVE TypeOK
  OBVIOUS
<1>1. /\ StoreShapes /\ ServerShapes /\ CounterShapes /\ CallShape
  BY DEF TypeInv
<1>2. /\ audits \in [Prompts -> Nat] /\ outcomes \in [Prompts -> Nat]
  <2>1. /\ audits \in [Prompts -> {0, 1}] /\ outcomes \in [Prompts -> {0, 1}]
    BY <1>1 DEF StoreShapes
  <2>2. {0, 1} \subseteq Nat
    OBVIOUS
  <2> QED
    BY <2>1, <2>2
<1>3. runtime \in Runtimes \cup {0} /\ runtimes \in 0..(1 + MaxCrashes + MaxFaults)
  <2>1. runtime \in Runtimes \cup {0}
    BY <1>1, RuntimeBound DEF CounterShapes
  <2>2. runtimes <= 1 + MaxCrashes + MaxFaults
    BY <1>1, DialogueAssumption DEF CounterShapes
  <2> QED
    BY <1>1, <2>1, <2>2, DialogueAssumption DEF CounterShapes
<1>4. /\ call.pc \in {"idle"} \cup StartSteps \cup ReplySteps \cup FinalSteps
                      \cup RecoverySteps
      /\ call.pc # "idle" => call.of \in Dialogues /\ call.entry \in Entry
  BY <1>1 DEF CallShape, Idle, TurnSteps
<1>5. todo \subseteq DOMAIN journal
  BY <1>1 DEF ServerShapes, Unresolved
<1> QED
  BY <1>1, <1>2, <1>3, <1>4, <1>5
     DEF TypeOK, StoreShapes, ServerShapes, CounterShapes

(* Every variable of a server keeps its type, for any dialogues and bounds. *)
THEOREM TypeCorrect == Spec => []TypeOK
  BY TypeInvariant, TypeInvImplies, PTL

----------------------------------------------------------------------------
(* Handles.  The stores of a session outlive the server, unless it returns *)
(* and removes them: what follows excludes that.                           *)

HandleInv ==
    /\ RecoverableEntries
    /\ \A d \in Dialogues : handle[d].status = "none" => thread[d] = <<>>
    /\ \A d \in Dialogues : handle[d].status # "none" => Started(d)
    /\ call.pc \in {"starting", "creating"} =>
          handle[call.of].status = "none" /\ Started(call.of)
    /\ call.pc \in TurnSteps => handle[call.of].status # "none"
    /\ call.pc \in TurnSteps /\ server = "ready" =>
          handle[call.of].status = "active"
    /\ server = "reattaching" =>
          \A d \in reattach : handle[d].status # "none"

(* Who is idle: a server that is cold or reattaches.                       *)
LEMMA IdleServer ==
  ASSUME CallShape, CallIsServed, server \in {"cold", "reattaching"}
  PROVE  call.pc = "idle"
  BY DEF CallShape, CallIsServed, Idle, StartSteps, ReplySteps, FinalSteps,
         TurnSteps, RecoverySteps

(* A remote thread only grows, and only by the turn that is running.       *)
LEMMA ThreadGrows ==
  ASSUME TypeInv, [Next]_vars
  PROVE  /\ thread' = thread \/ (call.pc = "running" /\ TurnCompletes)
         /\ \A d \in Dialogues :
               /\ Len(thread[d]) \in Nat /\ Len(thread'[d]) \in Nat
               /\ DOMAIN thread[d] = 1..Len(thread[d])
               /\ DOMAIN thread'[d] = 1..Len(thread'[d])
               /\ Len(thread[d]) <= Len(thread'[d])
               /\ d # call.of => thread'[d] = thread[d]
               /\ \A s \in DOMAIN thread[d] : thread'[d][s] = thread[d][s]
<1>1. thread' = thread \/ (call.pc = "running" /\ TurnCompletes)
  <2>1. CASE \/ \E d \in Dialogues : StartIntent(d)
             \/ StartThread \/ StartThreadRaises \/ StartCreatesHandle
             \/ StartCompletes
             \/ \E d \in Dialogues : ReplyIntent(d)
    BY <2>1
       DEF StartIntent, StartThread, StartThreadRaises, StartCreatesHandle,
           StartCompletes, ReplyIntent, At, disk, vars
  <2>2. CASE \/ \E d \in Dialogues : ReplyQuarantines(d)
             \/ RunTurn \/ RunTurnRaises \/ WriteDispatched \/ RepairUnconfirmed
             \/ RepairConfirmed
    BY <2>2
       DEF ReplyQuarantines, RunTurn, RunTurnRaises, WriteDispatched,
           RepairUnconfirmed, RepairConfirmed, At, disk, vars
  <2>3. CASE \/ ResumeInline \/ ResumeInlineFails \/ FinalizeStores
             \/ FinalizeAudits \/ FinalizeReports \/ FinalizeCompletes
    BY <2>3
       DEF ResumeInline, ResumeInlineFails, FinalizeStores, FinalizeAudits,
           FinalizeReports, FinalizeCompletes, At, disk, vars
  <2>4. CASE \/ FinalizeRaises \/ BeginRecovery
             \/ \E i \in todo : RecoverThreadIntent(i)
             \/ \E i \in todo : RecoverThread(i)
             \/ \E i \in todo : RecoveryRaises(i)
             \/ \E i \in todo : RecoverTurnUnconfirmed(i)
    BY <2>4
       DEF FinalizeRaises, BeginRecovery, RecoverThreadIntent, RecoverThread,
           RecoveryRaises, RecoverTurnUnconfirmed, disk, vars
  <2>5. CASE \/ \E i \in todo : RecoverTurnConfirmed(i)
             \/ RecoverHandle \/ RecoverThreadCompletes \/ BeginReattach
             \/ \E d \in Dialogues : Reattach(d)
             \/ \E d \in Dialogues : ReattachFails(d)
    BY <2>5
       DEF RecoverTurnConfirmed, RecoverHandle, RecoverThreadCompletes,
           BeginReattach, Reattach, ReattachFails, At, disk, vars
  <2>6. CASE \/ EndRecovery \/ WriteRaises \/ OtherCall \/ ServerEnds
    BY <2>6
       DEF EndRecovery, WriteRaises, OtherCall, ServerEnds, At, Dies, Returns,
           disk, vars
  <2>7. CASE UNCHANGED vars
    BY <2>7 DEF vars, disk
  <2> QED
    BY <2>1, <2>2, <2>3, <2>4, <2>5, <2>6, <2>7
       DEF Next, Start, Reply, Finalize, Recover
<1>2. ASSUME NEW d \in Dialogues
      PROVE  /\ thread[d] \in Seq(Prompts)
             /\ thread'[d] \in Seq(Prompts)
  BY StoresKept DEF TypeInv, StoreShapes
<1>3. CASE thread' = thread
  BY <1>2, <1>3
<1>4. CASE call.pc = "running" /\ TurnCompletes
  <2>1. call.of \in Dialogues /\ call.entry.size \in Prompts
    BY <1>4, CallIs DEF TypeInv, TurnSteps, ReplySteps, OpenTurn
  <2>2. /\ \A d \in Dialogues : d # call.of => thread'[d] = thread[d]
        /\ Len(thread'[call.of]) = Len(thread[call.of]) + 1
        /\ \A s \in DOMAIN thread[call.of] :
              thread'[call.of][s] = thread[call.of][s]
    BY <1>4, <2>1, TurnEffect DEF TypeInv, StoreShapes
  <2>3. ASSUME NEW d \in Dialogues
        PROVE  /\ Len(thread[d]) \in Nat /\ Len(thread'[d]) \in Nat
               /\ DOMAIN thread[d] = 1..Len(thread[d])
               /\ DOMAIN thread'[d] = 1..Len(thread'[d])
    BY <1>2
  <2>4. ASSUME NEW d \in Dialogues
        PROVE  Len(thread[d]) <= Len(thread'[d])
    BY <2>2, <2>3
  <2>5. ASSUME NEW d \in Dialogues, NEW s \in DOMAIN thread[d]
        PROVE  thread'[d][s] = thread[d][s]
    BY <2>2
  <2> QED
    BY <1>4, <2>2, <2>3, <2>4, <2>5
<1> QED
  BY <1>1, <1>3, <1>4

(* Which record a step writes to the journal.                              *)
LEMMA JournalStep ==
  ASSUME TypeInv, [Next]_vars
  PROVE  \/ journal' = journal
         \/ \E e \in Entry :
               /\ WritePhase(e)
               /\ e.op = "turn_dispatch" =>
                     \/ /\ call.pc = "idle" /\ server = "ready"
                        /\ handle[e.of].status = "active"
                        /\ e.phase = "intent" /\ e.seq = NextSequence(e.of)
                     \/ /\ call.pc = "ran" /\ e.phase = "dispatched"
                        /\ e.of = call.of /\ e.seq = call.entry.seq
                        /\ e.size = call.entry.size
                     \/ /\ call.pc = "closing" /\ e.phase = "completed"
                        /\ e.of = call.of /\ e.seq = call.entry.seq
<1>0. StoreShapes /\ ServerShapes /\ CounterShapes /\ CallShape /\ JournalShape
  BY DEF TypeInv
<1>1. CASE \E d \in Dialogues : StartIntent(d)
  <2>0. PICK d \in Dialogues : StartIntent(d)
    BY <1>1
  <2> DEFINE e == ThreadEntry(d, "intent")
  <2>1. e \in Entry
    BY ThreadEntryIsEntry
  <2>2. WritePhase(e)
    BY <2>0 DEF StartIntent
  <2>3. e.op = "thread_creation"
    BY ThreadEntryIsEntry
  <2> HIDE DEF e
  <2> QED
    BY <2>1, <2>2, <2>3
<1>2. CASE StartThread
  <2> DEFINE e == ThreadEntry(call.of, "dispatched")
  <2>0. call.of \in Dialogues
    BY <1>0, <1>2, CallIs DEF StartThread, At
  <2>1. e \in Entry
    BY <2>0, ThreadEntryIsEntry, CompletedIsEntry
  <2>2. WritePhase(e)
    BY <1>2 DEF StartThread
  <2>3. e.op = "thread_creation"
    BY DEF ThreadEntry
  <2> HIDE DEF e
  <2> QED
    BY <2>1, <2>2, <2>3
<1>3. CASE \/ StartThreadRaises \/ StartCreatesHandle
           \/ \E d \in Dialogues : ReplyQuarantines(d)
           \/ RunTurn \/ RunTurnRaises \/ RepairUnconfirmed
  BY <1>3
     DEF StartThreadRaises, StartCreatesHandle, ReplyQuarantines, RunTurn,
         RunTurnRaises, RepairUnconfirmed, disk
<1>4. CASE StartCompletes
  <2> DEFINE e == [ThreadEntry(call.of, "completed") EXCEPT !.phase = "completed", !.size = 0]
  <2>0. call.of \in Dialogues
    BY <1>0, <1>4, CallIs DEF StartCompletes, At
  <2>1. e \in Entry
    BY <2>0, ThreadEntryIsEntry, CompletedIsEntry
  <2>2. WritePhase(e)
    BY <1>4 DEF StartCompletes, Complete
  <2>3. e.op = "thread_creation"
    BY DEF ThreadEntry
  <2> HIDE DEF e
  <2> QED
    BY <2>1, <2>2, <2>3
<1>5. CASE \E d \in Dialogues : ReplyIntent(d)
  <2>0. PICK d \in Dialogues : ReplyIntent(d)
    BY <1>5
  <2> DEFINE e == [op |-> "turn_dispatch", of |-> d, runtime |-> runtime',
                   seq |-> NextSequence(d), size |-> prompts', phase |-> "intent"]
  <2>1. e \in Entry
    <3>1. prompts' \in Prompts
      BY <1>0, <2>0, DialogueAssumption DEF ReplyIntent, CounterShapes, Prompts
    <3>2. NextSequence(d) \in Prompts
      BY <1>0, <2>0, DialogueAssumption
         DEF ReplyIntent, NextSequence, Prompts, StoreShapes
    <3>3. runtime' \in Runtimes \cup {0}
      BY <1>0, RuntimeRange, CountersKept
    <3> QED
      BY <3>1, <3>2, <3>3 DEF Entry, Prompts
  <2>2. WritePhase(e)
    BY <2>0 DEF ReplyIntent
  <2>3. /\ call.pc = "idle" /\ server = "ready"
        /\ handle[e.of].status = "active"
        /\ e.phase = "intent" /\ e.seq = NextSequence(e.of)
    BY <2>0 DEF ReplyIntent, Serving, At
  <2> HIDE DEF e
  <2> QED
    BY <2>1, <2>2, <2>3
<1>6. CASE WriteDispatched
  <2> DEFINE e == [call.entry EXCEPT !.phase = "dispatched"]
  <2>0. call.entry \in Entry /\ call.entry.of = call.of
    BY <1>0, <1>6, CallIs DEF WriteDispatched, At
  <2>1. e \in Entry
    BY <2>0 DEF Entry
  <2>2. WritePhase(e)
    BY <1>6 DEF WriteDispatched
  <2>3. /\ call.pc = "ran" /\ e.phase = "dispatched"
        /\ e.of = call.of /\ e.seq = call.entry.seq
        /\ e.size = call.entry.size
    BY <2>0, <1>6 DEF WriteDispatched, At, Entry
  <2> HIDE DEF e
  <2> QED
    BY <2>1, <2>2, <2>3
<1>7. CASE \/ RepairConfirmed \/ ResumeInline \/ ResumeInlineFails
           \/ FinalizeStores \/ FinalizeAudits \/ FinalizeReports
  BY <1>7
     DEF RepairConfirmed, ResumeInline, ResumeInlineFails, FinalizeStores,
         FinalizeAudits, FinalizeReports, disk
<1>8. CASE FinalizeCompletes
  <2> DEFINE e == [call.entry EXCEPT !.phase = "completed", !.size = 0]
  <2>0. call.entry \in Entry
    BY <1>0, <1>8, CallIs DEF FinalizeCompletes, At
  <2>1. e \in Entry
    BY <2>0, CompletedIsEntry
  <2>2. WritePhase(e)
    BY <1>8 DEF FinalizeCompletes, Complete
  <2>3. /\ call.pc = "closing" /\ e.phase = "completed"
        /\ e.of = call.of /\ e.seq = call.entry.seq
    BY <1>0, <1>8, <2>0, CallIs, CompletedIsEntry
       DEF FinalizeCompletes, At, SameKey
  <2> HIDE DEF e
  <2> QED
    BY <2>1, <2>2, <2>3
<1>9. CASE \/ FinalizeRaises \/ BeginRecovery
           \/ \E i \in todo : RecoverThread(i)
           \/ \E i \in todo : RecoveryRaises(i)
           \/ \E i \in todo : RecoverTurnUnconfirmed(i)
           \/ \E i \in todo : RecoverTurnConfirmed(i)
  BY <1>9
     DEF FinalizeRaises, BeginRecovery, RecoverThread, RecoveryRaises,
         RecoverTurnUnconfirmed, RecoverTurnConfirmed, disk
<1>10. CASE \E i \in todo : RecoverThreadIntent(i)
  <2>0. PICK i \in todo : RecoverThreadIntent(i)
    BY <1>10
  <2> DEFINE e == [journal[i] EXCEPT !.phase = "completed", !.size = 0]
  <2>4. journal[i] \in Entry
    BY <1>0 DEF StoreShapes, ServerShapes, Unresolved
  <2>1. e \in Entry
    BY <2>4, CompletedIsEntry
  <2>2. WritePhase(e)
    BY <2>0 DEF RecoverThreadIntent, Complete
  <2>3. e.op = "thread_creation"
    BY <2>0, <2>4, CompletedIsEntry
       DEF RecoverThreadIntent, Reconciling, SameKey
  <2> HIDE DEF e
  <2> QED
    BY <2>1, <2>2, <2>3
<1>11. CASE \/ RecoverHandle \/ BeginReattach
            \/ \E d \in Dialogues : Reattach(d)
            \/ \E d \in Dialogues : ReattachFails(d)
            \/ EndRecovery \/ WriteRaises
  BY <1>11
     DEF RecoverHandle, BeginReattach, Reattach, ReattachFails, EndRecovery,
         WriteRaises, disk
<1>12. CASE RecoverThreadCompletes
  <2> DEFINE e == [call.entry EXCEPT !.phase = "completed", !.size = 0]
  <2>0. call.entry \in Entry
    BY <1>0, <1>12, CallIs DEF RecoverThreadCompletes, At
  <2>1. e \in Entry
    BY <2>0, CompletedIsEntry
  <2>2. WritePhase(e)
    BY <1>12 DEF RecoverThreadCompletes, Complete
  <2>4. call.entry.op = "thread_creation"
    BY <1>0, <1>12
       DEF RecoverThreadCompletes, At, CallShape, Idle, RecoverySteps
  <2>3. e.op = "thread_creation"
    BY <2>0, <2>4, CompletedIsEntry DEF SameKey
  <2> HIDE DEF e
  <2> QED
    BY <2>1, <2>2, <2>3
<1>13. CASE \/ OtherCall \/ ServerEnds
  BY <1>13 DEF OtherCall, ServerEnds, Dies, Returns, disk
<1>14. CASE UNCHANGED vars
  BY <1>14 DEF vars, disk
<1> QED
  BY <1>1, <1>2, <1>3, <1>4, <1>5, <1>6, <1>7, <1>8, <1>9, <1>10, <1>11,
     <1>12, <1>13, <1>14
     DEF Next, Start, Reply, Finalize, Recover

LEMMA StartedGrows ==
  ASSUME TypeInv, [Next]_vars, NEW d, Started(d)
  PROVE  Started(d)'
<1>0. /\ StoreShapes /\ ServerShapes /\ CallShape
      /\ journal \in Seq(Entry)
  BY DEF TypeInv, StoreShapes
<1>1. PICK k \in DOMAIN journal : journal[k].op = "thread_creation" /\ journal[k].of = d
  BY DEF Started
<1>2. k \in DOMAIN journal' /\ journal'[k].op = "thread_creation" /\ journal'[k].of = d
  <2>1. journal' = journal \/ \E e \in Entry : WritePhase(e)
    BY JournalStep
  <2> QED
    BY <1>0, <1>1, <2>1, WriteEffect DEF SameKey
<1> QED
  BY <1>2 DEF Started

(* Whose handle a step creates, makes active, or leaves active.            *)
LEMMA HandleStep ==
  ASSUME TypeInv, HandleInv, "exit" \notin FaultKinds, [Next]_vars,
         NEW c \in Dialogues
  PROVE  \/ handle'[c].status = handle[c].status
         \/ handle'[c].status = "unknown" /\ handle[c].status # "none"
         \/ /\ handle'[c].status = "active" /\ handle[c].status = "none"
            /\ Started(c)
            /\ call.pc \in {"creating", "binding"}
         \/ /\ handle'[c].status = "active" /\ handle[c].status # "none"
            /\ \/ call.pc = "resuming" /\ call.of = c
               \/ server = "reattaching" /\ MetadataComplete(c)
<1>0. /\ StoreShapes /\ ServerShapes /\ CallShape /\ CallIsServed /\ CounterShapes
      /\ handle \in Handles
  BY DEF TypeInv, StoreShapes, Handles
<1>1. CASE \/ \E d \in Dialogues : StartIntent(d)
           \/ StartThread \/ StartThreadRaises \/ StartCompletes
           \/ \E d \in Dialogues : ReplyIntent(d)
           \/ RunTurn
  BY <1>1
     DEF StartIntent, StartThread, StartThreadRaises, StartCompletes,
         ReplyIntent, RunTurn, disk
<1>2. CASE StartCreatesHandle
  <2>1. call.of \in Dialogues /\ handle[call.of].status = "none" /\ Started(call.of)
    BY <1>0, <1>2, CallIs DEF StartCreatesHandle, At, HandleInv
  <2>2. CASE c = call.of
    BY <1>0, <2>1, <2>2, <1>2 DEF StartCreatesHandle, At, Handles
  <2>3. CASE c # call.of
    BY <1>0, <2>1, <2>3, <1>2 DEF StartCreatesHandle, Handles
  <2> QED
    BY <2>2, <2>3
<1>3. CASE \E d \in Dialogues : ReplyQuarantines(d)
  <2>0. PICK d \in Dialogues : ReplyQuarantines(d)
    BY <1>3
  <2> QED
    BY <1>0, <2>0, StatusEffect DEF ReplyQuarantines
<1>4. CASE \/ RunTurnRaises \/ WriteDispatched \/ RepairConfirmed
           \/ FinalizeStores \/ FinalizeAudits \/ FinalizeReports
  BY <1>4
     DEF RunTurnRaises, WriteDispatched, RepairConfirmed, FinalizeStores,
         FinalizeAudits, FinalizeReports, disk
<1>5. CASE RepairUnconfirmed
  <2>1. call.of \in Dialogues /\ handle[call.of].status # "none"
    BY <1>0, <1>5, CallIs
       DEF RepairUnconfirmed, At, HandleInv, TurnSteps, ReplySteps, FinalSteps
  <2> QED
    BY <1>0, <2>1, <1>5, StatusEffect DEF RepairUnconfirmed
<1>6. CASE ResumeInline
  <2>1. call.of \in Dialogues /\ handle[call.of].status # "none"
    BY <1>0, <1>6, CallIs DEF ResumeInline, At, HandleInv, TurnSteps, ReplySteps
  <2> QED
    BY <1>0, <2>1, <1>6, RebindEffect, RuntimeRange, CountersKept
       DEF ResumeInline, At
<1>7. CASE ResumeInlineFails
  <2>1. call.of \in Dialogues /\ handle[call.of].status # "none"
    BY <1>0, <1>7, CallIs
       DEF ResumeInlineFails, At, HandleInv, TurnSteps, ReplySteps, FinalSteps
  <2> QED
    BY <1>0, <2>1, <1>7, StatusEffect DEF ResumeInlineFails
<1>8. CASE \/ FinalizeCompletes \/ BeginRecovery
           \/ \E i \in todo : RecoverThreadIntent(i)
           \/ \E i \in todo : RecoverThread(i)
           \/ \E i \in todo : RecoveryRaises(i)
           \/ \E i \in todo : RecoverTurnConfirmed(i)
  BY <1>8
     DEF FinalizeCompletes, BeginRecovery, RecoverThreadIntent, RecoverThread,
         RecoveryRaises, RecoverTurnConfirmed, disk
<1>9. CASE FinalizeRaises
  <2>1. call.of \in Dialogues /\ handle[call.of].status # "none"
    BY <1>0, <1>9, CallIs
       DEF FinalizeRaises, HandleInv, TurnSteps, ReplySteps, FinalSteps
  <2> QED
    BY <1>0, <2>1, <1>9, StatusEffect DEF FinalizeRaises
<1>10. CASE \E i \in todo : RecoverTurnUnconfirmed(i)
  <2>0. PICK i \in todo : RecoverTurnUnconfirmed(i)
    BY <1>10
  <2>1. journal[i] \in Entry
    BY <1>0 DEF StoreShapes, ServerShapes, Unresolved
  <2>2. journal[i].of \in Dialogues /\ handle[journal[i].of].status # "none"
    BY <2>0, <2>1 DEF RecoverTurnUnconfirmed, HasHandle, Entry
  <2> QED
    BY <1>0, <2>0, <2>2, StatusEffect DEF RecoverTurnUnconfirmed
<1>11. CASE RecoverHandle
  <2>1. call.of \in Dialogues /\ call.entry.of = call.of /\ call.entry.op = "thread_creation"
    BY <1>0, <1>11, CallIs DEF RecoverHandle, At, CallShape, Idle, RecoverySteps
  <2>2. \E k \in todo : journal[k] = call.entry
    BY <1>0, <1>11 DEF RecoverHandle, At, CallIsServed, RecoverySteps
  <2>3. Started(call.of)
    BY <1>0, <2>1, <2>2 DEF Started, ServerShapes, Unresolved
  <2>4. CASE c = call.of
    BY <1>0, <2>1, <2>3, <2>4, <1>11 DEF RecoverHandle, At, Handles
  <2>5. CASE c # call.of
    BY <1>0, <2>1, <2>5, <1>11 DEF RecoverHandle, Handles
  <2> QED
    BY <2>4, <2>5
<1>12. CASE \/ RecoverThreadCompletes \/ BeginReattach \/ EndRecovery
            \/ WriteRaises \/ OtherCall
  BY <1>12
     DEF RecoverThreadCompletes, BeginReattach, EndRecovery, WriteRaises,
         OtherCall, disk
<1>13. CASE \E d \in Dialogues : Reattach(d)
  <2>0. PICK d \in Dialogues : Reattach(d)
    BY <1>13
  <2>1. server = "reattaching" /\ handle[d].status # "none"
    BY <2>0 DEF Reattach, HandleInv
  <2>2. CASE MetadataComplete(d)
    BY <1>0, <2>0, <2>1, <2>2, RebindEffect, RuntimeRange, CountersKept
       DEF Reattach
  <2>3. CASE ~ MetadataComplete(d)
    BY <1>0, <2>0, <2>1, <2>3, StatusEffect DEF Reattach
  <2> QED
    BY <2>2, <2>3
<1>14. CASE \E d \in Dialogues : ReattachFails(d)
  <2>0. PICK d \in Dialogues : ReattachFails(d)
    BY <1>14
  <2>1. handle[d].status # "none"
    BY <2>0 DEF ReattachFails, HandleInv
  <2> QED
    BY <1>0, <2>0, <2>1, StatusEffect DEF ReattachFails
<1>15. CASE ServerEnds
  <2> QED
    BY <1>15 DEF ServerEnds, Dies, Returns, Fault
<1>16. CASE UNCHANGED vars
  BY <1>16 DEF vars, disk
<1> QED
  BY <1>1, <1>2, <1>3, <1>4, <1>5, <1>6, <1>7, <1>8, <1>9, <1>10, <1>11,
     <1>12, <1>13, <1>14, <1>15, <1>16
     DEF Next, Start, Reply, Finalize, Recover

LEMMA OpenTurnsHaveHandles ==
  ASSUME TypeInv, HandleInv, "exit" \notin FaultKinds, [Next]_vars
  PROVE  RecoverableEntries'
<1>1. ASSUME NEW k \in DOMAIN journal', journal'[k].op = "turn_dispatch",
             journal'[k].phase # "completed"
      PROVE  /\ journal'[k].of \in Dialogues
             /\ handle[journal'[k].of].status # "none"
  <2>0. journal'[k] \in Entry /\ journal'[k].of \in Dialogues
    <3>1. journal'[k] \in Entry
      BY JournalKept DEF TypeInv
    <3> QED
      BY <3>1 DEF Entry
  <2>1. CASE journal' = journal
    BY <1>1, <2>0, <2>1 DEF HandleInv, RecoverableEntries, HasHandle
  <2>2. ASSUME NEW e \in Entry, WritePhase(e),
               e.op = "turn_dispatch" /\ e.phase # "completed" =>
                  \/ handle[e.of].status = "active"
                  \/ call.pc = "ran" /\ e.of = call.of
        PROVE  handle[journal'[k].of].status # "none"
    <3>1. journal'[k] = e \/ (k \in DOMAIN journal /\ journal'[k] = journal[k])
      BY <2>2, WriteEffect DEF TypeInv, StoreShapes
    <3>2. CASE journal'[k] = e
      BY <1>1, <2>2, <3>2 DEF HandleInv, TurnSteps, ReplySteps
    <3>3. CASE k \in DOMAIN journal /\ journal'[k] = journal[k]
      BY <1>1, <3>3 DEF HandleInv, RecoverableEntries, HasHandle
    <3> QED
      BY <3>1, <3>2, <3>3
  <2> QED
    BY <2>0, <2>1, <2>2, JournalStep
<1>2. \A c \in Dialogues : handle[c].status # "none" => handle'[c].status # "none"
  BY HandleStep
<1> QED
  BY <1>1, <1>2 DEF RecoverableEntries, HasHandle

LEMMA CallHasHandle ==
  ASSUME TypeInv, HandleInv, "exit" \notin FaultKinds, [Next]_vars
  PROVE  /\ call'.pc \in {"starting", "creating"} =>
               handle'[call'.of].status = "none" /\ Started(call.of)'
         /\ call'.pc \in TurnSteps => handle'[call'.of].status # "none"
         /\ call'.pc \in TurnSteps /\ server' = "ready" =>
               handle'[call'.of].status = "active"
         /\ server' = "reattaching" =>
               \A d \in reattach' : handle'[d].status # "none"
<1>0. /\ StoreShapes /\ ServerShapes /\ CallShape /\ CallIsServed /\ CounterShapes
  BY DEF TypeInv
<1> DEFINE G == /\ call'.pc \in {"starting", "creating"} =>
                      handle'[call'.of].status = "none" /\ Started(call.of)'
                /\ call'.pc \in TurnSteps => handle'[call'.of].status # "none"
                /\ call'.pc \in TurnSteps /\ server' = "ready" =>
                      handle'[call'.of].status = "active"
                /\ server' = "reattaching" =>
                      \A d \in reattach' : handle'[d].status # "none"
<1>90. ASSUME call'.pc = "idle", server' # "reattaching"
       PROVE  G
  BY <1>90 DEF TurnSteps, ReplySteps, FinalSteps
<1>91. ASSUME UNCHANGED <<call, server, handle, reattach, journal>>
       PROVE  G
  BY <1>91 DEF HandleInv, Started
<1>92. \A c \in Dialogues : handle[c].status # "none" => handle'[c].status # "none"
  BY HandleStep
<1> SUFFICES G
  BY DEF G
<1> HIDE DEF G
<1>1. CASE \E d \in Dialogues : StartIntent(d)
  <2>0. PICK d \in Dialogues : StartIntent(d)
    BY <1>1
  <2>1. /\ call'.pc = "starting" /\ call'.of = d /\ handle' = handle
        /\ server' = "ready"
    BY <2>0 DEF StartIntent, Serving, Idle
  <2>2. handle[d].status = "none"
    BY <2>0 DEF StartIntent, HandleInv
  <2>3. Started(d)'
    BY <1>0, <2>0, ThreadEntryIsEntry, WriteEffect
       DEF StartIntent, Started, StoreShapes
  <2> QED
    BY <2>1, <2>2, <2>3
       DEF G, StartSteps, ReplySteps, FinalSteps, TurnSteps, RecoverySteps
<1>2. CASE StartThread
  <2>1. /\ call'.pc = "creating" /\ call'.of = call.of /\ handle' = handle
        /\ server' = "ready"
    BY <1>0, <1>2
       DEF StartThread, At, GoTo, CallShape, CallIsServed, Idle, StartSteps
  <2>2. handle[call.of].status = "none" /\ Started(call.of)
    BY <1>2 DEF StartThread, At, HandleInv
  <2>3. ASSUME NEW d, d = call.of
        PROVE  Started(d)'
    BY <2>2, <2>3, StartedGrows
  <2>4. Started(call.of)'
    <3>1. PICK d : d = call.of
      OBVIOUS
    <3>2. Started(d)'
      BY <2>3, <3>1
    <3>3. d = call'.of
      BY <2>1, <3>1
    <3> QED
      BY <3>2, <3>3 DEF Started
  <2> QED
    BY <2>1, <2>2, <2>4
       DEF G, StartSteps, ReplySteps, FinalSteps, TurnSteps, RecoverySteps
<1>3. CASE \/ StartThreadRaises \/ StartCompletes \/ RepairUnconfirmed
           \/ ResumeInline \/ ResumeInlineFails
  BY <1>0, <1>90, <1>3
     DEF StartThreadRaises, StartCompletes, RepairUnconfirmed, ResumeInline,
         ResumeInlineFails, At, Idle, CallIsServed, StartSteps, ReplySteps,
         FinalSteps, TurnSteps, RecoverySteps
<1>4. CASE StartCreatesHandle
  <2>1. call'.pc = "closing_start" /\ server' = "ready"
    BY <1>0, <1>4
       DEF StartCreatesHandle, At, GoTo, CallShape, CallIsServed, Idle,
           StartSteps, RecoverySteps
  <2> QED
    BY <2>1 DEF G, StartSteps, ReplySteps, FinalSteps, TurnSteps, RecoverySteps
<1>5. CASE \E d \in Dialogues : ReplyIntent(d)
  <2>0. PICK d \in Dialogues : ReplyIntent(d)
    BY <1>5
  <2>1. /\ call'.pc = "running" /\ call'.of = d /\ handle' = handle
        /\ server' = "ready" /\ handle[d].status = "active"
    BY <2>0 DEF ReplyIntent, Serving, Idle
  <2> QED
    BY <2>1 DEF G, StartSteps, ReplySteps, FinalSteps, TurnSteps, RecoverySteps
<1>6. CASE \E d \in Dialogues : ReplyQuarantines(d)
  <2>0. PICK d \in Dialogues : ReplyQuarantines(d)
    BY <1>6
  <2> QED
    BY <1>90, <2>0 DEF ReplyQuarantines, Serving, At
<1>7. CASE RunTurn
  <2>1. /\ call.of \in Dialogues /\ call.pc \in TurnSteps
        /\ server \in {"ready", "reconciling"}
    BY <1>0, <1>7, CallIs
       DEF RunTurn, At, CallIsServed, StartSteps, ReplySteps, FinalSteps,
           TurnSteps, RecoverySteps
  <2>2. /\ call'.of = call.of /\ call'.pc \in TurnSteps
        /\ call'.pc \notin {"starting", "creating"}
        /\ handle' = handle /\ server' = server
    BY <1>0, <1>7
       DEF RunTurn, At, GoTo, CallShape, Idle, disk, StartSteps, ReplySteps,
           FinalSteps, TurnSteps, RecoverySteps
  <2> QED
    BY <2>1, <2>2 DEF G, HandleInv
<1>8. CASE RunTurnRaises
  <2>1. /\ call.of \in Dialogues /\ call.pc \in TurnSteps
        /\ server \in {"ready", "reconciling"}
    BY <1>0, <1>8, CallIs
       DEF RunTurnRaises, At, CallIsServed, StartSteps, ReplySteps,
           FinalSteps, TurnSteps, RecoverySteps
  <2>2. /\ call'.of = call.of /\ call'.pc \in TurnSteps
        /\ call'.pc \notin {"starting", "creating"}
        /\ handle' = handle /\ server' = server
    BY <1>0, <1>8
       DEF RunTurnRaises, At, GoTo, CallShape, Idle, disk, StartSteps,
           ReplySteps, FinalSteps, TurnSteps, RecoverySteps
  <2> QED
    BY <2>1, <2>2 DEF G, HandleInv
<1>9. CASE WriteDispatched
  <2>1. /\ call.of \in Dialogues /\ call.pc \in TurnSteps
        /\ server \in {"ready", "reconciling"}
    BY <1>0, <1>9, CallIs
       DEF WriteDispatched, At, CallIsServed, StartSteps, ReplySteps,
           FinalSteps, TurnSteps, RecoverySteps
  <2>2. /\ call'.of = call.of /\ call'.pc \in TurnSteps
        /\ call'.pc \notin {"starting", "creating"}
        /\ handle' = handle /\ server' = server
    BY <1>0, <1>9
       DEF WriteDispatched, At, GoTo, CallShape, Idle, StartSteps, ReplySteps,
           FinalSteps, TurnSteps, RecoverySteps
  <2> QED
    BY <2>1, <2>2 DEF G, HandleInv
<1>10. CASE RepairConfirmed
  <2>1. /\ call.of \in Dialogues /\ call.pc \in TurnSteps
        /\ server \in {"ready", "reconciling"}
    BY <1>0, <1>10, CallIs
       DEF RepairConfirmed, At, CallIsServed, StartSteps, ReplySteps,
           FinalSteps, TurnSteps, RecoverySteps
  <2>2. /\ call'.of = call.of /\ call'.pc \in TurnSteps
        /\ call'.pc \notin {"starting", "creating"}
        /\ handle' = handle /\ server' = server
    BY <1>0, <1>10
       DEF RepairConfirmed, At, GoTo, CallShape, Idle, disk, StartSteps,
           ReplySteps, FinalSteps, TurnSteps, RecoverySteps
  <2> QED
    BY <2>1, <2>2 DEF G, HandleInv
<1>11. CASE FinalizeStores
  <2>1. /\ call.of \in Dialogues /\ call.pc \in TurnSteps
        /\ server \in {"ready", "reconciling"}
    BY <1>0, <1>11, CallIs
       DEF FinalizeStores, At, CallIsServed, StartSteps, ReplySteps,
           FinalSteps, TurnSteps, RecoverySteps
  <2>2. /\ call'.of = call.of /\ call'.pc \in TurnSteps
        /\ call'.pc \notin {"starting", "creating"}
        /\ handle' = handle /\ server' = server
    BY <1>0, <1>11
       DEF FinalizeStores, At, GoTo, CallShape, Idle, StartSteps, ReplySteps,
           FinalSteps, TurnSteps, RecoverySteps
  <2> QED
    BY <2>1, <2>2 DEF G, HandleInv
<1>12. CASE FinalizeAudits
  <2>1. /\ call.of \in Dialogues /\ call.pc \in TurnSteps
        /\ server \in {"ready", "reconciling"}
    BY <1>0, <1>12, CallIs
       DEF FinalizeAudits, At, CallIsServed, StartSteps, ReplySteps,
           FinalSteps, TurnSteps, RecoverySteps
  <2>2. /\ call'.of = call.of /\ call'.pc \in TurnSteps
        /\ call'.pc \notin {"starting", "creating"}
        /\ handle' = handle /\ server' = server
    BY <1>0, <1>12
       DEF FinalizeAudits, At, GoTo, CallShape, Idle, StartSteps, ReplySteps,
           FinalSteps, TurnSteps, RecoverySteps
  <2> QED
    BY <2>1, <2>2 DEF G, HandleInv
<1>13. CASE FinalizeReports
  <2>1. /\ call.of \in Dialogues /\ call.pc \in TurnSteps
        /\ server \in {"ready", "reconciling"}
    BY <1>0, <1>13, CallIs
       DEF FinalizeReports, At, CallIsServed, StartSteps, ReplySteps,
           FinalSteps, TurnSteps, RecoverySteps
  <2>2. /\ call'.of = call.of /\ call'.pc \in TurnSteps
        /\ call'.pc \notin {"starting", "creating"}
        /\ handle' = handle /\ server' = server
    BY <1>0, <1>13
       DEF FinalizeReports, At, GoTo, CallShape, Idle, StartSteps, ReplySteps,
           FinalSteps, TurnSteps, RecoverySteps
  <2> QED
    BY <2>1, <2>2 DEF G, HandleInv
<1>14. CASE FinalizeCompletes
  <2>1. CASE call' = Idle
    BY <1>0, <1>90, <2>1, <1>14
       DEF FinalizeCompletes, Idle, At, CallIsServed, FinalSteps
  <2>2. CASE GoTo("resuming")
    <3>1. /\ call.of \in Dialogues /\ call.pc \in TurnSteps
          /\ server \in {"ready", "reconciling"}
      BY <1>0, <1>14, CallIs
         DEF FinalizeCompletes, At, CallIsServed, FinalSteps, TurnSteps
    <3>2. /\ call'.of = call.of /\ call'.pc \in TurnSteps
          /\ call'.pc \notin {"starting", "creating"}
          /\ handle' = handle /\ server' = server
      BY <1>0, <2>2, <1>14
         DEF FinalizeCompletes, At, GoTo, CallShape, Idle, StartSteps,
             ReplySteps, FinalSteps, TurnSteps, RecoverySteps
    <3> QED
      BY <3>1, <3>2 DEF G, HandleInv
  <2> QED
    BY <2>1, <2>2, <1>14 DEF FinalizeCompletes, NextEntry
<1>15. CASE FinalizeRaises
  <2>1. server \in {"ready", "reconciling"} /\ server' = server
    BY <1>0, <1>15 DEF FinalizeRaises, CallIsServed
  <2> QED
    BY <1>90, <2>1, <1>15 DEF FinalizeRaises, NextEntry, Idle
<1>16. CASE BeginRecovery
  <2>1. call'.pc = "idle"
    BY <1>0, IdleServer, <1>16 DEF BeginRecovery
  <2> QED
    BY <1>90, <2>1, <1>16 DEF BeginRecovery
<1>17. CASE \E i \in todo : RecoverThreadIntent(i)
  <2>0. PICK i \in todo : RecoverThreadIntent(i)
    BY <1>17
  <2> QED
    BY <1>90, <2>0 DEF RecoverThreadIntent, Reconciling, At
<1>18. CASE \E i \in todo : RecoverThread(i)
  <2>0. PICK i \in todo : RecoverThread(i)
    BY <1>18
  <2>1. call'.pc = "binding" /\ server' = "reconciling"
    BY <2>0 DEF RecoverThread, Reconciling, Idle
  <2> QED
    BY <2>1 DEF G, StartSteps, ReplySteps, FinalSteps, TurnSteps, RecoverySteps
<1>19. CASE \E i \in todo : RecoveryRaises(i)
  <2>0. PICK i \in todo : RecoveryRaises(i)
    BY <1>19
  <2> QED
    BY <1>0, <1>90, <2>0
       DEF RecoveryRaises, Abandon, Idle, At, CallIsServed, RecoverySteps
<1>20. CASE \E i \in todo : RecoverTurnUnconfirmed(i)
  <2>0. PICK i \in todo : RecoverTurnUnconfirmed(i)
    BY <1>20
  <2> QED
    BY <1>90, <2>0 DEF RecoverTurnUnconfirmed, Reconciling, At
<1>21. CASE \E i \in todo : RecoverTurnConfirmed(i)
  <2>0. PICK i \in todo : RecoverTurnConfirmed(i)
    BY <1>21
  <2>1. /\ call'.pc = "storing" /\ server' = "reconciling" /\ handle' = handle
        /\ handle[call'.of].status # "none"
    BY <2>0 DEF RecoverTurnConfirmed, Reconciling, HasHandle, Idle, disk
  <2> QED
    BY <2>1 DEF G, StartSteps, ReplySteps, FinalSteps, TurnSteps, RecoverySteps
<1>22. CASE RecoverHandle
  <2>1. call'.pc = "closing_thread" /\ server' = "reconciling"
    BY <1>0, <1>22
       DEF RecoverHandle, At, GoTo, CallShape, CallIsServed, Idle, StartSteps,
           RecoverySteps
  <2> QED
    BY <2>1 DEF G, StartSteps, ReplySteps, FinalSteps, TurnSteps, RecoverySteps
<1>23. CASE RecoverThreadCompletes
  <2> QED
    BY <1>0, <1>90, <1>23
       DEF RecoverThreadCompletes, NextEntry, Idle, At, CallIsServed,
           RecoverySteps
<1>24. CASE BeginReattach
  <2>1. call'.pc = "idle" /\ \A d \in reattach' : handle'[d].status # "none"
    BY <1>24 DEF BeginReattach, At, disk
  <2> QED
    BY <2>1 DEF G, StartSteps, ReplySteps, FinalSteps, TurnSteps, RecoverySteps
<1>25. CASE \E d \in Dialogues : Reattach(d)
  <2>0. PICK d \in Dialogues : Reattach(d)
    BY <1>25
  <2>1. call'.pc = "idle"
    BY <1>0, IdleServer, <2>0 DEF Reattach
  <2>2. \A c \in reattach' : handle'[c].status # "none"
    BY <1>0, <1>92, <2>0 DEF Reattach, HandleInv, ServerShapes
  <2> QED
    BY <2>1, <2>2
       DEF G, StartSteps, ReplySteps, FinalSteps, TurnSteps, RecoverySteps
<1>26. CASE \E d \in Dialogues : ReattachFails(d)
  <2>0. PICK d \in Dialogues : ReattachFails(d)
    BY <1>26
  <2>1. call'.pc = "idle"
    BY <1>0, IdleServer, <2>0 DEF ReattachFails
  <2>2. \A c \in reattach' : handle'[c].status # "none"
    BY <1>0, <1>92, <2>0 DEF ReattachFails, HandleInv, ServerShapes
  <2> QED
    BY <2>1, <2>2
       DEF G, StartSteps, ReplySteps, FinalSteps, TurnSteps, RecoverySteps
<1>27. CASE EndRecovery
  <2>1. call'.pc = "idle"
    BY <1>0, IdleServer, <1>27 DEF EndRecovery
  <2> QED
    BY <1>90, <2>1, <1>27 DEF EndRecovery
<1>28. CASE WriteRaises
  <2> QED
    BY <1>90, <1>28 DEF WriteRaises, Abandon, Idle
<1>29. CASE OtherCall
  <2> QED
    BY <1>90, <1>29 DEF OtherCall, Serving, At
<1>30. CASE ServerEnds
  <2> QED
    BY <1>0, <1>90, <1>30
       DEF ServerEnds, Abandon, Idle, At, CallIsServed, RecoverySteps
<1>31. CASE UNCHANGED vars
  BY <1>91, <1>31 DEF vars, disk, memory
<1> QED
  BY <1>1, <1>2, <1>3, <1>4, <1>5, <1>6, <1>7, <1>8, <1>9, <1>10, <1>11,
     <1>12, <1>13, <1>14, <1>15, <1>16, <1>17, <1>18, <1>19, <1>20, <1>21,
     <1>22, <1>23, <1>24, <1>25, <1>26, <1>27, <1>28, <1>29, <1>30, <1>31
     DEF Next, Start, Reply, Finalize, Recover

LEMMA HandleInvKept ==
  ASSUME TypeInv, HandleInv, "exit" \notin FaultKinds, [Next]_vars
  PROVE  HandleInv'
<1>1. ASSUME NEW d \in Dialogues, handle'[d].status = "none"
      PROVE  thread'[d] = <<>>
  <2>1. handle[d].status = "none"
    BY <1>1, HandleStep
  <2>2. thread[d] = <<>> /\ ~ (call.pc = "running" /\ d = call.of)
    BY <2>1 DEF HandleInv, TurnSteps, ReplySteps
  <2>3. thread'[d] = thread[d]
    BY <2>2, ThreadGrows
  <2> QED
    BY <2>2, <2>3
<1>2. ASSUME NEW d \in Dialogues, handle'[d].status # "none"
      PROVE  Started(d)'
  <2>1. Started(d)
    BY <1>2, HandleStep DEF HandleInv
  <2> QED
    BY <2>1, StartedGrows
<1> QED
  BY <1>1, <1>2, OpenTurnsHaveHandles, CallHasHandle DEF HandleInv

LEMMA HandleInvInit == Init => HandleInv
  BY DEF Init, HandleInv, RecoverableEntries, Idle, StartSteps, ReplySteps,
         FinalSteps, TurnSteps

(* An open turn that a restarted server finds in its journal names a       *)
(* dialogue that has a handle, so that recovery never stops for good.      *)
THEOREM EntriesRecoverable ==
  ASSUME "exit" \notin FaultKinds
  PROVE  Spec => []RecoverableEntries
<1>1. TypeInv /\ HandleInv /\ [Next]_vars => (TypeInv /\ HandleInv)'
  BY TypeInvKept, HandleInvKept
<1>2. TypeInv /\ HandleInv => RecoverableEntries
  BY DEF HandleInv
<1> QED
  BY TypeInvInit, HandleInvInit, <1>1, <1>2, PTL DEF Spec

----------------------------------------------------------------------------
(* Turns.  What follows also excludes that the dispatched record of turn 1 *)
(* raises, which leaves an active dialogue whose local store knows nothing *)
(* of the turn.                                                            *)

(* The turn is recorded, or the store shows that it has lost a line.       *)
Kept(d, s) == s \in Recorded(d) \/ Diagnosed

(* The entry of an open turn is in the journal until it is closed.         *)
EntryInv ==
    /\ call.pc \in TurnSteps \ {"resuming"} =>
          \E i \in DOMAIN journal : journal[i] = call.entry
    /\ call.pc \in {"running", "ran"} => call.entry.phase = "intent"

(* Numbers: what runs is the next turn, what has run is the one it names.  *)
NumberInv ==
    /\ call.pc \in {"running", "ran"} /\ call.entry.seq > 1 => ~ FastPath(call.of)
    /\ TurnNumberIsNext
    /\ call.pc \in {"ran"} \cup FinalSteps =>
          /\ call.entry.seq \in DOMAIN thread[call.of]
          /\ call.turn = thread[call.of][call.entry.seq]

(* The steps of a finalized turn, in their order.                          *)
FinalInv ==
    /\ call.pc \in {"auditing", "reporting", "closing"} =>
          Kept(call.of, call.entry.seq)
    /\ call.pc \in {"reporting", "closing"} => audits[call.turn] = 1
    /\ call.pc = "closing" => outcomes[call.turn] = 1

(* Whoever will find out about a remote turn without a local record: the   *)
(* call at work, the next reply, or the recovery.                          *)
Names(e, d, s) == e.op = "turn_dispatch" /\ e.of = d /\ e.seq = s

Accounted(d, s) ==
    \/ /\ call.pc \in {"ran", "repairing", "storing"}
       /\ call.of = d /\ call.entry.seq = s
    \/ /\ server = "ready" /\ ~ FastPath(d)
       /\ \E i \in DOMAIN journal : Names(journal[i], d, s) /\ journal[i].phase = "intent"
    \/ /\ server = "cold"
       /\ \E i \in Unresolved : Names(journal[i], d, s)
    \/ /\ server = "reconciling"
       /\ \E i \in todo : Names(journal[i], d, s)

DebtInv ==
    \A d \in Dialogues : \A s \in DOMAIN thread[d] :
       handle[d].status = "active" => Kept(d, s) \/ Accounted(d, s)

TurnInv == /\ EntryInv /\ NumberInv /\ FinalInv /\ DebtInv
           /\ CompletedTurnIsFinalized

DialogueInv == TypeInv /\ HandleInv /\ TurnInv

(* What the local store has, or shows to have lost, stays so.              *)
LEMMA RecordedIs ==
  ASSUME NEW d, NEW s
  PROVE  s \in Recorded(d) <=> \E i \in DOMAIN turnFile :
                                 /\ turnFile[i].valid /\ turnFile[i].of = d
                                 /\ turnFile[i].seq = s
  BY DEF Recorded, Readable

LEMMA RecordedNextIs ==
  ASSUME NEW d, NEW s
  PROVE  s \in Recorded(d)' <=> \E i \in DOMAIN turnFile' :
                                 /\ turnFile'[i].valid /\ turnFile'[i].of = d
                                 /\ turnFile'[i].seq = s
  BY DEF Recorded, Readable

LEMMA TurnFileStep ==
  ASSUME TypeInv, "exit" \notin FaultKinds, [Next]_vars
  PROVE  \/ turnFile' = turnFile
         \/ /\ call.pc = "storing"
            /\ \E line \in Line :
                  /\ turnFile' = Appended(line)
                  /\ line.of = call.of /\ line.seq = call.entry.seq
                  /\ line.size = call.entry.size
<1>0. StoreShapes /\ CallShape
  BY DEF TypeInv
<1>1. CASE \/ \E d \in Dialogues : StartIntent(d)
           \/ StartThread \/ StartThreadRaises \/ StartCreatesHandle
           \/ StartCompletes
           \/ \E d \in Dialogues : ReplyIntent(d)
  BY <1>1
     DEF StartIntent, StartThread, StartThreadRaises, StartCreatesHandle,
         StartCompletes, ReplyIntent, disk
<1>2. CASE \/ \E d \in Dialogues : ReplyQuarantines(d)
           \/ RunTurn \/ RunTurnRaises \/ WriteDispatched \/ RepairUnconfirmed
           \/ RepairConfirmed
  BY <1>2
     DEF ReplyQuarantines, RunTurn, RunTurnRaises, WriteDispatched,
         RepairUnconfirmed, RepairConfirmed, disk
<1>3. CASE \/ ResumeInline \/ ResumeInlineFails \/ FinalizeAudits
           \/ FinalizeReports \/ FinalizeCompletes
  BY <1>3
     DEF ResumeInline, ResumeInlineFails, FinalizeAudits, FinalizeReports,
         FinalizeCompletes
<1>10. CASE FinalizeRaises
  <2>1. CASE UNCHANGED <<turnFile, unended>>
    BY <2>1
  <2>2. CASE Tears(FALSE)
    BY <1>0, <2>2, TearsEffect
  <2> QED
    BY <1>10, <2>1, <2>2 DEF FinalizeRaises
<1>4. CASE FinalizeStores
  <2> DEFINE line == [of |-> call.of, seq |-> call.entry.seq,
                      size |-> call.entry.size, valid |-> TRUE]
  <2>1. call.of \in Dialogues /\ OpenTurn(call.entry)
    BY <1>0, <1>4, CallIs DEF FinalizeStores, At, TurnSteps, FinalSteps
  <2>2. line \in Line
    BY <2>1 DEF Line, OpenTurn
  <2>3. turnFile' = Appended(line) /\ call.pc = "storing"
    BY <1>4 DEF FinalizeStores, At
  <2>4. /\ line.of = call.of /\ line.seq = call.entry.seq
        /\ line.size = call.entry.size
    OBVIOUS
  <2> HIDE DEF line
  <2> QED
    BY <2>2, <2>3, <2>4
<1>5. CASE \/ BeginRecovery
           \/ \E i \in todo : RecoverThreadIntent(i)
           \/ \E i \in todo : RecoverThread(i)
           \/ \E i \in todo : RecoveryRaises(i)
           \/ \E i \in todo : RecoverTurnUnconfirmed(i)
           \/ \E i \in todo : RecoverTurnConfirmed(i)
  BY <1>5
     DEF BeginRecovery, RecoverThreadIntent, RecoverThread, RecoveryRaises,
         RecoverTurnUnconfirmed, RecoverTurnConfirmed, disk
<1>6. CASE \/ RecoverHandle \/ RecoverThreadCompletes \/ BeginReattach
           \/ \E d \in Dialogues : Reattach(d)
           \/ \E d \in Dialogues : ReattachFails(d)
           \/ EndRecovery
  BY <1>6
     DEF RecoverHandle, RecoverThreadCompletes, BeginReattach, Reattach,
         ReattachFails, EndRecovery, disk
<1>7. CASE \/ WriteRaises \/ OtherCall
  BY <1>7 DEF WriteRaises, OtherCall, disk
<1>8. CASE ServerEnds
  <2>1. CASE turnFile' = turnFile
    BY <2>1
  <2>2. ASSUME NEW whole \in BOOLEAN, Tears(whole)
        PROVE  /\ call.pc = "storing"
               /\ \E line \in Line :
                     /\ turnFile' = Appended(line)
                     /\ line.of = call.of /\ line.seq = call.entry.seq
                     /\ line.size = call.entry.size
    BY <1>0, <2>2, TearsEffect
  <2> QED
    BY <1>8, <2>1, <2>2 DEF ServerEnds, Dies, Returns, Fault
<1>9. CASE UNCHANGED vars
  BY <1>9 DEF vars, disk
<1> QED
  BY <1>1, <1>2, <1>3, <1>4, <1>5, <1>6, <1>7, <1>8, <1>9, <1>10
     DEF Next, Start, Reply, Finalize, Recover

LEMMA DiagnosedStays ==
  ASSUME TypeInv, "exit" \notin FaultKinds, [Next]_vars, Diagnosed
  PROVE  Diagnosed'
<1>1. PICK i \in DOMAIN turnFile : ~ turnFile[i].valid
  BY DEF Diagnosed
<1>2. i \in DOMAIN turnFile' /\ ~ turnFile'[i].valid
  BY <1>1, TurnFileStep, AppendedEffect DEF TypeInv, StoreShapes
<1> QED
  BY <1>2 DEF Diagnosed

LEMMA KeptStays ==
  ASSUME TypeInv, "exit" \notin FaultKinds, [Next]_vars, NEW d, NEW s, Kept(d, s)
  PROVE  Kept(d, s)'
<1>1. CASE Diagnosed
  BY <1>1, DiagnosedStays DEF Kept
<1>2. CASE s \in Recorded(d)
  <2>1. PICK i \in DOMAIN turnFile : /\ turnFile[i].valid /\ turnFile[i].of = d
                                     /\ turnFile[i].seq = s
    BY <1>2, RecordedIs
  <2>2. CASE turnFile' = turnFile
    <3>1. s \in Recorded(d)'
      BY <2>1, <2>2, RecordedNextIs
    <3> QED
      BY <3>1 DEF Kept
  <2>3. ASSUME NEW line \in Line, turnFile' = Appended(line)
        PROVE  Kept(d, s)'
    <3>1. /\ DOMAIN turnFile \subseteq DOMAIN turnFile'
          /\ ~ unended => turnFile'[i] = turnFile[i]
          /\ unended => \E k \in DOMAIN turnFile' : ~ turnFile'[k].valid
      BY <2>3, AppendedEffect DEF TypeInv, StoreShapes
    <3>2. CASE unended
      BY <3>1, <3>2 DEF Kept, Diagnosed
    <3>3. CASE ~ unended
      <4>1. s \in Recorded(d)'
        BY <2>1, <3>1, <3>3, RecordedNextIs
      <4> QED
        BY <4>1 DEF Kept
    <3> QED
      BY <3>2, <3>3
  <2> QED
    BY <2>2, <2>3, TurnFileStep
<1> QED
  BY <1>1, <1>2 DEF Kept

LEMMA SlowPathStays ==
  ASSUME TypeInv, "exit" \notin FaultKinds, [Next]_vars, NEW d, ~ FastPath(d)
  PROVE  ~ FastPath(d)'
<1>1. PICK s : Kept(d, s)
  BY DEF FastPath, Kept
<1>2. Kept(d, s)'
  BY <1>1, KeptStays
<1> QED
  BY <1>2 DEF FastPath, Kept

LEMMA LogsGrow ==
  ASSUME TypeInv, [Next]_vars, NEW p \in Prompts
  PROVE  /\ audits[p] = 1 => audits'[p] = 1
         /\ outcomes[p] = 1 => outcomes'[p] = 1
<1>0. StoreShapes /\ CallShape
  BY DEF TypeInv
<1>1. CASE \/ \E d \in Dialogues : StartIntent(d)
           \/ StartThread \/ StartThreadRaises \/ StartCreatesHandle
           \/ StartCompletes
           \/ \E d \in Dialogues : ReplyIntent(d)
  BY <1>1
     DEF StartIntent, StartThread, StartThreadRaises, StartCreatesHandle,
         StartCompletes, ReplyIntent, disk
<1>2. CASE \/ \E d \in Dialogues : ReplyQuarantines(d)
           \/ RunTurn \/ RunTurnRaises \/ WriteDispatched \/ RepairUnconfirmed
           \/ RepairConfirmed
  BY <1>2
     DEF ReplyQuarantines, RunTurn, RunTurnRaises, WriteDispatched,
         RepairUnconfirmed, RepairConfirmed, disk
<1>3. CASE \/ ResumeInline \/ ResumeInlineFails \/ FinalizeStores
           \/ FinalizeCompletes \/ FinalizeRaises \/ BeginRecovery
  BY <1>3
     DEF ResumeInline, ResumeInlineFails, FinalizeStores, FinalizeCompletes,
         FinalizeRaises, BeginRecovery, disk
<1>4. CASE FinalizeAudits
  <2>1. call.turn \in Prompts
    BY <1>0, <1>4, CallIs DEF FinalizeAudits, At, FinalSteps
  <2> QED
    BY <1>0, <2>1, <1>4, OnceEffect DEF FinalizeAudits, StoreShapes
<1>5. CASE FinalizeReports
  <2>1. call.turn \in Prompts
    BY <1>0, <1>5, CallIs DEF FinalizeReports, At, FinalSteps
  <2> QED
    BY <1>0, <2>1, <1>5, OnceEffect DEF FinalizeReports, StoreShapes
<1>6. CASE \/ \E i \in todo : RecoverThreadIntent(i)
           \/ \E i \in todo : RecoverThread(i)
           \/ \E i \in todo : RecoveryRaises(i)
           \/ \E i \in todo : RecoverTurnUnconfirmed(i)
           \/ \E i \in todo : RecoverTurnConfirmed(i)
           \/ RecoverHandle
  BY <1>6
     DEF RecoverThreadIntent, RecoverThread, RecoveryRaises,
         RecoverTurnUnconfirmed, RecoverTurnConfirmed, RecoverHandle, disk
<1>7. CASE \/ RecoverThreadCompletes \/ BeginReattach
           \/ \E d \in Dialogues : Reattach(d)
           \/ \E d \in Dialogues : ReattachFails(d)
           \/ EndRecovery \/ WriteRaises
  BY <1>7
     DEF RecoverThreadCompletes, BeginReattach, Reattach, ReattachFails,
         EndRecovery, WriteRaises, disk
<1>8. CASE \/ OtherCall \/ ServerEnds
  BY <1>8 DEF OtherCall, ServerEnds, disk
<1>9. CASE UNCHANGED vars
  BY <1>9 DEF vars, disk
<1> QED
  BY <1>1, <1>2, <1>3, <1>4, <1>5, <1>6, <1>7, <1>8, <1>9
     DEF Next, Start, Reply, Finalize, Recover

(* When the next turn is numbered, the local store knows of one already or *)
(* there is none.                                                          *)
LEMMA NextSequenceIs ==
  ASSUME TypeInv, HandleInv, TurnInv, NEW d \in Dialogues,
         Serving, handle[d].status = "active"
  PROVE  /\ NextSequence(d) = Len(thread[d]) + 1
         /\ NextSequence(d) > 1 => ~ FastPath(d)
<1>1. thread[d] \in Seq(Prompts) /\ Len(thread[d]) \in Nat
  BY DEF TypeInv, StoreShapes
<1>2. CASE ~ FastPath(d)
  BY <1>1, <1>2 DEF NextSequence
<1>3. CASE FastPath(d)
  <2>1. thread[d] = <<>>
    <3> SUFFICES ASSUME thread[d] # <<>> PROVE FALSE
      OBVIOUS
    <3>1. 1 \in DOMAIN thread[d]
      BY <1>1
    <3>2. ~ Kept(d, 1)
      BY <1>3 DEF FastPath, Kept
    <3>3. Accounted(d, 1)
      BY <3>1, <3>2 DEF TurnInv, DebtInv
    <3> QED
      BY <1>3, <3>3 DEF Accounted, Serving, At
  <2>2. Len(thread[d]) = 0
    BY <2>1
  <2> QED
    BY <1>3, <2>2 DEF NextSequence
<1> QED
  BY <1>2, <1>3

(* How a step moves the call of a turn: a reply begins one, the recovery    *)
(* takes one up, or the same turn goes on.                                 *)
LEMMA CallStep ==
  ASSUME TypeInv, [Next]_vars, call'.pc \in TurnSteps
  PROVE  \/ \E d \in Dialogues : ReplyIntent(d) /\ call'.pc = "running"
         \/ \E i \in todo : RecoverTurnConfirmed(i) /\ call'.pc = "storing"
         \/ WriteDispatched /\ call'.pc = "storing" /\ call.pc = "ran"
         \/ RunTurn /\ call'.pc = "ran" /\ call.pc = "running"
         \/ RunTurnRaises /\ call'.pc = "repairing" /\ call.pc = "running"
         \/ RepairConfirmed /\ call'.pc = "storing" /\ call.pc = "repairing"
         \/ FinalizeStores /\ call'.pc = "auditing" /\ call.pc = "storing"
         \/ FinalizeAudits /\ call'.pc = "reporting" /\ call.pc = "auditing"
         \/ FinalizeReports /\ call'.pc = "closing" /\ call.pc = "reporting"
         \/ FinalizeCompletes /\ call'.pc = "resuming" /\ call.pc = "closing"
         \/ call' = call /\ journal' = journal /\ thread' = thread
         \/ call' = call /\ call'.pc = "idle"
<1>0. CallShape
  BY DEF TypeInv
<1>1. CASE \E d \in Dialogues : StartIntent(d)
  BY <1>0, <1>1
     DEF StartIntent, CallShape, Idle, StartSteps, ReplySteps, FinalSteps,
         TurnSteps, RecoverySteps
<1>2. CASE StartThread
  BY <1>0, <1>2
     DEF StartThread, At, GoTo, CallShape, Idle, StartSteps, ReplySteps,
         FinalSteps, TurnSteps, RecoverySteps
<1>3. CASE StartThreadRaises
  BY <1>3 DEF StartThreadRaises, Idle, ReplySteps, FinalSteps, TurnSteps
<1>4. CASE StartCreatesHandle
  BY <1>0, <1>4
     DEF StartCreatesHandle, At, GoTo, CallShape, Idle, StartSteps,
         ReplySteps, FinalSteps, TurnSteps, RecoverySteps
<1>5. CASE StartCompletes
  BY <1>5 DEF StartCompletes, Idle, ReplySteps, FinalSteps, TurnSteps
<1>6. CASE \E d \in Dialogues : ReplyIntent(d)
  BY <1>6 DEF ReplyIntent, Idle
<1>7. CASE \E d \in Dialogues : ReplyQuarantines(d)
  BY <1>7 DEF ReplyQuarantines, Serving, At, ReplySteps, FinalSteps, TurnSteps
<1>8. CASE RunTurn
  BY <1>0, <1>8 DEF RunTurn, At, CallShape, Idle
<1>9. CASE RunTurnRaises
  BY <1>0, <1>9 DEF RunTurnRaises, At, GoTo, CallShape, Idle
<1>10. CASE WriteDispatched
  BY <1>0, <1>10 DEF WriteDispatched, At, CallShape, Idle
<1>11. CASE RepairUnconfirmed
  BY <1>11 DEF RepairUnconfirmed, Idle, ReplySteps, FinalSteps, TurnSteps
<1>12. CASE RepairConfirmed
  BY <1>0, <1>12 DEF RepairConfirmed, At, CallShape, Idle
<1>13. CASE ResumeInline
  BY <1>13 DEF ResumeInline, Idle, ReplySteps, FinalSteps, TurnSteps
<1>14. CASE ResumeInlineFails
  BY <1>14 DEF ResumeInlineFails, Idle, ReplySteps, FinalSteps, TurnSteps
<1>15. CASE FinalizeStores
  BY <1>0, <1>15 DEF FinalizeStores, At, GoTo, CallShape, Idle
<1>16. CASE FinalizeAudits
  BY <1>0, <1>16 DEF FinalizeAudits, At, GoTo, CallShape, Idle
<1>17. CASE FinalizeReports
  BY <1>0, <1>17 DEF FinalizeReports, At, GoTo, CallShape, Idle
<1>18. CASE FinalizeCompletes
  <2>1. CASE call' = Idle
    BY <2>1 DEF Idle, ReplySteps, FinalSteps, TurnSteps
  <2>2. CASE GoTo("resuming")
    BY <1>0, <2>2, <1>18 DEF FinalizeCompletes, At, GoTo, CallShape, Idle
  <2> QED
    BY <1>18, <2>1, <2>2 DEF FinalizeCompletes, NextEntry
<1>19. CASE FinalizeRaises
  BY <1>19
     DEF FinalizeRaises, NextEntry, Idle, ReplySteps, FinalSteps, TurnSteps
<1>20. CASE BeginRecovery
  BY <1>20 DEF BeginRecovery, disk
<1>21. CASE \E i \in todo : RecoverThreadIntent(i)
  BY <1>21
     DEF RecoverThreadIntent, Reconciling, At, ReplySteps, FinalSteps, TurnSteps
<1>22. CASE \E i \in todo : RecoverThread(i)
  BY <1>0, <1>22
     DEF RecoverThread, CallShape, Idle, StartSteps, ReplySteps, FinalSteps,
         TurnSteps, RecoverySteps
<1>23. CASE \E i \in todo : RecoveryRaises(i)
  BY <1>23 DEF RecoveryRaises, Abandon, Idle, ReplySteps, FinalSteps, TurnSteps
<1>24. CASE \E i \in todo : RecoverTurnUnconfirmed(i)
  BY <1>24
     DEF RecoverTurnUnconfirmed, Reconciling, At, ReplySteps, FinalSteps,
         TurnSteps
<1>25. CASE \E i \in todo : RecoverTurnConfirmed(i)
  BY <1>25 DEF RecoverTurnConfirmed, Idle
<1>26. CASE RecoverHandle
  BY <1>0, <1>26
     DEF RecoverHandle, At, GoTo, CallShape, Idle, StartSteps, ReplySteps,
         FinalSteps, TurnSteps, RecoverySteps
<1>27. CASE RecoverThreadCompletes
  BY <1>27
     DEF RecoverThreadCompletes, NextEntry, Idle, ReplySteps, FinalSteps,
         TurnSteps
<1>28. CASE BeginReattach
  BY <1>28 DEF BeginReattach, disk
<1>29. CASE \E d \in Dialogues : Reattach(d)
  BY <1>29 DEF Reattach
<1>30. CASE \E d \in Dialogues : ReattachFails(d)
  BY <1>30 DEF ReattachFails
<1>31. CASE EndRecovery
  BY <1>31 DEF EndRecovery, disk
<1>32. CASE WriteRaises
  BY <1>32 DEF WriteRaises, Abandon, Idle, ReplySteps, FinalSteps, TurnSteps
<1>33. CASE OtherCall
  BY <1>33 DEF OtherCall, Serving, At, ReplySteps, FinalSteps, TurnSteps
<1>34. CASE ServerEnds
  BY <1>34 DEF ServerEnds, Abandon, Idle, ReplySteps, FinalSteps, TurnSteps
<1>35. CASE UNCHANGED vars
  BY <1>35 DEF vars, disk, memory
<1> QED
  BY <1>1, <1>2, <1>3, <1>4, <1>5, <1>6, <1>7, <1>8, <1>9, <1>10, <1>11,
     <1>12, <1>13, <1>14, <1>15, <1>16, <1>17, <1>18, <1>19, <1>20, <1>21,
     <1>22, <1>23, <1>24, <1>25, <1>26, <1>27, <1>28, <1>29, <1>30, <1>31,
     <1>32, <1>33, <1>34, <1>35
     DEF Next, Start, Reply, Finalize, Recover

LEMMA EntryInvKept ==
  ASSUME TypeInv, EntryInv, [Next]_vars
  PROVE  EntryInv'
<1>0. CallShape /\ journal \in Seq(Entry)
  BY DEF TypeInv, StoreShapes
<1> SUFFICES ASSUME call'.pc \in TurnSteps \ {"resuming"}
             PROVE  /\ \E i \in DOMAIN journal' : journal'[i] = call'.entry
                    /\ call'.pc \in {"running", "ran"} => call'.entry.phase = "intent"
  BY DEF EntryInv, TurnSteps, ReplySteps
<1>1. ASSUME NEW d \in Dialogues, ReplyIntent(d)
      PROVE  /\ \E i \in DOMAIN journal' : journal'[i] = call'.entry
             /\ call'.entry.phase = "intent"
  <2> DEFINE e == [op |-> "turn_dispatch", of |-> d, runtime |-> runtime',
                   seq |-> NextSequence(d), size |-> prompts', phase |-> "intent"]
  <2>1. call'.entry = e /\ WritePhase(e) /\ e.phase = "intent"
    BY <1>1 DEF ReplyIntent, Idle
  <2>2. CallShape' /\ call'.pc # "idle"
    BY CallKept DEF TurnSteps, ReplySteps, FinalSteps
  <2>3. e \in Entry
    BY <2>1, <2>2 DEF CallShape, Idle
  <2> HIDE DEF e
  <2> QED
    BY <1>0, <2>1, <2>3, WriteEffect
<1>2. ASSUME NEW i \in todo, RecoverTurnConfirmed(i), call'.pc = "storing"
      PROVE  \E k \in DOMAIN journal' : journal'[k] = call'.entry
  BY <1>2
     DEF RecoverTurnConfirmed, Idle, disk, TypeInv, ServerShapes, Unresolved
<1>3. ASSUME WriteDispatched
      PROVE  \E i \in DOMAIN journal' : journal'[i] = call'.entry
  <2> DEFINE e == [call.entry EXCEPT !.phase = "dispatched"]
  <2>1. call.entry \in Entry
    BY <1>0, <1>3, CallIs DEF WriteDispatched, At
  <2>2. e \in Entry
    BY <2>1 DEF Entry
  <2>3. WritePhase(e) /\ call'.entry = e
    BY <1>0, <1>3 DEF WriteDispatched, At, CallShape, Idle
  <2> HIDE DEF e
  <2> QED
    BY <1>0, <2>2, <2>3, WriteEffect
<1>4. ASSUME \/ RunTurn \/ RunTurnRaises \/ RepairConfirmed
             \/ FinalizeStores \/ FinalizeAudits \/ FinalizeReports
      PROVE  /\ journal' = journal /\ call'.entry = call.entry
             /\ call.pc \in TurnSteps \ {"resuming"}
  BY <1>0, <1>4 DEF RunTurn, RunTurnRaises, RepairConfirmed, FinalizeStores,
                    FinalizeAudits, FinalizeReports, At, GoTo, CallShape, Idle,
                    disk, TurnSteps, ReplySteps, FinalSteps
<1>5. ASSUME call' = call, journal' = journal
      PROVE  /\ \E i \in DOMAIN journal' : journal'[i] = call'.entry
             /\ call'.pc \in {"running", "ran"} => call'.entry.phase = "intent"
  BY <1>5 DEF EntryInv
<1> QED
  BY <1>1, <1>2, <1>3, <1>4, <1>5, CallStep
     DEF EntryInv, TurnSteps, ReplySteps, FinalSteps

LEMMA NumberInvKept ==
  ASSUME TypeInv, HandleInv, TurnInv, "exit" \notin FaultKinds, [Next]_vars
  PROVE  NumberInv'
<1>0. /\ CallShape /\ StoreShapes /\ NumberInv /\ ServerShapes /\ JournalShape
  BY DEF TypeInv, TurnInv
<1> DEFINE G == /\ call'.pc \in {"running", "ran"} /\ call'.entry.seq > 1
                      => ~ FastPath(call.of)'
                /\ call'.pc = "running"
                      => call'.entry.seq = Len(thread'[call'.of]) + 1
                /\ call'.pc \in {"ran"} \cup FinalSteps =>
                      /\ call'.entry.seq \in DOMAIN thread'[call'.of]
                      /\ call'.turn = thread'[call'.of][call'.entry.seq]
<1> SUFFICES ASSUME call'.pc \in TurnSteps
             PROVE  G
  BY DEF NumberInv, TurnNumberIsNext, At, TurnSteps, ReplySteps
<1>1. ASSUME NEW d \in Dialogues, ReplyIntent(d), call'.pc = "running"
      PROVE  G
  <2>1. /\ call'.of = d /\ call'.entry.seq = NextSequence(d)
        /\ thread' = thread /\ turnFile' = turnFile
    BY <1>1 DEF ReplyIntent, Idle
  <2>2. /\ NextSequence(d) = Len(thread[d]) + 1
        /\ NextSequence(d) > 1 => ~ FastPath(d)
    BY <1>1, NextSequenceIs DEF ReplyIntent
  <2>3. ~ FastPath(d) => ~ FastPath(call.of)'
    BY <2>1 DEF FastPath, Recorded, Readable, Diagnosed
  <2> QED
    BY <1>1, <2>1, <2>2, <2>3 DEF FinalSteps
<1>2. ASSUME NEW i \in todo, RecoverTurnConfirmed(i), call'.pc = "storing"
      PROVE  G
  <2>1. journal[i] \in Entry /\ OpenTurn(journal[i]) /\ journal[i].of \in Dialogues
    <3>1. journal[i] \in Entry /\ i \in DOMAIN journal /\ journal[i].phase # "completed"
      BY <1>0 DEF StoreShapes, ServerShapes, Unresolved
    <3> QED
      BY <1>0, <1>2, <3>1
         DEF JournalShape, RecoverTurnConfirmed, Reconciling, Entry
  <2>2. /\ call'.of = journal[i].of /\ call'.entry = journal[i]
        /\ call'.turn = thread[journal[i].of][journal[i].seq]
        /\ thread' = thread /\ Len(thread[journal[i].of]) >= journal[i].seq
    BY <1>2 DEF RecoverTurnConfirmed, Confirmed, Idle
  <2>3. journal[i].seq \in DOMAIN thread[journal[i].of]
    BY <1>0, <2>1, <2>2, DialogueAssumption DEF StoreShapes, OpenTurn, Prompts
  <2> QED
    BY <1>2, <2>2, <2>3
<1>3. ASSUME RunTurn, call'.pc = "ran", call.pc = "running"
      PROVE  G
  <2>1. /\ call.of \in Dialogues /\ call.entry.size \in Prompts
        /\ call.entry.seq = Len(thread[call.of]) + 1
    BY <1>0, <1>3, CallIs
       DEF NumberInv, TurnNumberIsNext, At, TurnSteps, ReplySteps, OpenTurn
  <2>2. /\ call'.of = call.of /\ call'.entry = call.entry
        /\ call'.turn = call.entry.size /\ turnFile' = turnFile
    BY <1>0, <1>3 DEF RunTurn, CallShape, Idle, disk
  <2>3. /\ Len(thread'[call.of]) = Len(thread[call.of]) + 1
        /\ thread'[call.of][call.entry.seq] = call.entry.size
        /\ Len(thread[call.of]) \in Nat
        /\ DOMAIN thread'[call.of] = 1..Len(thread'[call.of])
    BY <1>0, <1>3, <2>1, TurnEffect, ThreadGrows DEF RunTurn, StoreShapes
  <2>4. call.entry.seq > 1 => ~ FastPath(call.of)
    BY <1>0, <1>3 DEF NumberInv
  <2>5. ~ FastPath(call.of) => ~ FastPath(call.of)'
    BY <2>2 DEF FastPath, Recorded, Readable, Diagnosed
  <2>6. call.entry.seq \in DOMAIN thread'[call.of]
    BY <2>1, <2>3
  <2> QED
    BY <1>3, <2>2, <2>3, <2>4, <2>5, <2>6
<1>4. ASSUME RepairConfirmed, call'.pc = "storing", call.pc = "repairing"
      PROVE  G
  <2>1. call.of \in Dialogues /\ call.entry.seq \in Prompts /\ call.entry.of = call.of
    BY <1>0, <1>4, CallIs DEF TurnSteps, ReplySteps, OpenTurn
  <2>2. /\ call'.of = call.of /\ call'.entry = call.entry
        /\ call'.turn = thread[call.of][call.entry.seq]
        /\ thread' = thread /\ Len(thread[call.of]) >= call.entry.seq
    BY <1>0, <1>4, <2>1 DEF RepairConfirmed, Confirmed, CallShape, Idle
  <2>3. call.entry.seq \in DOMAIN thread[call.of]
    BY <1>0, <2>1, <2>2, DialogueAssumption DEF StoreShapes, Prompts
  <2> QED
    BY <1>4, <2>2, <2>3
<1>5. ASSUME WriteDispatched, call'.pc = "storing", call.pc = "ran"
      PROVE  G
  <2>1. call.entry \in Entry
    BY <1>0, <1>5, CallIs
  <2>2. /\ call'.of = call.of /\ call'.entry.seq = call.entry.seq
        /\ call'.turn = call.turn /\ thread' = thread
    BY <1>0, <1>5, <2>1 DEF WriteDispatched, CallShape, Idle, Entry
  <2> QED
    BY <1>0, <1>5, <2>2 DEF NumberInv
<1>6. ASSUME FinalizeStores \/ FinalizeAudits \/ FinalizeReports
      PROVE  G
  <2>1. /\ call'.of = call.of /\ call'.entry = call.entry
        /\ call'.turn = call.turn /\ thread' = thread
        /\ call.pc \in FinalSteps /\ call'.pc \in FinalSteps
    BY <1>0, <1>6 DEF FinalizeStores, FinalizeAudits, FinalizeReports, At, GoTo,
                      CallShape, Idle, FinalSteps
  <2> QED
    BY <1>0, <2>1 DEF NumberInv, FinalSteps
<1>7. ASSUME call'.pc \in {"repairing", "resuming"}
      PROVE  G
  BY <1>7 DEF FinalSteps
<1>8. ASSUME call' = call, thread' = thread
      PROVE  G
  <2>1. \A d : ~ FastPath(d) => ~ FastPath(d)'
    BY SlowPathStays
  <2>2. FastPath(call.of)' => FastPath(call.of)
    <3>1. PICK d : d = call.of
      OBVIOUS
    <3>2. FastPath(d)' => FastPath(d)
      BY <2>1
    <3> QED
      BY <1>8, <3>1, <3>2 DEF FastPath, Recorded, Readable, Diagnosed
  <2> QED
    BY <1>0, <1>8, <2>2 DEF NumberInv, TurnNumberIsNext, At
<1>9. ~ (call' = call /\ call'.pc = "idle")
  BY DEF TurnSteps, ReplySteps, FinalSteps
<1> HIDE DEF G
<1> QED
  BY <1>1, <1>2, <1>3, <1>4, <1>5, <1>6, <1>7, <1>8, <1>9, CallStep

LEMMA FinalInvKept ==
  ASSUME TypeInv, HandleInv, TurnInv, "exit" \notin FaultKinds, [Next]_vars
  PROVE  FinalInv'
<1>0. CallShape /\ StoreShapes /\ FinalInv
  BY DEF TypeInv, TurnInv
<1> DEFINE G == /\ call'.pc \in {"auditing", "reporting", "closing"} =>
                      Kept(call.of, call.entry.seq)'
                /\ call'.pc \in {"reporting", "closing"} => audits'[call'.turn] = 1
                /\ call'.pc = "closing" => outcomes'[call'.turn] = 1
<1> SUFFICES ASSUME call'.pc \in TurnSteps
             PROVE  G
  BY DEF FinalInv, TurnSteps, FinalSteps
<1>1. ASSUME FinalizeStores, call'.pc = "auditing", call.pc = "storing"
      PROVE  G
  <2> DEFINE line == [of |-> call.of, seq |-> call.entry.seq,
                      size |-> call.entry.size, valid |-> TRUE]
  <2>1. call.of \in Dialogues /\ OpenTurn(call.entry)
    BY <1>0, <1>1, CallIs DEF TurnSteps, FinalSteps
  <2>2. line \in Line
    BY <2>1 DEF Line, OpenTurn
  <2>3. turnFile' = Appended(line) /\ call'.of = call.of /\ call'.entry = call.entry
    BY <1>0, <1>1 DEF FinalizeStores, GoTo, CallShape, Idle
  <2>4. /\ unended => \E k \in DOMAIN turnFile' : ~ turnFile'[k].valid
        /\ ~ unended => \E k \in DOMAIN turnFile' : turnFile'[k] = line
    BY <1>0, <2>2, <2>3, AppendedEffect DEF StoreShapes
  <2>5. Diagnosed' \/ \E k \in DOMAIN turnFile' :
                          /\ turnFile'[k].valid /\ turnFile'[k].of = call'.of
                          /\ turnFile'[k].seq = call'.entry.seq
    <3>1. CASE unended
      BY <2>4, <3>1 DEF Diagnosed
    <3>2. CASE ~ unended
      <4>1. line.valid /\ line.of = call'.of /\ line.seq = call'.entry.seq
        BY <2>3
      <4> HIDE DEF line
      <4> QED
        BY <2>4, <3>2, <4>1
    <3> QED
      BY <3>1, <3>2
  <2>6. Kept(call.of, call.entry.seq)'
    BY <2>5 DEF Kept, Recorded, Readable
  <2> QED
    BY <1>1, <2>6
<1>2. ASSUME call'.of = call.of, call'.entry = call.entry,
             Kept(call.of, call.entry.seq)
      PROVE  Kept(call.of, call.entry.seq)'
  <2>1. PICK d, s : d = call.of /\ s = call.entry.seq
    OBVIOUS
  <2>2. Kept(d, s)'
    BY <1>2, <2>1, KeptStays
  <2>3. d = call'.of /\ s = call'.entry.seq
    BY <1>2, <2>1
  <2> QED
    BY <2>2, <2>3 DEF Kept, Recorded, Readable, Diagnosed
<1>3. ASSUME FinalizeAudits, call'.pc = "reporting", call.pc = "auditing"
      PROVE  G
  <2>1. call'.of = call.of /\ call'.entry = call.entry /\ call'.turn = call.turn
    BY <1>0, <1>3 DEF FinalizeAudits, GoTo, CallShape, Idle
  <2>2. call.turn \in Prompts
    BY <1>0, <1>3, CallIs DEF FinalSteps
  <2>3. audits'[call.turn] = 1
    BY <1>0, <1>3, <2>2, OnceEffect DEF FinalizeAudits, StoreShapes
  <2> QED
    BY <1>0, <1>2, <1>3, <2>1, <2>3 DEF FinalInv
<1>4. ASSUME FinalizeReports, call'.pc = "closing", call.pc = "reporting"
      PROVE  G
  <2>1. call'.of = call.of /\ call'.entry = call.entry /\ call'.turn = call.turn
    BY <1>0, <1>4 DEF FinalizeReports, GoTo, CallShape, Idle
  <2>2. call.turn \in Prompts
    BY <1>0, <1>4, CallIs DEF FinalSteps
  <2>3. outcomes'[call.turn] = 1 /\ audits'[call.turn] = 1
    BY <1>0, <1>4, <2>2, OnceEffect DEF FinalizeReports, StoreShapes, FinalInv
  <2> QED
    BY <1>0, <1>2, <1>4, <2>1, <2>3 DEF FinalInv
<1>5. ASSUME call' = call
      PROVE  G
  <2>1. call.pc \in {"reporting", "closing"} => call.turn \in Prompts
    BY <1>0, CallIs DEF FinalSteps
  <2>2. call.pc \in {"reporting", "closing"} =>
           /\ audits[call.turn] = 1 => audits'[call.turn] = 1
           /\ outcomes[call.turn] = 1 => outcomes'[call.turn] = 1
    BY <2>1, LogsGrow
  <2> QED
    BY <1>0, <1>2, <1>5, <2>2 DEF FinalInv
<1>6. ASSUME call'.pc \in {"running", "ran", "repairing", "storing", "resuming"}
      PROVE  G
  BY <1>6
<1>7. ~ (call' = call /\ call'.pc = "idle")
  BY DEF TurnSteps, ReplySteps, FinalSteps
<1> HIDE DEF G
<1> QED
  BY <1>1, <1>3, <1>4, <1>5, <1>6, <1>7, CallStep

LEMMA CompletedTurnsKept ==
  ASSUME TypeInv, HandleInv, TurnInv, "exit" \notin FaultKinds, [Next]_vars
  PROVE  CompletedTurnIsFinalized'
<1> DEFINE Fin(d, s) == /\ s \in DOMAIN thread[d]
                        /\ s \in Recorded(d) \/ Diagnosed
                        /\ audits[thread[d][s]] = 1
                        /\ outcomes[thread[d][s]] = 1
<1>1. ASSUME NEW d \in Dialogues, NEW s, Fin(d, s)
      PROVE  Fin(d, s)'
  <2>1. s \in DOMAIN thread'[d] /\ thread'[d][s] = thread[d][s]
    BY <1>1, ThreadGrows
  <2>2. Kept(d, s)'
    BY <1>1, KeptStays DEF Kept
  <2>3. thread[d][s] \in Prompts
    BY <1>1 DEF TypeInv, StoreShapes
  <2>4. audits'[thread[d][s]] = 1 /\ outcomes'[thread[d][s]] = 1
    BY <1>1, <2>3, LogsGrow
  <2> QED
    BY <2>1, <2>2, <2>4 DEF Kept
<1>2. ASSUME NEW k \in DOMAIN journal', journal'[k].op = "turn_dispatch",
             journal'[k].phase = "completed"
      PROVE  /\ journal'[k].of \in Dialogues
             /\ Fin(journal'[k].of, journal'[k].seq)
  <2>0. journal'[k] \in Entry /\ journal'[k].of \in Dialogues
    <3>1. journal'[k] \in Entry
      BY JournalKept DEF TypeInv
    <3> QED
      BY <3>1 DEF Entry
  <2>1. ASSUME k \in DOMAIN journal, journal'[k] = journal[k]
        PROVE  Fin(journal'[k].of, journal'[k].seq)
    BY <1>2, <2>1 DEF TurnInv, CompletedTurnIsFinalized
  <2>2. ASSUME NEW e \in Entry, WritePhase(e), journal'[k] = e,
               call.pc = "closing", e.of = call.of, e.seq = call.entry.seq
        PROVE  Fin(journal'[k].of, journal'[k].seq)
    BY <1>2, <2>2 DEF TurnInv, NumberInv, FinalInv, FinalSteps, Kept
  <2>3. ASSUME NEW e \in Entry, WritePhase(e)
        PROVE  journal'[k] = e \/ (k \in DOMAIN journal /\ journal'[k] = journal[k])
    BY <2>3, WriteEffect DEF TypeInv, StoreShapes
  <2> HIDE DEF Fin
  <2> QED
    BY <1>2, <2>0, <2>1, <2>2, <2>3, JournalStep
<1>3. ASSUME NEW k \in DOMAIN journal', journal'[k].op = "turn_dispatch",
             journal'[k].phase = "completed", NEW d, NEW s,
             d = journal'[k].of, s = journal'[k].seq
      PROVE  Fin(d, s)'
  <2>1. d \in Dialogues /\ Fin(d, s)
    BY <1>2, <1>3
  <2> QED
    BY <1>1, <2>1
<1> QED
  BY <1>3 DEF CompletedTurnIsFinalized

(* Who accounts for a remote turn after a step.                            *)

(* The intent of turn s is still in the journal, whoever writes to it.     *)
LEMMA IntentStays ==
  ASSUME TypeInv, [Next]_vars, NEW d, NEW s, NEW i \in DOMAIN journal,
         Names(journal[i], d, s), journal[i].phase = "intent",
         ~ (call.pc \in {"ran", "closing"} /\ call.of = d /\ call.entry.seq = s)
  PROVE  /\ i \in DOMAIN journal' /\ Names(journal'[i], d, s)
         /\ journal'[i].phase = "intent"
<1>1. CASE journal' = journal
  BY <1>1
<1>2. ASSUME NEW e \in Entry, WritePhase(e),
             e.op = "turn_dispatch" =>
                 \/ e.phase = "intent"
                 \/ /\ call.pc \in {"ran", "closing"}
                    /\ e.of = call.of /\ e.seq = call.entry.seq
      PROVE  /\ i \in DOMAIN journal' /\ Names(journal'[i], d, s)
             /\ journal'[i].phase = "intent"
  <2>1. i \in DOMAIN journal' /\ journal'[i] = IF SameKey(journal[i], e) THEN e ELSE journal[i]
    BY <1>2, WriteEffect DEF TypeInv, StoreShapes
  <2>2. CASE SameKey(journal[i], e)
    BY <1>2, <2>1, <2>2 DEF Names, SameKey
  <2>3. CASE ~ SameKey(journal[i], e)
    BY <2>1, <2>3
  <2> QED
    BY <2>2, <2>3
<1> QED
  BY <1>1, <1>2, JournalStep

(* The running turn adds its own number to the thread, and no other.      *)
LEMMA NewDebt ==
  ASSUME TypeInv, HandleInv, TurnInv, [Next]_vars,
         call.pc = "running", TurnCompletes
  PROVE  /\ call.of \in Dialogues
         /\ DOMAIN thread'[call.of] = DOMAIN thread[call.of] \cup {call.entry.seq}
<1>1. /\ call.of \in Dialogues /\ call.entry.size \in Prompts
      /\ call.entry.seq = Len(thread[call.of]) + 1
  BY CallIs DEF TypeInv, TurnInv, NumberInv, TurnNumberIsNext, At, TurnSteps,
                ReplySteps, OpenTurn
<1>2. /\ Len(thread'[call.of]) = Len(thread[call.of]) + 1
      /\ Len(thread[call.of]) \in Nat
      /\ DOMAIN thread[call.of] = 1..Len(thread[call.of])
      /\ DOMAIN thread'[call.of] = 1..Len(thread'[call.of])
  BY <1>1, TurnEffect, ThreadGrows DEF TypeInv, StoreShapes
<1> QED
  BY <1>1, <1>2

LEMMA OpenEntryOfCall ==
  ASSUME TypeInv, TurnInv, call.pc \in TurnSteps \ {"resuming"}
  PROVE  \E i \in Unresolved : Names(journal[i], call.of, call.entry.seq)
<1>1. PICK i \in DOMAIN journal : journal[i] = call.entry
  BY DEF TurnInv, EntryInv
<1>2. OpenTurn(call.entry) /\ call.entry.of = call.of
  BY CallIs DEF TypeInv, TurnSteps, ReplySteps, FinalSteps
<1> QED
  BY <1>1, <1>2 DEF Unresolved, Names, OpenTurn

(* Step by step: the call that has a debt passes it on, and recovery takes *)
(* over what a dead server leaves.                                         *)
LEMMA DebtMoves ==
  ASSUME TypeInv, HandleInv, TurnInv, [Next]_vars,
         "exit" \notin FaultKinds, "first" \notin FaultKinds,
         NEW d \in Dialogues, NEW s,
         handle'[d].status = "active", ~ Kept(d, s), Accounted(d, s), ~ Kept(d, s)'
  PROVE  Accounted(d, s)'
<1>0. /\ StoreShapes /\ ServerShapes /\ CallShape /\ CallIsServed
      /\ handle \in Handles /\ DOMAIN journal \subseteq Nat
  BY DEF TypeInv, StoreShapes, Handles
<1> DEFINE Mine    == /\ call.pc \in {"ran", "repairing", "storing"}
                      /\ call.of = d /\ call.entry.seq = s
           Waits   == /\ ~ FastPath(d)
                      /\ \E i \in DOMAIN journal :
                            Names(journal[i], d, s) /\ journal[i].phase = "intent"
           Open    == \E i \in Unresolved : Names(journal[i], d, s)
           Taken   == \E i \in todo : Names(journal[i], d, s)
<1>a. /\ Accounted(d, s) <=> \/ Mine
                             \/ server = "ready" /\ Waits
                             \/ server = "cold" /\ Open
                             \/ server = "reconciling" /\ Taken
      /\ Accounted(d, s)' <=> \/ Mine'
                              \/ server' = "ready" /\ Waits'
                              \/ server' = "cold" /\ Open'
                              \/ server' = "reconciling" /\ Taken'
  BY DEF Accounted
<1>b. Waits /\ call.pc \notin {"ran", "closing"} => Waits'
  BY IntentStays, SlowPathStays
<1>c. /\ call.pc \in {"running", "ran", "repairing", "auditing", "reporting",
                      "starting", "creating", "closing_start", "resuming"}
         => server \in {"ready", "reconciling"}
      /\ call.pc \in {"starting", "creating", "closing_start", "running", "ran",
                      "repairing", "resuming"} => server = "ready"
      /\ call.pc \in {"binding", "closing_thread"} => server = "reconciling"
      /\ call.pc \in FinalSteps => server \in {"ready", "reconciling"}
  BY <1>0 DEF CallIsServed, StartSteps, ReplySteps, FinalSteps, RecoverySteps
<1>d. Mine => server \in {"ready", "reconciling"} /\ Open
  BY <1>0, <1>c, OpenEntryOfCall DEF TurnSteps, ReplySteps, FinalSteps
<1>e. Waits => Open
  BY DEF Unresolved
<1>f. Taken => Open
  BY <1>0 DEF ServerShapes
<1>g. call.pc = "closing" => ~ (call.of = d /\ call.entry.seq = s)
  BY DEF TurnInv, FinalInv
<1>h. Waits /\ ~ (call.pc = "ran" /\ call.of = d /\ call.entry.seq = s) => Waits'
  BY <1>g, IntentStays, SlowPathStays
<1>i. ASSUME UNCHANGED <<journal, todo>> PROVE (Open => Open') /\ (Taken => Taken')
  BY <1>i DEF Unresolved
<1> HIDE DEF Mine, Waits, Open, Taken
<1>1. CASE \E c \in Dialogues : StartIntent(c)
  <2>0. PICK c \in Dialogues : StartIntent(c)
    BY <1>1
  <2>1. server = "ready" /\ server' = "ready" /\ ~ Mine
    BY <1>c, <2>0 DEF StartIntent, At, Serving, Mine
  <2> QED
    BY <1>a, <1>h, <2>1, <2>0 DEF StartIntent, At, Serving, Mine
<1>2. CASE StartThread
  <2>1. server = "ready" /\ server' = "ready" /\ ~ Mine
    BY <1>c, <1>2 DEF StartThread, At, Mine
  <2> QED
    BY <1>a, <1>h, <2>1, <1>2 DEF StartThread, At, Mine
<1>3. CASE StartThreadRaises
  <2>1. server = "ready" /\ server' = "ready" /\ ~ Mine
    BY <1>c, <1>3 DEF StartThreadRaises, At, Mine
  <2> QED
    BY <1>a, <1>h, <2>1, <1>3 DEF StartThreadRaises, At, Mine
<1>4. CASE StartCreatesHandle
  <2>1. server = "ready" /\ server' = "ready" /\ ~ Mine
    BY <1>c, <1>4 DEF StartCreatesHandle, At, Mine
  <2> QED
    BY <1>a, <1>h, <2>1, <1>4 DEF StartCreatesHandle, At, Mine
<1>5. CASE StartCompletes
  <2>1. server = "ready" /\ server' = "ready" /\ ~ Mine
    BY <1>c, <1>5 DEF StartCompletes, At, Mine
  <2> QED
    BY <1>a, <1>h, <2>1, <1>5 DEF StartCompletes, At, Mine
<1>6. CASE \E c \in Dialogues : ReplyIntent(c)
  <2>0. PICK c \in Dialogues : ReplyIntent(c)
    BY <1>6
  <2>1. server = "ready" /\ server' = "ready" /\ ~ Mine
    BY <1>c, <2>0 DEF ReplyIntent, At, Serving, Mine
  <2> QED
    BY <1>a, <1>h, <2>1, <2>0 DEF ReplyIntent, At, Serving, Mine
<1>7. CASE \E c \in Dialogues : ReplyQuarantines(c)
  <2>0. PICK c \in Dialogues : ReplyQuarantines(c)
    BY <1>7
  <2>1. server = "ready" /\ server' = "ready" /\ ~ Mine
    BY <1>c, <2>0 DEF ReplyQuarantines, At, Serving, Mine
  <2> QED
    BY <1>a, <1>h, <2>1, <2>0 DEF ReplyQuarantines, At, Serving, Mine
<1>8. CASE RunTurn
  <2>1. server = "ready" /\ server' = "ready" /\ ~ Mine
    BY <1>c, <1>8 DEF RunTurn, At, Mine
  <2> QED
    BY <1>a, <1>h, <2>1, <1>8 DEF RunTurn, At
<1>9. CASE RunTurnRaises
  <2>1. server = "ready" /\ server' = "ready" /\ ~ Mine
    BY <1>c, <1>9 DEF RunTurnRaises, At, Mine
  <2> QED
    BY <1>a, <1>h, <2>1, <1>9 DEF RunTurnRaises, At
<1>10. CASE WriteDispatched
  <2>1. server = "ready" /\ server' = "ready" /\ call.entry \in Entry
    BY <1>0, <1>c, <1>10, CallIs DEF WriteDispatched, At
  <2>2. /\ call'.pc = "storing" /\ call'.of = call.of
        /\ call'.entry.seq = call.entry.seq
    BY <1>0, <2>1, <1>10 DEF WriteDispatched, At, CallShape, Idle, Entry
  <2>3. CASE call.of = d /\ call.entry.seq = s
    BY <1>a, <2>2, <2>3 DEF Mine
  <2>4. CASE ~ (call.of = d /\ call.entry.seq = s)
    <3>1. ~ Mine
      BY <2>4 DEF Mine
    <3> QED
      BY <1>a, <1>h, <2>1, <2>4, <3>1
  <2> QED
    BY <2>3, <2>4
<1>11. CASE RepairUnconfirmed
  <2>1. server = "ready" /\ server' = "ready"
    BY <1>c, <1>11 DEF RepairUnconfirmed, At
  <2>2. call.of # d
    <3>1. call.of = d => handle'[d].status = "unknown"
      BY <1>0, <1>11, StatusEffect DEF RepairUnconfirmed
    <3> QED
      BY <3>1
  <2>3. ~ Mine
    BY <2>2 DEF Mine
  <2> QED
    BY <1>a, <1>h, <2>1, <2>2, <2>3
<1>12. CASE RepairConfirmed
  <2>1. server = "ready" /\ server' = "ready"
    BY <1>c, <1>12 DEF RepairConfirmed, At
  <2>2. /\ call.pc = "repairing" /\ call'.pc = "storing" /\ call'.of = call.of
        /\ call'.entry = call.entry
    BY <1>0, <1>12 DEF RepairConfirmed, At, CallShape, Idle
  <2>3. Mine => Mine'
    BY <2>2 DEF Mine
  <2> QED
    BY <1>a, <1>h, <2>1, <2>2, <2>3
<1>13. CASE ResumeInline
  <2>1. server = "ready" /\ server' = "ready" /\ ~ Mine
    BY <1>c, <1>13 DEF ResumeInline, At, Mine
  <2> QED
    BY <1>a, <1>h, <2>1, <1>13 DEF ResumeInline, At, Mine
<1>14. CASE ResumeInlineFails
  <2>1. server = "ready" /\ server' = "ready" /\ ~ Mine
    BY <1>c, <1>14 DEF ResumeInlineFails, At, Mine
  <2> QED
    BY <1>a, <1>h, <2>1, <1>14 DEF ResumeInlineFails, At, Mine
<1>15. CASE FinalizeStores
  <2>1. /\ UNCHANGED <<server, journal, todo>>
        /\ call'.pc = "auditing" /\ call'.of = call.of /\ call'.entry = call.entry
    BY <1>0, <1>15 DEF FinalizeStores, At, GoTo, CallShape, Idle
  <2>2. call.pc = "storing" /\ server \in {"ready", "reconciling"}
    BY <1>c, <1>15 DEF FinalizeStores, At, FinalSteps
  <2>3. ~ Mine
    <3> SUFFICES ASSUME call.of = d, call.entry.seq = s PROVE FALSE
      BY DEF Mine
    <3>1. Kept(call.of, call.entry.seq)'
      BY FinalInvKept, <2>1 DEF FinalInv
    <3>2. d = call'.of /\ s = call'.entry.seq
      BY <2>1
    <3> QED
      BY <3>1, <3>2 DEF Kept, Recorded, Readable
  <2> QED
    BY <1>a, <1>h, <1>i, <2>1, <2>2, <2>3
<1>16. CASE FinalizeAudits
  <2>1. UNCHANGED <<server, journal, todo>> /\ ~ Mine
    BY <1>16 DEF FinalizeAudits, At, Mine
  <2>2. call.pc # "ran" /\ server \in {"ready", "reconciling"}
    BY <1>c, <1>16 DEF FinalizeAudits, At
  <2> QED
    BY <1>a, <1>h, <1>i, <2>1, <2>2
<1>17. CASE FinalizeReports
  <2>1. UNCHANGED <<server, journal, todo>> /\ ~ Mine
    BY <1>17 DEF FinalizeReports, At, Mine
  <2>2. call.pc # "ran" /\ server \in {"ready", "reconciling"}
    BY <1>c, <1>17 DEF FinalizeReports, At
  <2> QED
    BY <1>a, <1>h, <1>i, <2>1, <2>2
<1>18. CASE FinalizeCompletes
  <2>1. ~ Mine /\ call.pc = "closing" /\ server \in {"ready", "reconciling"} /\ server' = server
    BY <1>c, <1>18 DEF FinalizeCompletes, At, Mine, FinalSteps
  <2>2. CASE server = "ready"
    BY <1>a, <1>h, <2>1, <2>2
  <2>3. CASE server = "reconciling"
    <3>1. call.caller = "recovery" /\ todo' = Rest
      BY <1>0, <2>1, <2>3, <1>18
         DEF FinalizeCompletes, CallIsServed, FinalSteps, NextEntry
    <3>2. PICK f \in todo \ Rest : journal[f] = call.entry
      BY <1>0, <2>1, <2>3 DEF CallIsServed, At
    <3>3. call.entry \in Entry /\ call.entry.of = call.of
      BY <1>0, <2>1, CallIs
    <3>4. ASSUME NEW k \in todo, Names(journal[k], d, s)
          PROVE  k \in Rest /\ k \in DOMAIN journal' /\ journal'[k] = journal[k]
      <4>1. k # f /\ ~ SameKey(journal[k], call.entry)
        BY <1>g, <2>1, <3>2, <3>3, <3>4 DEF Names, SameKey
      <4>2. k \in Rest
        BY <1>0, <3>2, <4>1, RestIs DEF ServerShapes, Unresolved
      <4> QED
        BY <1>0, <3>3, <4>1, <4>2, <1>18, CompleteEffect
           DEF FinalizeCompletes, StoreShapes, ServerShapes, Unresolved
    <3>5. Taken => Taken'
      BY <3>1, <3>4 DEF Taken
    <3> QED
      BY <1>a, <2>1, <2>3, <3>5
  <2> QED
    BY <2>1, <2>2, <2>3
<1>19. CASE FinalizeRaises
  <2>1. /\ call.pc \in FinalSteps /\ server \in {"ready", "reconciling"}
        /\ UNCHANGED <<server, journal>> /\ call.pc \notin {"ran", "idle"}
    BY <1>c, <1>19 DEF FinalizeRaises, FinalSteps
  <2>2. call.of # d
    <3>1. call.of \in Dialogues
      BY <1>0, <2>1, CallIs
    <3>2. call.of = d => handle'[d].status = "unknown"
      BY <1>0, <3>1, <1>19, StatusEffect DEF FinalizeRaises
    <3> QED
      BY <3>2
  <2>3. ~ Mine
    BY <2>2 DEF Mine
  <2>4. CASE server = "ready"
    BY <1>a, <1>h, <2>1, <2>3, <2>4
  <2>5. CASE server = "reconciling"
    <3>1. todo' = Rest
      BY <1>0, <2>1, <2>5, <1>19 DEF FinalizeRaises, CallIsServed, NextEntry
    <3>2. PICK f \in todo \ Rest : journal[f] = call.entry
      BY <1>0, <2>1, <2>5 DEF CallIsServed, At
    <3>3. call.entry.of = call.of
      BY <1>0, <2>1, CallIs
    <3>4. ASSUME NEW k \in todo, Names(journal[k], d, s)
          PROVE  k \in Rest
      <4>1. k # f
        BY <2>2, <3>2, <3>3, <3>4 DEF Names
      <4> QED
        BY <1>0, <3>2, <4>1, RestIs DEF ServerShapes, Unresolved
    <3>5. Taken => Taken'
      BY <2>1, <3>1, <3>4 DEF Taken
    <3> QED
      BY <1>a, <2>1, <2>3, <2>5, <3>5
  <2> QED
    BY <2>1, <2>4, <2>5
<1>20. CASE BeginRecovery
  <2>1. /\ server = "cold" /\ server' = "reconciling" /\ todo' = Unresolved
        /\ journal' = journal
    BY <1>20 DEF BeginRecovery, disk
  <2>2. ~ Mine
    BY <1>d, <2>1
  <2> QED
    BY <1>a, <2>1, <2>2 DEF Open, Taken
<1>21. CASE \E i \in todo : RecoverThreadIntent(i)
  <2>0. PICK i \in todo : RecoverThreadIntent(i)
    BY <1>21
  <2>1. /\ server = "reconciling" /\ call.pc = "idle" /\ i \in todo \ Rest
        /\ server' = server /\ todo' = Rest
    BY <2>0 DEF RecoverThreadIntent, Reconciling, At
  <2>2. ~ Mine
    BY <2>1 DEF Mine
  <2>3. journal[i] \in Entry /\ journal[i].op = "thread_creation"
    BY <1>0, <2>0
       DEF RecoverThreadIntent, Reconciling, StoreShapes, ServerShapes,
           Unresolved
  <2>4. ASSUME NEW k \in todo, Names(journal[k], d, s)
        PROVE  k \in Rest /\ k \in DOMAIN journal' /\ journal'[k] = journal[k]
    <3>1. k # i
      BY <2>3, <2>4 DEF Names
    <3>2. k \in Rest
      BY <1>0, <2>1, <3>1, RestIs DEF ServerShapes, Unresolved
    <3> QED
      BY <1>0, <2>0, <2>3, <2>4, <3>2, CompleteEffect
         DEF RecoverThreadIntent, Names, SameKey, StoreShapes, ServerShapes, Unresolved
  <2>5. Taken => Taken'
    BY <2>1, <2>4 DEF Taken
  <2> QED
    BY <1>a, <2>1, <2>2, <2>5
<1>22. CASE \E i \in todo : RecoverThread(i)
  <2>0. PICK i \in todo : RecoverThread(i)
    BY <1>22
  <2>1. /\ server = "reconciling" /\ call.pc = "idle"
        /\ UNCHANGED <<server, todo, journal>>
    BY <2>0 DEF RecoverThread, Reconciling, At, disk
  <2>2. ~ Mine
    BY <2>1 DEF Mine
  <2> QED
    BY <1>a, <1>i, <2>1, <2>2
<1>23. CASE \E i \in todo : RecoveryRaises(i)
  <2>0. PICK i \in todo : RecoveryRaises(i)
    BY <1>23
  <2>1. /\ server = "reconciling" /\ call.pc = "idle" /\ server' = "cold"
        /\ journal' = journal
    BY <2>0 DEF RecoveryRaises, Reconciling, Abandon, At, disk
  <2>2. ~ Mine
    BY <2>1 DEF Mine
  <2>3. Open => Open'
    BY <2>1 DEF Open, Unresolved
  <2> QED
    BY <1>a, <1>f, <2>1, <2>2, <2>3
<1>24. CASE \E i \in todo : RecoverTurnUnconfirmed(i)
  <2>0. PICK i \in todo : RecoverTurnUnconfirmed(i)
    BY <1>24
  <2>1. /\ server = "reconciling" /\ call.pc = "idle" /\ i \in todo \ Rest
        /\ server' = server /\ todo' = Rest
    BY <2>0 DEF RecoverTurnUnconfirmed, Reconciling, At
  <2>2. ~ Mine
    BY <2>1 DEF Mine
  <2>3. journal[i].of # d
    <3>1. journal[i].of = d => handle'[d].status = "unknown"
      BY <1>0, <2>0, StatusEffect DEF RecoverTurnUnconfirmed
    <3> QED
      BY <3>1
  <2>4. ASSUME NEW k \in todo, Names(journal[k], d, s)
        PROVE  k \in Rest /\ k \in DOMAIN journal' /\ journal'[k] = journal[k]
    <3>1. k # i
      BY <2>3, <2>4 DEF Names
    <3>2. k \in Rest
      BY <1>0, <2>1, <3>1, RestIs DEF ServerShapes, Unresolved
    <3> QED
      BY <1>0, <2>0, <2>3, <2>4, <3>2, CompleteEffect
         DEF RecoverTurnUnconfirmed, Names, SameKey, StoreShapes, ServerShapes, Unresolved
  <2>5. Taken => Taken'
    BY <2>1, <2>4 DEF Taken
  <2> QED
    BY <1>a, <2>1, <2>2, <2>5
<1>25. CASE \E i \in todo : RecoverTurnConfirmed(i)
  <2>0. PICK i \in todo : RecoverTurnConfirmed(i)
    BY <1>25
  <2>1. /\ server = "reconciling" /\ call.pc = "idle"
        /\ UNCHANGED <<server, todo, journal>>
    BY <2>0 DEF RecoverTurnConfirmed, Reconciling, At, disk
  <2>2. ~ Mine
    BY <2>1 DEF Mine
  <2> QED
    BY <1>a, <1>i, <2>1, <2>2
<1>26. CASE RecoverHandle
  <2>1. /\ server = "reconciling" /\ call.pc = "binding"
        /\ UNCHANGED <<server, todo, journal>>
    BY <1>c, <1>26 DEF RecoverHandle, At
  <2>2. ~ Mine
    BY <2>1 DEF Mine
  <2> QED
    BY <1>a, <1>i, <2>1, <2>2
<1>27. CASE RecoverThreadCompletes
  <2>1. /\ server = "reconciling" /\ call.pc = "closing_thread"
        /\ server' = server /\ todo' = Rest
    BY <1>c, <1>27 DEF RecoverThreadCompletes, At, NextEntry
  <2>2. ~ Mine
    BY <2>1 DEF Mine
  <2>3. PICK f \in todo \ Rest : journal[f] = call.entry
    BY <1>0, <2>1 DEF CallIsServed, At
  <2>4. call.entry \in Entry /\ call.entry.op = "thread_creation"
    BY <1>0, <2>1 DEF CallShape, Idle, RecoverySteps
  <2>5. ASSUME NEW k \in todo, Names(journal[k], d, s)
        PROVE  k \in Rest /\ k \in DOMAIN journal' /\ journal'[k] = journal[k]
    <3>1. k # f /\ ~ SameKey(journal[k], call.entry)
      BY <2>3, <2>4, <2>5 DEF Names, SameKey
    <3>2. k \in Rest
      BY <1>0, <2>3, <3>1, RestIs DEF ServerShapes, Unresolved
    <3> QED
      BY <1>0, <2>4, <3>1, <3>2, <1>27, CompleteEffect
         DEF RecoverThreadCompletes, StoreShapes, ServerShapes, Unresolved
  <2>6. Taken => Taken'
    BY <2>1, <2>5 DEF Taken
  <2> QED
    BY <1>a, <2>1, <2>2, <2>6
<1>28. CASE BeginReattach
  <2>1. server = "reconciling" /\ call.pc = "idle" /\ todo = {}
    BY <1>28 DEF BeginReattach, At
  <2>2. ~ Mine /\ ~ Taken
    BY <2>1 DEF Mine, Taken
  <2> QED
    BY <1>a, <2>1, <2>2
<1>29. CASE \E c \in Dialogues : Reattach(c)
  <2>0. PICK c \in Dialogues : Reattach(c)
    BY <1>29
  <2>1. server = "reattaching"
    BY <2>0 DEF Reattach
  <2>2. ~ Mine
    BY <1>d, <2>1
  <2> QED
    BY <1>a, <2>1, <2>2
<1>30. CASE \E c \in Dialogues : ReattachFails(c)
  <2>0. PICK c \in Dialogues : ReattachFails(c)
    BY <1>30
  <2>1. server = "reattaching"
    BY <2>0 DEF ReattachFails
  <2>2. ~ Mine
    BY <1>d, <2>1
  <2> QED
    BY <1>a, <2>1, <2>2
<1>31. CASE EndRecovery
  <2>1. server = "reattaching"
    BY <1>31 DEF EndRecovery
  <2>2. ~ Mine
    BY <1>d, <2>1
  <2> QED
    BY <1>a, <2>1, <2>2
<1>32. CASE WriteRaises
  <2>1. /\ server \in {"ready", "reconciling"} /\ journal' = journal /\ turnFile' = turnFile
        /\ server = "ready" => server' = "ready"
        /\ server = "reconciling" => server' = "cold"
        /\ call.pc \notin {"repairing", "storing"}
    BY <1>c, <1>32 DEF WriteRaises, Abandon, disk
  <2>2. Open => Open'
    BY <2>1 DEF Open, Unresolved
  <2>3. CASE Mine
    <3>1. call.pc = "ran" /\ call.of = d /\ call.entry.seq = s
      BY <2>1, <2>3 DEF Mine
    <3>2. server = "ready" /\ call.entry.seq # 1
      BY <1>c, <3>1, <1>32 DEF WriteRaises, At, Fault
    <3>3. call.entry.seq > 1 /\ call.entry.of = call.of /\ call.entry.op = "turn_dispatch"
      BY <1>0, <3>1, <3>2, CallIs DEF OpenTurn, Prompts, TurnSteps, ReplySteps
    <3>4. ~ FastPath(d) /\ call.entry.phase = "intent"
      BY <3>1, <3>3 DEF TurnInv, NumberInv, EntryInv
    <3>5. \E k \in DOMAIN journal : journal[k] = call.entry
      BY <3>1 DEF TurnInv, EntryInv, TurnSteps, ReplySteps
    <3>6. Waits
      BY <3>1, <3>3, <3>4, <3>5 DEF Waits, Names
    <3>7. Waits'
      BY <2>1, <3>6 DEF Waits, FastPath, Recorded, Readable, Diagnosed
    <3> QED
      BY <1>a, <2>1, <3>2, <3>7
  <2>4. CASE ~ Mine
    <3>1. Waits => Waits'
      BY <2>1 DEF Waits, FastPath, Recorded, Readable, Diagnosed
    <3> QED
      BY <1>a, <1>f, <2>1, <2>2, <2>4, <3>1
  <2> QED
    BY <2>3, <2>4
<1>33. CASE OtherCall
  <2>1. server = "ready" /\ server' = "ready" /\ ~ Mine
    BY <1>c, <1>33 DEF OtherCall, At, Serving, Mine
  <2> QED
    BY <1>a, <1>h, <2>1, <1>33 DEF OtherCall, At, Serving, Mine
<1>34. CASE ServerEnds
  <2>1. server' = "cold" /\ journal' = journal /\ server # "cold"
    BY <1>34 DEF ServerEnds, Abandon
  <2>2. Open => Open'
    BY <2>1 DEF Open, Unresolved
  <2> QED
    BY <1>a, <1>d, <1>e, <1>f, <2>1, <2>2
<1>35. CASE UNCHANGED vars
  BY <1>a, <1>h, <1>i, <1>35 DEF vars, Mine, disk, memory
<1> QED
  BY <1>1, <1>2, <1>3, <1>4, <1>5, <1>6, <1>7, <1>8, <1>9, <1>10, <1>11,
     <1>12, <1>13, <1>14, <1>15, <1>16, <1>17, <1>18, <1>19, <1>20, <1>21,
     <1>22, <1>23, <1>24, <1>25, <1>26, <1>27, <1>28, <1>29, <1>30, <1>31,
     <1>32, <1>33, <1>34, <1>35
     DEF Next, Start, Reply, Finalize, Recover

LEMMA DebtInvKept ==
  ASSUME TypeInv, HandleInv, TurnInv, [Next]_vars,
         "exit" \notin FaultKinds, "first" \notin FaultKinds
  PROVE  DebtInv'
<1>0. CallShape /\ CallIsServed
  BY DEF TypeInv
<1>1. ASSUME NEW d \in Dialogues, NEW s \in DOMAIN thread'[d],
             handle'[d].status = "active", ~ Kept(d, s)'
      PROVE  Accounted(d, s)'
  <2>1. ~ Kept(d, s)
    BY <1>1, KeptStays
  <2>2. CASE s \in DOMAIN thread[d]
    <3>1. handle[d].status = "active"
      <4>1. handle[d].status # "none"
        <5> SUFFICES ASSUME handle[d].status = "none" PROVE FALSE
          OBVIOUS
        <5>1. thread[d] = <<>>
          BY DEF HandleInv
        <5> QED
          BY <2>2, <5>1
      <4>2. ~ MetadataComplete(d)
        <5>1. thread[d] # <<>> /\ s \notin Recorded(d)
          BY <2>1, <2>2 DEF Kept
        <5> QED
          BY <2>2, <5>1 DEF MetadataComplete
      <4>3. call.pc = "resuming" => server = "ready" /\ call.pc \in TurnSteps
        BY <1>0 DEF CallIsServed, TurnSteps, ReplySteps
      <4> QED
        BY <1>1, <4>1, <4>2, <4>3, HandleStep DEF HandleInv
    <3>2. Accounted(d, s)
      BY <2>1, <2>2, <3>1 DEF TurnInv, DebtInv
    <3> QED
      BY <1>1, <2>1, <3>2, DebtMoves
  <2>3. CASE s \notin DOMAIN thread[d]
    <3>1. call.pc = "running" /\ TurnCompletes /\ d = call.of
      BY <2>3, ThreadGrows
    <3>2. s = call.entry.seq
      BY <2>3, <3>1, NewDebt
    <3>3. PICK u \in Unresolved : Names(journal[u], d, s)
      BY <3>1, <3>2, OpenEntryOfCall DEF TurnSteps, ReplySteps
    <3>4. \/ call'.pc \in {"ran", "repairing"} /\ call'.of = call.of
             /\ call'.entry = call.entry
          \/ server' = "cold" /\ journal' = journal
      <4>1. thread' # thread
        BY <2>3
      <4>2. CASE \/ \E c \in Dialogues : StartIntent(c)
                 \/ StartThread \/ StartThreadRaises \/ StartCreatesHandle
                 \/ StartCompletes
                 \/ \E c \in Dialogues : ReplyIntent(c)
        BY <4>1, <4>2
           DEF StartIntent, StartThread, StartThreadRaises,
               StartCreatesHandle, StartCompletes, ReplyIntent, disk, vars
      <4>3. CASE \/ \E c \in Dialogues : ReplyQuarantines(c)
                 \/ WriteDispatched \/ RepairUnconfirmed \/ RepairConfirmed
                 \/ ResumeInline \/ ResumeInlineFails
        BY <4>1, <4>3
           DEF ReplyQuarantines, WriteDispatched, RepairUnconfirmed,
               RepairConfirmed, ResumeInline, ResumeInlineFails, disk, vars
      <4>4. CASE \/ RunTurn \/ RunTurnRaises
        BY <1>0, <3>1, <4>1, <4>4
           DEF RunTurn, RunTurnRaises, GoTo, CallShape, Idle
      <4>5. CASE \/ FinalizeStores \/ FinalizeAudits \/ FinalizeReports
                 \/ FinalizeCompletes \/ FinalizeRaises \/ BeginRecovery
        BY <4>1, <4>5
           DEF FinalizeStores, FinalizeAudits, FinalizeReports,
               FinalizeCompletes, FinalizeRaises, BeginRecovery, disk, vars
      <4>6. CASE \/ \E i \in todo : RecoverThreadIntent(i)
                 \/ \E i \in todo : RecoverThread(i)
                 \/ \E i \in todo : RecoveryRaises(i)
                 \/ \E i \in todo : RecoverTurnUnconfirmed(i)
                 \/ \E i \in todo : RecoverTurnConfirmed(i)
                 \/ RecoverHandle
        BY <4>1, <4>6
           DEF RecoverThreadIntent, RecoverThread, RecoveryRaises,
               RecoverTurnUnconfirmed, RecoverTurnConfirmed, RecoverHandle,
               disk, vars
      <4>7. CASE \/ RecoverThreadCompletes \/ BeginReattach
                 \/ \E c \in Dialogues : Reattach(c)
                 \/ \E c \in Dialogues : ReattachFails(c)
                 \/ EndRecovery \/ WriteRaises
        BY <4>1, <4>7
           DEF RecoverThreadCompletes, BeginReattach, Reattach, ReattachFails,
               EndRecovery, WriteRaises, disk, vars
      <4>8. CASE OtherCall
        BY <4>1, <4>8 DEF OtherCall, disk, vars
      <4>9. CASE ServerEnds
        BY <4>9 DEF ServerEnds, Abandon
      <4>10. CASE UNCHANGED vars
        BY <4>1, <4>10 DEF vars, disk
      <4> QED
        BY <4>2, <4>3, <4>4, <4>5, <4>6, <4>7, <4>8, <4>9, <4>10
           DEF Next, Start, Reply, Finalize, Recover
    <3>5. CASE call'.pc \in {"ran", "repairing"} /\ call'.of = call.of /\ call'.entry = call.entry
      BY <3>1, <3>2, <3>5 DEF Accounted
    <3>6. CASE server' = "cold" /\ journal' = journal
      BY <3>3, <3>6 DEF Accounted, Unresolved
    <3> QED
      BY <3>4, <3>5, <3>6
  <2> QED
    BY <2>2, <2>3
<1> QED
  BY <1>1 DEF DebtInv

LEMMA TurnInvKept ==
  ASSUME TypeInv, HandleInv, TurnInv, [Next]_vars,
         "exit" \notin FaultKinds, "first" \notin FaultKinds
  PROVE  TurnInv'
<1>1. EntryInv'
  BY EntryInvKept DEF TurnInv
<1> QED
  BY <1>1, NumberInvKept, FinalInvKept, CompletedTurnsKept, DebtInvKept
     DEF TurnInv

LEMMA TurnInvInit == Init => TurnInv
<1> SUFFICES ASSUME Init PROVE TurnInv
  OBVIOUS
<1>1. EntryInv /\ NumberInv /\ FinalInv
  BY DEF Init, EntryInv, NumberInv, FinalInv, TurnNumberIsNext, At, Idle,
     TurnSteps,
         ReplySteps, FinalSteps
<1>2. DebtInv
  BY DEF Init, DebtInv
<1>3. CompletedTurnIsFinalized
  BY DEF Init, CompletedTurnIsFinalized
<1> QED
  BY <1>1, <1>2, <1>3 DEF TurnInv

(* The inductive invariant of the dialogues.                               *)
THEOREM DialogueInvariant ==
  ASSUME "exit" \notin FaultKinds, "first" \notin FaultKinds
  PROVE  Spec => []DialogueInv
<1>1. Init => DialogueInv
  BY TypeInvInit, HandleInvInit, TurnInvInit DEF DialogueInv
<1>2. DialogueInv /\ [Next]_vars => DialogueInv'
  BY TypeInvKept, HandleInvKept, TurnInvKept DEF DialogueInv
<1> QED
  BY <1>1, <1>2, PTL DEF Spec

(* A turn whose journal entry is completed is recorded locally and has one *)
(* audit event and one outcome of the remote turn of its number, whether a *)
(* reply, a repair or a recovery finalized it, and however often it began. *)
THEOREM TurnsFinalized ==
  ASSUME "exit" \notin FaultKinds, "first" \notin FaultKinds
  PROVE  Spec => []CompletedTurnIsFinalized
<1>1. DialogueInv => CompletedTurnIsFinalized
  BY DEF DialogueInv, TurnInv
<1> QED
  BY DialogueInvariant, <1>1, PTL

(* reply() gives a turn the number it will have in the remote thread.      *)
THEOREM TurnsNumbered ==
  ASSUME "exit" \notin FaultKinds, "first" \notin FaultKinds
  PROVE  Spec => []TurnNumberIsNext
<1>1. DialogueInv => TurnNumberIsNext
  BY DEF DialogueInv, TurnInv, NumberInv
<1> QED
  BY DialogueInvariant, <1>1, PTL

LEMMA DebtsAreSeen == DialogueInv => ActiveDialogueIsReadable
<1> SUFFICES ASSUME DialogueInv, NEW d \in Dialogues, Serving,
                    handle[d].status = "active", ~ ReadSucceeds(d)
             PROVE  /\ \/ DOMAIN thread[d] \ Recorded(d) \subseteq Undispatched(d)
                       \/ Diagnosed
                    /\ ~ FastPath(d)
  BY DEF ActiveDialogueIsReadable
<1>1. CASE Diagnosed
  BY <1>1 DEF FastPath
<1>2. CASE ~ Diagnosed
  <2>1. ASSUME NEW s \in DOMAIN thread[d] \ Recorded(d)
        PROVE  /\ ~ FastPath(d)
               /\ s \in Undispatched(d)
    <3>1. Accounted(d, s)
      BY <1>2, <2>1 DEF DialogueInv, TurnInv, DebtInv, Kept
    <3>2. /\ ~ FastPath(d)
          /\ \E i \in DOMAIN journal : Names(journal[i], d, s) /\ journal[i].phase = "intent"
      BY <3>1 DEF Accounted, Serving, At
    <3> QED
      BY <2>1, <3>2 DEF Undispatched, Names
  <2>2. \E s : s \in DOMAIN thread[d] \ Recorded(d)
    BY DEF ReadSucceeds
  <2> QED
    BY <2>1, <2>2
<1> QED
  BY <1>1, <1>2

(* A dialogue that is offered for the next reply can be read, or the next  *)
(* reply looks at its store and finds out.                                 *)
THEOREM DialoguesReadable ==
  ASSUME "exit" \notin FaultKinds, "first" \notin FaultKinds
  PROVE  Spec => []ActiveDialogueIsReadable
  BY DialogueInvariant, DebtsAreSeen, PTL

----------------------------------------------------------------------------
(* Sizes.  A turn that was begun once has the size of its own prompt, in   *)
(* its open journal entry and in its line of the local store; the store    *)
(* knows only turns that the remote thread has.                            *)

TriedOnce(d, s) == \A i, j \in DOMAIN journal :
                      Names(journal[i], d, s) /\ Names(journal[j], d, s) => i = j

Sized(d, s, n) == s \in DOMAIN thread[d] /\ TriedOnce(d, s) => n = thread[d][s]

EntriesSized == \A i \in DOMAIN journal :
                   OpenTurn(journal[i]) =>
                      Sized(journal[i].of, journal[i].seq, journal[i].size)

LinesSized == \A i \in DOMAIN turnFile :
                 /\ turnFile[i].seq \in DOMAIN thread[turnFile[i].of]
                 /\ turnFile[i].valid =>
                       Sized(turnFile[i].of, turnFile[i].seq, turnFile[i].size)

SizeInv == EntriesSized /\ LinesSized

(* A turn that is begun a second time stays so.                            *)
LEMMA OnceBefore ==
  ASSUME TypeInv, [Next]_vars, NEW d, NEW s, TriedOnce(d, s)'
  PROVE  TriedOnce(d, s)
<1>1. \A i, j \in DOMAIN journal' :
         Names(journal'[i], d, s) /\ Names(journal'[j], d, s) => i = j
  BY DEF TriedOnce
<1>2. CASE journal' = journal
  BY <1>1, <1>2 DEF TriedOnce
<1>3. ASSUME NEW e \in Entry, WritePhase(e)
      PROVE  TriedOnce(d, s)
  <2>1. /\ DOMAIN journal \subseteq DOMAIN journal'
        /\ \A i \in DOMAIN journal :
              journal'[i] = IF SameKey(journal[i], e) THEN e ELSE journal[i]
    BY <1>3, WriteEffect DEF TypeInv, StoreShapes
  <2>2. \A i \in DOMAIN journal : Names(journal[i], d, s) => Names(journal'[i], d, s)
    BY <2>1 DEF SameKey, Names
  <2> QED
    BY <1>1, <2>1, <2>2 DEF TriedOnce
<1> QED
  BY <1>2, <1>3, JournalStep

(* What is so of a turn of the thread stays so.                            *)
LEMMA SizedStays ==
  ASSUME TypeInv, [Next]_vars, NEW d \in Dialogues, NEW s \in DOMAIN thread[d],
         NEW n, Sized(d, s, n)
  PROVE  Sized(d, s, n)'
<1>1. thread'[d][s] = thread[d][s]
  BY ThreadGrows
<1>2. TriedOnce(d, s)' => TriedOnce(d, s)
  BY OnceBefore
<1> QED
  BY <1>1, <1>2 DEF Sized

(* A turn that the thread has only now is the one that was running, with   *)
(* the size that its only entry names.                                     *)
LEMMA NewTurnSized ==
  ASSUME TypeInv, HandleInv, TurnInv, [Next]_vars,
         NEW i \in DOMAIN journal, OpenTurn(journal[i]),
         NEW d, NEW s, NEW n, d = journal[i].of, s = journal[i].seq,
         n = journal[i].size, s \notin DOMAIN thread[d]
  PROVE  Sized(d, s, n)'
<1>0. d \in Dialogues
  <2>1. journal[i] \in Entry
    BY DEF TypeInv, StoreShapes
  <2> QED
    BY <2>1 DEF Entry
<1>1. Names(journal[i], d, s)
  BY DEF OpenTurn, Names
<1>2. SUFFICES ASSUME s \in DOMAIN thread'[d], TriedOnce(d, s)
               PROVE  n = thread'[d][s]
  <2>1. TriedOnce(d, s)' => TriedOnce(d, s)
    BY OnceBefore
  <2> QED
    BY <1>2, <2>1 DEF Sized
<1>4. call.pc = "running" /\ TurnCompletes
  BY <1>2, ThreadGrows
<1>5. d = call.of
  BY <1>0, <1>2, ThreadGrows
<1>6. s = call.entry.seq
  BY <1>2, <1>4, <1>5, NewDebt
<1>7. PICK k \in DOMAIN journal : journal[k] = call.entry
  BY <1>4 DEF TurnInv, EntryInv, TurnSteps, ReplySteps
<1>8. /\ call.of \in Dialogues /\ OpenTurn(call.entry) /\ call.entry.of = call.of
      /\ call.entry.seq = Len(thread[call.of]) + 1
  BY <1>4, CallIs DEF TypeInv, TurnInv, NumberInv, TurnNumberIsNext, At, TurnSteps,
                      ReplySteps
<1>9. Names(journal[k], d, s)
  BY <1>5, <1>6, <1>7, <1>8 DEF Names, OpenTurn
<1>10. k = i
  BY <1>1, <1>2, <1>9 DEF TriedOnce
<1>11. n = call.entry.size
  BY <1>7, <1>10
<1>12. /\ thread[d] \in Seq(Prompts) /\ call.entry.size \in Prompts
       /\ DOMAIN thread = Dialogues
  BY <1>0, <1>8 DEF TypeInv, StoreShapes, OpenTurn
<1>13. thread'[d] = Append(thread[d], call.entry.size)
  BY <1>0, <1>4, <1>5, <1>12 DEF TurnCompletes
<1> QED
  BY <1>5, <1>6, <1>8, <1>11, <1>12, <1>13

(* The open entry of a call is sized when the turn is in the thread.       *)
LEMMA CallSized ==
  ASSUME TypeInv, TurnInv, EntriesSized, call.pc \in {"ran", "storing"}
  PROVE  /\ call.of \in Dialogues
         /\ call.entry.seq \in DOMAIN thread[call.of]
         /\ Sized(call.of, call.entry.seq, call.entry.size)
<1>1. PICK k \in DOMAIN journal : journal[k] = call.entry
  BY DEF TurnInv, EntryInv, TurnSteps, ReplySteps, FinalSteps
<1>2. OpenTurn(call.entry) /\ call.entry.of = call.of /\ call.of \in Dialogues
  BY CallIs DEF TypeInv, TurnSteps, ReplySteps, FinalSteps
<1>3. call.entry.seq \in DOMAIN thread[call.of]
  BY DEF TurnInv, NumberInv, FinalSteps
<1>4. Sized(call.of, call.entry.seq, call.entry.size)
  BY <1>1, <1>2 DEF EntriesSized
<1> QED
  BY <1>2, <1>3, <1>4

LEMMA EntrySizedStays ==
  ASSUME TypeInv, HandleInv, TurnInv, EntriesSized, [Next]_vars,
         NEW i \in DOMAIN journal, OpenTurn(journal[i]),
         NEW d, NEW s, NEW n, d = journal[i].of, s = journal[i].seq,
         n = journal[i].size
  PROVE  Sized(d, s, n)'
<1>1. d \in Dialogues
  <2>1. journal[i] \in Entry
    BY DEF TypeInv, StoreShapes
  <2> QED
    BY <2>1 DEF Entry
<1>2. Sized(d, s, n)
  BY DEF EntriesSized
<1> QED
  BY <1>1, <1>2, SizedStays, NewTurnSized

LEMMA EntriesSizedKept ==
  ASSUME TypeInv, HandleInv, TurnInv, EntriesSized, [Next]_vars
  PROVE  EntriesSized'
<1>0. TypeInv'
  BY TypeInvKept
<1>1. SUFFICES ASSUME NEW i \in DOMAIN journal', OpenTurn(journal'[i]),
                      NEW d, NEW s, NEW n, d = journal'[i].of,
                      s = journal'[i].seq, n = journal'[i].size
               PROVE  Sized(d, s, n)'
  BY DEF EntriesSized, Sized, TriedOnce
<1>2. CASE i \in DOMAIN journal /\ journal'[i] = journal[i]
  BY <1>1, <1>2, EntrySizedStays
<1>3. CASE ~ (i \in DOMAIN journal /\ journal'[i] = journal[i])
  <2>1. PICK e \in Entry :
           /\ WritePhase(e)
           /\ e.op = "turn_dispatch" =>
                 \/ /\ call.pc = "idle" /\ server = "ready"
                    /\ handle[e.of].status = "active"
                    /\ e.phase = "intent" /\ e.seq = NextSequence(e.of)
                 \/ /\ call.pc = "ran" /\ e.phase = "dispatched"
                    /\ e.of = call.of /\ e.seq = call.entry.seq
                    /\ e.size = call.entry.size
                 \/ /\ call.pc = "closing" /\ e.phase = "completed"
                    /\ e.of = call.of /\ e.seq = call.entry.seq
    BY <1>1, <1>3, JournalStep
  <2>2. journal'[i] = e
    BY <1>1, <1>3, <2>1, WriteEffect DEF TypeInv, StoreShapes
  <2>3. /\ d = e.of /\ s = e.seq /\ n = e.size /\ d \in Dialogues
        /\ e.op = "turn_dispatch" /\ e.phase # "completed"
    BY <1>1, <2>1, <2>2 DEF OpenTurn, Entry
  <2>4. CASE call.pc = "idle" /\ server = "ready" /\ handle[d].status = "active"
             /\ s = NextSequence(d)
    <3>1. Serving
      BY <2>4 DEF Serving, At
    <3>2. s = Len(thread[d]) + 1
      BY <2>3, <2>4, <3>1, NextSequenceIs
    <3>3. thread' = thread
      BY <2>4, ThreadGrows
    <3>4. s \notin DOMAIN thread'[d]
      BY <2>3, <3>2, <3>3, ThreadGrows
    <3> QED
      BY <3>4 DEF Sized
  <2>5. CASE call.pc = "ran" /\ d = call.of /\ s = call.entry.seq
             /\ n = call.entry.size
    BY <2>3, <2>5, CallSized, SizedStays
  <2> QED
    BY <2>1, <2>3, <2>4, <2>5
<1> QED
  BY <1>2, <1>3

LEMMA LineSizedStays ==
  ASSUME TypeInv, LinesSized, [Next]_vars,
         NEW i \in DOMAIN turnFile,
         NEW d, NEW s, NEW n, d = turnFile[i].of, s = turnFile[i].seq,
         n = turnFile[i].size
  PROVE  /\ s \in DOMAIN thread'[d]
         /\ turnFile[i].valid => Sized(d, s, n)'
<1>1. d \in Dialogues /\ s \in DOMAIN thread[d]
  <2>1. turnFile[i] \in Line
    BY DEF TypeInv, StoreShapes
  <2> QED
    BY <2>1 DEF Line, LinesSized
<1>2. turnFile[i].valid => Sized(d, s, n)
  BY DEF LinesSized
<1>3. s \in DOMAIN thread'[d]
  BY <1>1, ThreadGrows
<1> QED
  BY <1>1, <1>2, <1>3, SizedStays

LEMMA LinesSizedKept ==
  ASSUME TypeInv, HandleInv, TurnInv, SizeInv, "exit" \notin FaultKinds, [Next]_vars
  PROVE  LinesSized'
<1>0. EntriesSized /\ LinesSized
  BY DEF SizeInv
<1>1. SUFFICES ASSUME NEW i \in DOMAIN turnFile',
                      NEW d, NEW s, NEW n, d = turnFile'[i].of,
                      s = turnFile'[i].seq, n = turnFile'[i].size
               PROVE  /\ s \in DOMAIN thread'[d]
                      /\ turnFile'[i].valid => Sized(d, s, n)'
  BY DEF LinesSized, Sized, TriedOnce
<1>2. CASE turnFile' = turnFile
  BY <1>0, <1>1, <1>2, LineSizedStays
<1>3. ASSUME call.pc = "storing",
             NEW line \in Line, turnFile' = Appended(line),
             line.of = call.of, line.seq = call.entry.seq,
             line.size = call.entry.size
      PROVE  /\ s \in DOMAIN thread'[d]
             /\ turnFile'[i].valid => Sized(d, s, n)'
  <2>1. /\ \A k \in DOMAIN turnFile :
              /\ turnFile'[k].of = turnFile[k].of
              /\ turnFile'[k].seq = turnFile[k].seq
              /\ turnFile'[k].size = turnFile[k].size
              /\ ~ turnFile[k].valid => ~ turnFile'[k].valid
        /\ \A k \in DOMAIN turnFile' \ DOMAIN turnFile : turnFile'[k] = line
    BY <1>3, AppendedEffect DEF TypeInv, StoreShapes
  <2>2. CASE i \in DOMAIN turnFile
    <3>1. d = turnFile[i].of /\ s = turnFile[i].seq /\ n = turnFile[i].size
      BY <1>1, <2>1, <2>2
    <3>2. ~ turnFile[i].valid => ~ turnFile'[i].valid
      BY <2>1, <2>2
    <3>3. s \in DOMAIN thread'[d] /\ (turnFile[i].valid => Sized(d, s, n)')
      BY <1>0, <2>2, <3>1, LineSizedStays
    <3> QED
      BY <3>2, <3>3, Zenon
  <2>3. CASE i \notin DOMAIN turnFile
    <3>1. d = call.of /\ s = call.entry.seq /\ n = call.entry.size
      BY <1>1, <1>3, <2>1, <2>3
    <3>2. d \in Dialogues /\ s \in DOMAIN thread[d] /\ Sized(d, s, n)
      BY <1>0, <1>3, <3>1, CallSized
    <3>3. s \in DOMAIN thread'[d]
      BY <3>2, ThreadGrows
    <3> QED
      BY <3>2, <3>3, SizedStays
  <2> QED
    BY <2>2, <2>3
<1> QED
  BY <1>2, <1>3, TurnFileStep

LEMMA SizeInvInit == Init => SizeInv
<1> SUFFICES ASSUME Init PROVE SizeInv
  OBVIOUS
<1>1. journal = <<>> /\ turnFile = <<>>
  BY DEF Init
<1>2. DOMAIN journal = {} /\ DOMAIN turnFile = {}
  BY <1>1
<1> QED
  BY <1>2 DEF SizeInv, EntriesSized, LinesSized

(* Some numbers that are bounded have a largest one.                       *)
LEMMA LargestNumber ==
  ASSUME NEW S, NEW n \in Nat, S \subseteq 1..n, S # {}
  PROVE  \E i \in S : \A j \in S : j <= i
<1> DEFINE T == {n - i : i \in S}
<1>1. T \subseteq Nat /\ T # {}
  <2>1. T \subseteq Nat
    OBVIOUS
  <2>2. PICK i \in S : TRUE
    OBVIOUS
  <2>3. n - i \in T
    BY <2>2
  <2> QED
    BY <2>1, <2>3
<1> DEFINE R == OpToRel(<, Nat)
<1>2. \A i, j \in Nat : i < j => <<i, j>> \in R
  BY DEF OpToRel
<1>3. IsWellFoundedOn(R, Nat)
  BY NatLessThanWellFounded
<1>4. PICK m \in T : \A k \in T : <<k, m>> \notin R
  <2> HIDE DEF R, T
  <2> QED BY <1>1, <1>3, WFMin
<1>5. PICK i \in S : m = n - i
  BY <1>4
<1>6. \A j \in S : j <= i
  <2>1. TAKE j \in S
  <2>2. n - j \in T /\ n - j \in Nat /\ m \in Nat
    BY <1>1
  <2>3. ~ (n - j < m)
    <3> HIDE DEF R, T
    <3> QED BY <1>2, <1>4, <2>2
  <2> QED
    BY <1>5, <2>3
<1> QED
  BY <1>6

(* The size a reader takes is that of a readable line of the turn.         *)
LEMMA SizeIsOfLine ==
  ASSUME TypeInv, NEW d \in Dialogues, NEW s \in Recorded(d)
  PROVE  \E i \in DOMAIN turnFile : /\ turnFile[i].valid /\ turnFile[i].of = d
                                    /\ turnFile[i].seq = s
                                    /\ SizeOf(d, s) = turnFile[i].size
<1> DEFINE S == {i \in Readable(d) : turnFile[i].seq = s}
           P(i) == /\ turnFile[i].seq = s
                   /\ \A j \in Readable(d) : turnFile[j].seq = s => j <= i
<1>1. S \subseteq 1..Len(turnFile) /\ Len(turnFile) \in Nat
  BY DEF TypeInv, StoreShapes, Readable
<1>2. S # {}
  BY DEF Recorded
<1>3. PICK i \in S : \A j \in S : j <= i
  <2> HIDE DEF S
  <2> QED BY <1>1, <1>2, LargestNumber
<1>4. i \in Readable(d) /\ P(i)
  BY <1>3
<1>5. (CHOOSE k \in Readable(d) : P(k)) \in Readable(d)
      /\ P(CHOOSE k \in Readable(d) : P(k))
  <2> HIDE DEF P
  <2> QED BY <1>4, Zenon
<1>6. SizeOf(d, s) = turnFile[CHOOSE k \in Readable(d) : P(k)].size
  BY Zenon DEF SizeOf
<1> QED
  BY <1>5, <1>6 DEF Readable

LEMMA TwoEntries ==
  ASSUME TypeInv, NEW S, S \subseteq DOMAIN journal, NEW i \in S, NEW j \in S, i # j
  PROVE  Cardinality(S) > 1
<1>1. IsFiniteSet(1..Len(journal)) /\ S \subseteq 1..Len(journal)
  BY FS_Interval DEF TypeInv, StoreShapes
<1>2. IsFiniteSet(S)
  BY <1>1, FS_Subset
<1>3. IsFiniteSet({i}) /\ Cardinality({i}) = 1
  BY FS_Singleton
<1>4. Cardinality({i} \cup {j}) = 2
  <2>1. Cardinality({i} \cup {j}) = IF j \in {i} THEN Cardinality({i})
                                                 ELSE Cardinality({i}) + 1
    BY <1>3, FS_AddElement, Zenon
  <2>2. j \notin {i}
    OBVIOUS
  <2> QED
    BY <1>3, <2>1, <2>2
<1>5. Cardinality({i} \cup {j}) <= Cardinality(S)
  <2>1. {i} \cup {j} \in SUBSET S
    OBVIOUS
  <2> QED
    BY <1>2, <2>1, FS_Subset, Zenon
<1>6. Cardinality(S) \in Nat
  BY <1>2, FS_CardinalityType, Zenon
<1> QED
  BY <1>4, <1>5, <1>6

LEMMA SizesAreOfTurns ==
  ASSUME TypeInv, SizeInv
  PROVE  SizeIsOfTurnNumber
<1> SUFFICES ASSUME NEW d \in Dialogues, NEW s \in Recorded(d) \cap DOMAIN thread[d],
                    SizeOf(d, s) # thread[d][s]
             PROVE  Cardinality({i \in DOMAIN journal :
                       journal[i].op = "turn_dispatch"
                       /\ journal[i].of = d /\ journal[i].seq = s}) > 1
  BY DEF SizeIsOfTurnNumber
<1>1. PICK i \in DOMAIN turnFile : /\ turnFile[i].valid /\ turnFile[i].of = d
                                   /\ turnFile[i].seq = s
                                   /\ SizeOf(d, s) = turnFile[i].size
  BY SizeIsOfLine
<1>2. ~ TriedOnce(d, s)
  BY <1>1 DEF SizeInv, LinesSized, Sized
<1>3. PICK j, k \in DOMAIN journal :
         Names(journal[j], d, s) /\ Names(journal[k], d, s) /\ j # k
  BY <1>2 DEF TriedOnce
<1> DEFINE S == {m \in DOMAIN journal : journal[m].op = "turn_dispatch"
                    /\ journal[m].of = d /\ journal[m].seq = s}
<1>4. S \subseteq DOMAIN journal /\ j \in S /\ k \in S
  BY <1>3 DEF Names
<1>5. Cardinality(S) > 1
  <2> HIDE DEF S
  <2> QED BY <1>3, <1>4, TwoEntries
<1> QED
  BY <1>5

(* The local store gives a turn the size of its own prompt, unless another *)
(* attempt at the same turn was given up before.                           *)
THEOREM SizesOfTurns ==
  ASSUME "exit" \notin FaultKinds, "first" \notin FaultKinds
  PROVE  Spec => []SizeIsOfTurnNumber
<1>1. DialogueInv /\ SizeInv /\ [Next]_vars => (DialogueInv /\ SizeInv)'
  BY TypeInvKept, HandleInvKept, TurnInvKept, EntriesSizedKept, LinesSizedKept
     DEF DialogueInv, SizeInv
<1>2. Init => DialogueInv /\ SizeInv
  BY TypeInvInit, HandleInvInit, TurnInvInit, SizeInvInit DEF DialogueInv
<1>3. DialogueInv /\ SizeInv => SizeIsOfTurnNumber
  BY SizesAreOfTurns DEF DialogueInv
<1> QED
  BY <1>1, <1>2, <1>3, PTL DEF Spec

=============================================================================
