------------------------- MODULE SessionFiles_proofs -------------------------
(***************************************************************************)
(* Proofs about the files of JSON lines: what a replay computes for every  *)
(* file, the invariant of the files, and that they implement SessionTable. *)
(*                                                                         *)
(* Statements about every file are proved by induction over its lines.  An *)
(* induction is put as a search for the least counterexample: the set of   *)
(* the counterexamples, if it is not empty, has one before which there is  *)
(* none.                                                                   *)
(***************************************************************************)
EXTENDS SessionFiles, FiniteSetTheorems, SequenceTheorems,
        WellFoundedInduction, TLAPS

----------------------------------------------------------------------------
(* Induction, stated with sets: a set of counterexamples has a least one.  *)

(* A set of natural numbers that is not empty has a least element.         *)
LEMMA LeastNumber ==
    ASSUME NEW T, T \subseteq Nat, T # {}
    PROVE  \E n \in T : \A m \in T : n <= m
<1> DEFINE R == OpToRel(<, Nat)
<1>1. IsWellFoundedOn(R, Nat)
  BY NatLessThanWellFounded
<1>2. \A i, j \in Nat : i < j => <<i, j>> \in R
  BY DEF OpToRel
<1> HIDE DEF R
<1>3. \E n \in T : \A m \in T : <<m, n>> \notin R
  BY <1>1, WFMin
<1>4. \A i, j \in Nat : <<i, j>> \notin R => j <= i
  BY <1>2
<1> QED
  BY <1>3, <1>4

(* A set of numbers up to N without 0 that is not empty has an element     *)
(* whose predecessor it lacks.                                             *)
LEMMA FirstNumber ==
    ASSUME NEW N \in Nat, NEW T, T \subseteq 0..N, 0 \notin T, T # {}
    PROVE  \E n \in 0..(N - 1) : n \notin T /\ n + 1 \in T
<1>1. T \subseteq Nat
  OBVIOUS
<1>2. PICK n \in T : \A m \in T : n <= m
  BY <1>1, LeastNumber
<1>3. n \in 1..N
  BY <1>2
<1>4. n - 1 \in 0..(N - 1) /\ n - 1 \notin T /\ (n - 1) + 1 = n
  BY <1>2, <1>3
<1> QED
  BY <1>4

(* A set of sequences without the empty one that is not empty has one that *)
(* lacks it when its last element is gone.                                 *)
LEMMA FirstSequence ==
    ASSUME NEW S, NEW T, T \subseteq Seq(S), << >> \notin T, T # {}
    PROVE  \E s \in Seq(S), e \in S : s \notin T /\ Append(s, e) \in T
<1> DEFINE L == {Len(s) : s \in T}
<1>1. L \subseteq Nat /\ L # {}
  BY LenProperties
<1>2. PICK n \in L : \A m \in L : n <= m
  <2> HIDE DEF L
  <2> QED BY <1>1, LeastNumber
<1>3. PICK t \in T : Len(t) = n
  BY <1>2
<1>4. t \in Seq(S) /\ t # << >>
  BY <1>3
<1>5. PICK s \in Seq(S), e \in S : t = Append(s, e)
  BY <1>4, SequenceEmptyOrAppend
<1>6. Len(s) \in Nat /\ Len(t) = Len(s) + 1
  BY <1>5, LenProperties, AppendProperties
<1>7. s \notin T
  <2>1. SUFFICES ASSUME s \in T PROVE FALSE
    OBVIOUS
  <2>2. Len(s) \in L
    BY <2>1
  <2> QED
    BY <1>2, <1>3, <1>6, <2>2
<1> QED
  BY <1>3, <1>5, <1>7

----------------------------------------------------------------------------
(* Replaying a file.                                                       *)

(* The tables after the lines of a file exist.                             *)
LEMMA TablesExist ==
    ASSUME NEW f \in Seq(Line)
    PROVE  \E g : g = [i \in 0..Len(f) |-> IF i = 0 THEN Empty
                                           ELSE Read(g[i - 1], f[i])]
<1> DEFINE Upto(g, n) == g = [i \in 0..n |-> IF i = 0 THEN Empty
                                             ELSE Read(g[i - 1], f[i])]
           T == {n \in 0..Len(f) : ~ \E g : Upto(g, n)}
<1>1. Len(f) \in Nat
  BY LenProperties
<1>2. 0 \notin T
  <2> DEFINE g == [i \in 0..0 |-> Empty]
  <2>1. g = [i \in 0..0 |-> IF i = 0 THEN Empty ELSE Read(g[i - 1], f[i])]
    OBVIOUS
  <2> QED
    BY <2>1
<1>3. ASSUME NEW n \in 0..(Len(f) - 1), n \notin T
      PROVE  n + 1 \notin T
  <2>1. PICK g : Upto(g, n)
    BY <1>1, <1>3
  <2> DEFINE h == [i \in 0..(n + 1) |-> IF i = n + 1 THEN Read(g[n], f[n + 1])
                                        ELSE g[i]]
  <2>2. \A i \in 0..n : h[i] = g[i]
    BY <1>1
  <2>3. \A i \in 0..n : g[i] = IF i = 0 THEN Empty ELSE Read(g[i - 1], f[i])
    BY <2>1
  <2>4. \A i \in 0..(n + 1) :
           h[i] = IF i = 0 THEN Empty ELSE Read(h[i - 1], f[i])
    <3>1. TAKE i \in 0..(n + 1)
    <3>2. CASE i = n + 1
      <4>1. h[i] = Read(g[n], f[i]) /\ h[i - 1] = g[n] /\ i # 0
        BY <1>1, <2>2, <3>2
      <4> HIDE DEF h
      <4> QED BY <4>1
    <3>3. CASE i # n + 1
      <4>1. i \in 0..n /\ (i # 0 => i - 1 \in 0..n)
        BY <1>1, <3>3
      <4>2. h[i] = g[i] /\ (i # 0 => h[i - 1] = g[i - 1])
        BY <2>2, <4>1
      <4> HIDE DEF h
      <4> QED BY <2>3, <4>1, <4>2
    <3> QED
      BY <3>2, <3>3
  <2>5. h = [i \in 0..(n + 1) |-> h[i]]
    OBVIOUS
  <2> HIDE DEF h
  <2>6. Upto(h, n + 1)
    BY <2>4, <2>5
  <2> QED
    BY <2>6
<1>4. T = {}
  <2>1. T \subseteq 0..Len(f)
    OBVIOUS
  <2> HIDE DEF T
  <2> QED
    BY <1>1, <1>2, <1>3, <2>1, FirstNumber
<1>5. Len(f) \in 0..Len(f)
  BY <1>1
<1> QED
  BY <1>4, <1>5

LEMMA TablesDef ==
    ASSUME NEW f \in Seq(Line)
    PROVE  Tables(f) = [i \in 0..Len(f) |-> IF i = 0 THEN Empty
                                            ELSE Read(Tables(f)[i - 1], f[i])]
BY TablesExist, Zenon DEF Tables

(* After no line the table is empty; after a line it is what the line does *)
(* to the one before.                                                      *)
LEMMA TableAfter ==
    ASSUME NEW f \in Seq(Line)
    PROVE  /\ Tables(f)[0] = Empty
           /\ \A i \in 1..Len(f) : Tables(f)[i] = Read(Tables(f)[i - 1], f[i])
<1> DEFINE t == Tables(f)
<1>1. t = [i \in 0..Len(f) |-> IF i = 0 THEN Empty ELSE Read(t[i - 1], f[i])]
  BY TablesDef
<1>2. Len(f) \in Nat
  BY LenProperties
<1> HIDE DEF t
<1>3. t[0] = Empty
  BY <1>1, <1>2
<1>4. \A i \in 1..Len(f) : t[i] = Read(t[i - 1], f[i])
  BY <1>1, <1>2
<1> QED
  BY <1>3, <1>4 DEF t

(* Files whose first lines have the same effects have the same table after *)
(* them.                                                                   *)
LEMMA TablesAgree ==
    ASSUME NEW f \in Seq(Line), NEW g \in Seq(Line),
           NEW n \in Nat, n <= Len(f), n <= Len(g),
           \A i \in 1..n : \A t : Read(t, f[i]) = Read(t, g[i])
    PROVE  Tables(f)[n] = Tables(g)[n]
<1> DEFINE T == {i \in 0..n : Tables(f)[i] # Tables(g)[i]}
<1>1. Len(f) \in Nat /\ Len(g) \in Nat
  BY LenProperties
<1>2. 0 \notin T
  BY TableAfter
<1>3. ASSUME NEW i \in 0..(n - 1), i \notin T
      PROVE  i + 1 \notin T
  <2>1. i + 1 \in 1..n /\ i + 1 \in 1..Len(f) /\ i + 1 \in 1..Len(g)
        /\ (i + 1) - 1 = i
    BY <1>1
  <2>2. Tables(f)[i + 1] = Read(Tables(f)[i], f[i + 1])
    BY <2>1, TableAfter
  <2>3. Tables(g)[i + 1] = Read(Tables(g)[i], g[i + 1])
    BY <2>1, TableAfter
  <2>4. Tables(f)[i] = Tables(g)[i]
    BY <1>3
  <2> QED
    BY <2>1, <2>2, <2>3, <2>4
<1>4. T = {}
  <2>1. T \subseteq 0..n
    OBVIOUS
  <2> HIDE DEF T
  <2> QED
    BY <1>2, <1>3, <2>1, FirstNumber
<1> QED
  BY <1>4

(* Two files of one length whose lines have the same effects replay alike. *)
LEMMA ReplaysAgree ==
    ASSUME NEW f \in Seq(Line), NEW g \in Seq(Line), Len(f) = Len(g),
           \A i \in DOMAIN f : \A t : Read(t, f[i]) = Read(t, g[i])
    PROVE  Replay(f) = Replay(g)
<1>1. Len(f) \in Nat /\ DOMAIN f = 1..Len(f)
  BY LenProperties
<1>2. Tables(f)[Len(f)] = Tables(g)[Len(f)]
  BY <1>1, TablesAgree
<1> QED
  BY <1>2 DEF Replay

LEMMA ReplayOfNothing == Replay(<< >>) = Empty
BY EmptySeq, TableAfter DEF Replay

(* A line that is appended is read last.                                   *)
LEMMA ReplayOfAppend ==
    ASSUME NEW f \in Seq(Line), NEW line \in Line
    PROVE  Replay(Append(f, line)) = Read(Replay(f), line)
<1> DEFINE g == Append(f, line)
<1>1. Len(f) \in Nat
  BY LenProperties
<1>2. /\ g \in Seq(Line) /\ Len(g) = Len(f) + 1 /\ g[Len(f) + 1] = line
      /\ \A i \in 1..Len(f) : g[i] = f[i]
  BY AppendProperties
<1> HIDE DEF g
<1>3. Tables(g)[Len(f)] = Tables(f)[Len(f)]
  BY <1>1, <1>2, TablesAgree
<1>4. Len(g) \in 1..Len(g) /\ Len(g) - 1 = Len(f)
  BY <1>1, <1>2
<1>5. Tables(g)[Len(g)] = Read(Tables(g)[Len(f)], line)
  BY <1>2, <1>4, TableAfter
<1> QED
  BY <1>3, <1>5 DEF Replay, g

----------------------------------------------------------------------------
(* Dropping expired records.                                               *)

LEMMA PrunedExist ==
    ASSUME NEW f \in Seq(Line)
    PROVE  \E g : g = [i \in 0..Len(f) |->
                          IF i = 0 THEN << >>
                          ELSE IF Expired(f[i]) THEN g[i - 1]
                          ELSE Append(g[i - 1], f[i])]
<1> DEFINE Step(kept, i) == IF Expired(f[i]) THEN kept ELSE Append(kept, f[i])
           Upto(g, n) == g = [i \in 0..n |-> IF i = 0 THEN << >>
                                             ELSE Step(g[i - 1], i)]
           T == {n \in 0..Len(f) : ~ \E g : Upto(g, n)}
<1>1. Len(f) \in Nat
  BY LenProperties
<1> HIDE DEF Step
<1>2. 0 \notin T
  <2> DEFINE g == [i \in 0..0 |-> << >>]
  <2>1. g = [i \in 0..0 |-> IF i = 0 THEN << >> ELSE Step(g[i - 1], i)]
    OBVIOUS
  <2> QED
    BY <2>1
<1>3. ASSUME NEW n \in 0..(Len(f) - 1), n \notin T
      PROVE  n + 1 \notin T
  <2>1. PICK g : Upto(g, n)
    BY <1>1, <1>3
  <2> DEFINE h == [i \in 0..(n + 1) |-> IF i = n + 1 THEN Step(g[n], n + 1)
                                        ELSE g[i]]
  <2>2. \A i \in 0..n : h[i] = g[i]
    BY <1>1
  <2>3. \A i \in 0..n : g[i] = IF i = 0 THEN << >> ELSE Step(g[i - 1], i)
    BY <2>1
  <2>4. \A i \in 0..(n + 1) : h[i] = IF i = 0 THEN << >> ELSE Step(h[i - 1], i)
    <3>1. TAKE i \in 0..(n + 1)
    <3>2. CASE i = n + 1
      <4>1. h[i] = Step(g[n], i) /\ h[i - 1] = g[n] /\ i # 0
        BY <1>1, <2>2, <3>2
      <4> HIDE DEF h
      <4> QED BY <4>1
    <3>3. CASE i # n + 1
      <4>1. i \in 0..n /\ (i # 0 => i - 1 \in 0..n)
        BY <1>1, <3>3
      <4>2. h[i] = g[i] /\ (i # 0 => h[i - 1] = g[i - 1])
        BY <2>2, <4>1
      <4> HIDE DEF h
      <4> QED BY <2>3, <4>1, <4>2
    <3> QED
      BY <3>2, <3>3
  <2>5. h = [i \in 0..(n + 1) |-> h[i]]
    OBVIOUS
  <2> HIDE DEF h
  <2>6. Upto(h, n + 1)
    BY <2>4, <2>5
  <2> QED
    BY <2>6
<1>4. T = {}
  <2>1. T \subseteq 0..Len(f)
    OBVIOUS
  <2> HIDE DEF T
  <2> QED
    BY <1>1, <1>2, <1>3, <2>1, FirstNumber
<1>5. Len(f) \in 0..Len(f)
  BY <1>1
<1>6. PICK g : Upto(g, Len(f))
  BY <1>4, <1>5
<1> QED
  BY <1>6 DEF Step

LEMMA PrunedDef ==
    ASSUME NEW f \in Seq(Line)
    PROVE  Pruned(f) = [i \in 0..Len(f) |->
                           IF i = 0 THEN << >>
                           ELSE IF Expired(f[i]) THEN Pruned(f)[i - 1]
                           ELSE Append(Pruned(f)[i - 1], f[i])]
BY PrunedExist, Zenon DEF Pruned

(* Nothing of no lines is kept; of the next line nothing or all.           *)
LEMMA PrunedAfter ==
    ASSUME NEW f \in Seq(Line)
    PROVE  /\ Pruned(f)[0] = << >>
           /\ \A i \in 1..Len(f) :
                 Pruned(f)[i] = IF Expired(f[i]) THEN Pruned(f)[i - 1]
                                ELSE Append(Pruned(f)[i - 1], f[i])
<1> DEFINE Step(kept, i) == IF Expired(f[i]) THEN kept ELSE Append(kept, f[i])
           p == Pruned(f)
<1>1. p = [i \in 0..Len(f) |-> IF i = 0 THEN << >> ELSE Step(p[i - 1], i)]
  BY PrunedDef
<1>2. Len(f) \in Nat
  BY LenProperties
<1> HIDE DEF p, Step
<1>3. p[0] = << >>
  BY <1>1, <1>2
<1>4. \A i \in 1..Len(f) : p[i] = Step(p[i - 1], i)
  BY <1>1, <1>2
<1> QED
  BY <1>3, <1>4 DEF p, Step

(* What is kept of the first n lines: each of those that have not expired, *)
(* once, in their order.                                                   *)
KeptFrom(f, n, kept, from) ==
    /\ from \in [1..Len(kept) -> 1..n]
    /\ \A i, j \in 1..Len(kept) : i < j => from[i] < from[j]
    /\ \A i \in 1..Len(kept) : /\ kept[i] = f[from[i]]
                               /\ ~ Expired(kept[i])
    /\ \A j \in 1..n : ~ Expired(f[j]) => \E i \in 1..Len(kept) : from[i] = j

LEMMA PrunedKeeps ==
    ASSUME NEW f \in Seq(Line), NEW n \in 0..Len(f)
    PROVE  /\ Pruned(f)[n] \in Seq(Line)
           /\ \E from : KeptFrom(f, n, Pruned(f)[n], from)
<1> DEFINE Good(i) == /\ Pruned(f)[i] \in Seq(Line)
                      /\ \E from : KeptFrom(f, i, Pruned(f)[i], from)
           T == {i \in 0..Len(f) : ~ Good(i)}
<1>1. Len(f) \in Nat /\ \A i \in 1..Len(f) : f[i] \in Line
  BY LenProperties, ElementOfSeq
<1>2. 0 \notin T
  <2>1. Pruned(f)[0] = << >>
    BY PrunedAfter
  <2>2. << >> \in Seq(Line) /\ Len(<< >>) = 0
    BY EmptySeq
  <2>3. KeptFrom(f, 0, << >>, << >>)
    BY <2>2 DEF KeptFrom
  <2> QED
    BY <2>1, <2>2, <2>3
<1>3. ASSUME NEW i \in 0..(Len(f) - 1), i \notin T
      PROVE  i + 1 \notin T
  <2> DEFINE old == Pruned(f)[i]
             new == Pruned(f)[i + 1]
             line == f[i + 1]
  <2>1. i \in Nat /\ i + 1 \in 1..Len(f) /\ (i + 1) - 1 = i
    BY <1>1
  <2>2. line \in Line
    BY <1>1, <2>1
  <2>3. new = IF Expired(line) THEN old ELSE Append(old, line)
    BY <2>1, PrunedAfter
  <2>4. old \in Seq(Line) /\ \E from : KeptFrom(f, i, old, from)
    BY <1>1, <1>3
  <2> HIDE DEF old, new, line
  <2>5. PICK from : KeptFrom(f, i, old, from)
    BY <2>4
  <2>6. Len(old) \in Nat
    BY <2>4, LenProperties
  <2>7. CASE Expired(line)
    <3>1. new = old
      BY <2>3, <2>7
    <3>2. KeptFrom(f, i + 1, old, from)
      <4>1. from \in [1..Len(old) -> 1..(i + 1)]
        BY <2>1, <2>5 DEF KeptFrom
      <4>2. \A j \in 1..(i + 1) : ~ Expired(f[j]) => j \in 1..i
        BY <2>1, <2>7 DEF line
      <4> QED
        BY <4>1, <4>2, <2>5 DEF KeptFrom
    <3> QED
      BY <2>4, <3>1, <3>2 DEF new
  <2>8. CASE ~ Expired(line)
    <3> DEFINE L == Len(old)
               to == [k \in 1..(L + 1) |-> IF k = L + 1 THEN i + 1 ELSE from[k]]
    <3>1. new = Append(old, line)
      BY <2>3, <2>8
    <3>2. /\ new \in Seq(Line) /\ Len(new) = L + 1 /\ new[L + 1] = line
          /\ \A k \in 1..L : new[k] = old[k]
      BY <2>2, <2>4, <3>1, AppendProperties
    <3>3. /\ from \in [1..L -> 1..i]
          /\ \A k, j \in 1..L : k < j => from[k] < from[j]
          /\ \A k \in 1..L : old[k] = f[from[k]] /\ ~ Expired(old[k])
          /\ \A j \in 1..i : ~ Expired(f[j]) => \E k \in 1..L : from[k] = j
      BY <2>5 DEF KeptFrom
    <3>4. L \in Nat
      BY <2>6
    <3> HIDE DEF L
    <3>5. /\ to[L + 1] = i + 1
          /\ \A k \in 1..L : to[k] = from[k]
          /\ to \in [1..(L + 1) -> 1..(i + 1)]
      BY <2>1, <3>3, <3>4
    <3> HIDE DEF to
    <3>6. \A k, j \in 1..(L + 1) : k < j => to[k] < to[j]
      <4>1. TAKE k, j \in 1..(L + 1)
      <4>2. HAVE k < j
      <4>3. k \in 1..L /\ to[k] = from[k] /\ from[k] \in 1..i
        BY <3>3, <3>4, <3>5, <4>2
      <4>4. CASE j = L + 1
        BY <2>1, <3>5, <4>3, <4>4
      <4>5. CASE j # L + 1
        <5>1. j \in 1..L /\ to[j] = from[j]
          BY <3>4, <3>5, <4>5
        <5> QED BY <3>3, <4>2, <4>3, <5>1
      <4> QED
        BY <4>4, <4>5
    <3>7. \A k \in 1..(L + 1) : new[k] = f[to[k]] /\ ~ Expired(new[k])
      <4>1. TAKE k \in 1..(L + 1)
      <4>2. CASE k = L + 1
        BY <2>8, <3>2, <3>5, <4>2 DEF line
      <4>3. CASE k # L + 1
        <5>1. k \in 1..L
          BY <3>4, <4>3
        <5> QED BY <3>2, <3>3, <3>5, <5>1
      <4> QED
        BY <4>2, <4>3
    <3>8. \A j \in 1..(i + 1) :
             ~ Expired(f[j]) => \E k \in 1..(L + 1) : to[k] = j
      <4>1. TAKE j \in 1..(i + 1)
      <4>2. HAVE ~ Expired(f[j])
      <4>3. CASE j = i + 1
        BY <3>4, <3>5, <4>3
      <4>4. CASE j # i + 1
        <5>1. PICK k \in 1..L : from[k] = j
          BY <2>1, <3>3, <4>2, <4>4
        <5> QED BY <3>4, <3>5, <5>1
      <4> QED
        BY <4>3, <4>4
    <3>9. KeptFrom(f, i + 1, new, to)
      BY <3>2, <3>5, <3>6, <3>7, <3>8 DEF KeptFrom
    <3> QED
      BY <3>2, <3>9 DEF new
  <2> QED
    BY <2>7, <2>8
<1>4. T = {}
  <2>1. T \subseteq 0..Len(f)
    OBVIOUS
  <2> HIDE DEF T
  <2> QED
    BY <1>1, <1>2, <1>3, <2>1, FirstNumber
<1> QED
  BY <1>4

LEMMA UnexpiredKeeps ==
    ASSUME NEW f \in Seq(Line)
    PROVE  /\ Unexpired(f) \in Seq(Line)
           /\ \E from : KeptFrom(f, Len(f), Unexpired(f), from)
<1>1. Len(f) \in 0..Len(f)
  BY LenProperties
<1> QED
  BY <1>1, PrunedKeeps DEF Unexpired

----------------------------------------------------------------------------
(* Lines and records.                                                      *)

LEMMA LineKinds ==
    /\ Broken \in Line /\ ~ IsRecord(Broken) /\ Broken.kind = "broken"
    /\ \A line \in Line : IsRecord(line) => /\ line.rec \in Record
                                            /\ line.old \in BOOLEAN
    /\ \A line \in Line : ~ IsRecord(line) => line \in {Broken, Foreign}
BY DEF Line, Broken, Foreign, IsRecord

LEMMA RecordFields ==
    ASSUME NEW r \in Record
    PROVE  /\ r.n \in 1..MaxWrites
           /\ r.update \in Update
           /\ r.update.id \in Ids
           /\ r.update.store \in Stores
           /\ r.update.op \in DOMAIN Ops[r.update.store]
BY DEF Record, Update, UpdatesOf

(* The line of a record that is written now.                               *)
LEMMA NewLine ==
    ASSUME TypeOK, writes < MaxWrites,
           NEW id \in Ids, NEW op \in DOMAIN Ops[store]
    PROVE  /\ Written(op, id).update \in UpdatesOf(store)
           /\ Written(op, id).n = writes + 1
           /\ Whole(Written(op, id)) \in Line
           /\ IsRecord(Whole(Written(op, id)))
           /\ ~ Expired(Whole(Written(op, id)))
           /\ Whole(Written(op, id)).rec = Written(op, id)
           /\ Written(op, id).update.id = id
<1> DEFINE r == Written(op, id)
<1>1. store \in Stores /\ writes + 1 \in 1..MaxWrites
  BY SessionFilesAssumption DEF TypeOK
<1>2. r.update \in UpdatesOf(store) /\ r.n = writes + 1 /\ r.update.id = id
  BY DEF Written, UpdatesOf
<1>3. r.update \in Update
  BY <1>1, <1>2 DEF Update
<1>4. r \in Record
  BY <1>1, <1>3 DEF Record, Written
<1> HIDE DEF r
<1> QED
  BY <1>2, <1>4 DEF Whole, Line, IsRecord, Expired, r

LEMMA FileShape ==
    ASSUME NEW f \in Seq(Line)
    PROVE  /\ Len(f) \in Nat
           /\ DOMAIN f = 1..Len(f)
           /\ \A i \in DOMAIN f : f[i] \in Line
           /\ \A i \in RecordsOf(f) : f[i].rec \in Record
           /\ Keys(f) \subseteq Ids
<1>1. Len(f) \in Nat /\ DOMAIN f = 1..Len(f) /\ \A i \in DOMAIN f : f[i] \in Line
  BY LenProperties, ElementOfSeq
<1>2. \A i \in RecordsOf(f) : f[i].rec \in Record
  BY <1>1, LineKinds DEF RecordsOf
<1>3. Keys(f) \subseteq Ids
  BY <1>2, RecordFields DEF Keys
<1> QED
  BY <1>1, <1>2, <1>3

----------------------------------------------------------------------------
(* What happens to the end of the file.                                    *)

(* The file without an unfinished end.                                     *)
LEMMA EndedShape ==
    ASSUME TypeOK
    PROVE  /\ Ended \in Seq(Line)
           /\ Len(Ended) = Len(file)
           /\ \A i \in DOMAIN file :
                 Ended[i] = IF unended /\ i = Len(file) THEN Broken ELSE file[i]
<1>1. file \in Seq(Line) /\ unended \in BOOLEAN /\ (unended => file # << >>)
  BY DEF TypeOK
<1>2. Broken \in Line
  BY LineKinds
<1>3. CASE unended
  <2>1. Len(file) \in 1..Len(file) /\ DOMAIN file = 1..Len(file)
    BY <1>1, <1>3, EmptySeq, LenProperties
  <2> QED
    BY <1>1, <1>2, <1>3, <2>1, ExceptSeq DEF Ended
<1>4. CASE ~ unended
  BY <1>1, <1>4 DEF Ended
<1> QED
  BY <1>3, <1>4

(* A line is appended, or spoils the unfinished end and itself.            *)
LEMMA AppendedShape ==
    ASSUME TypeOK, NEW line \in Line
    PROVE  /\ unended => Appended(line) = Ended
           /\ ~ unended => /\ Appended(line) = Append(file, line)
                           /\ Ended = file
           /\ Appended(line) \in Seq(Line)
           /\ Appended(line) # << >>
<1>1. file \in Seq(Line) /\ unended \in BOOLEAN /\ (unended => file # << >>)
  BY DEF TypeOK
<1>2. CASE unended
  <2>1. Appended(line) = Ended
    BY <1>2 DEF Appended, Ended
  <2>2. Ended \in Seq(Line) /\ Len(Ended) = Len(file)
    BY EndedShape
  <2>3. Ended # << >>
    BY <1>1, <1>2, <2>2, EmptySeq
  <2> QED
    BY <1>2, <2>1, <2>2, <2>3
<1>3. CASE ~ unended
  <2>1. Appended(line) = Append(file, line) /\ Ended = file
    BY <1>3 DEF Appended, Ended
  <2> QED
    BY <1>1, <1>3, <2>1, AppendProperties
<1> QED
  BY <1>2, <1>3

(* When time passes, records grow old and nothing else changes.            *)
LEMMA AgedShape ==
    ASSUME TypeOK, TimePasses
    PROVE  /\ file' \in Seq(Line)
           /\ Len(file') = Len(file) /\ DOMAIN file' = DOMAIN file
           /\ \A i \in DOMAIN file : /\ file'[i].kind = file[i].kind
                                     /\ IsRecord(file'[i]) <=> IsRecord(file[i])
                                     /\ IsRecord(file[i]) => file'[i].rec = file[i].rec
           /\ ~ IsLog(store) => file' = file
<1> DEFINE aged(line) == IF IsLog(store) /\ IsRecord(line)
                         THEN [line EXCEPT !.old = TRUE] ELSE line
<1>1. file \in Seq(Line) /\ Len(file) \in Nat /\ DOMAIN file = 1..Len(file)
      /\ \A i \in DOMAIN file : file[i] \in Line
  BY FileShape DEF TypeOK
<1>2. \A line \in Line : /\ aged(line) \in Line
                         /\ aged(line).kind = line.kind
                         /\ IsRecord(aged(line)) <=> IsRecord(line)
                         /\ IsRecord(line) => aged(line).rec = line.rec
                         /\ ~ IsLog(store) => aged(line) = line
  BY DEF Line, IsRecord, Broken, Foreign
<1>3. file' = [i \in 1..Len(file) |-> aged(file[i])]
  BY <1>1 DEF TimePasses
<1> HIDE DEF aged
<1>4. file' \in [1..Len(file) -> Line]
  BY <1>1, <1>2, <1>3
<1>5. file' \in Seq(Line) /\ Len(file') = Len(file)
  BY <1>1, <1>4
<1>6. \A i \in DOMAIN file : file'[i] = aged(file[i])
  BY <1>1, <1>3
<1>7. ~ IsLog(store) => file' = file
  <2>1. HAVE ~ IsLog(store)
  <2>2. \A i \in 1..Len(file) : file'[i] = file[i]
    BY <1>1, <1>2, <1>6, <2>1
  <2> QED
    BY <1>1, <1>5, <2>2, SeqEqual
<1> QED
  BY <1>1, <1>2, <1>3, <1>5, <1>6, <1>7

----------------------------------------------------------------------------
(* Types.                                                                  *)

LEMMA FirstFiles == file \in {<< >>, <<Foreign>>} => file \in Seq(Line)
<1>1. Foreign \in Line
  BY DEF Line
<1>2. <<Foreign>> \in Seq(Line)
  BY <1>1
<1> QED
  BY <1>2, EmptySeq

LEMMA TypeInit == Init => TypeOK
<1> SUFFICES ASSUME Init PROVE TypeOK
  OBVIOUS
<1>1. file \in Seq(Line)
  BY FirstFiles DEF Init
<1>2. seen = {} /\ acked = {} /\ writes = 0 /\ tears = 0 /\ restarts = 0
  BY DEF Init
<1>3. /\ seen \subseteq Ids /\ acked \subseteq 1..writes
      /\ writes \in 0..MaxWrites /\ tears \in 0..MaxTears
      /\ restarts \in 0..MaxRestarts
  BY <1>2, SessionFilesAssumption
<1>4. /\ store \in Stores /\ unended \in BOOLEAN /\ up \in BOOLEAN
      /\ loaded \in BOOLEAN /\ (unended => file # << >>)
  BY Zenon DEF Init
<1> QED
  BY <1>1, <1>3, <1>4, Zenon DEF TypeOK

(* What an append does besides what it does to the file.                   *)
LEMMA SucceedsEffect ==
    ASSUME NEW id \in Ids, NEW op \in DOMAIN Ops[store],
           AppendSucceeds(op, id)
    PROVE  /\ up /\ writes < MaxWrites /\ writes' = writes + 1
           /\ IsLog(store) => id \notin Known
           /\ acked' = acked \cup {writes + 1}
           /\ unended' = FALSE
           /\ IsLog(store) => seen' = Known \cup {id} /\ loaded' = TRUE
           /\ ~ IsLog(store) => UNCHANGED <<seen, loaded>>
           /\ UNCHANGED <<store, up, tears, restarts>>
BY Zenon DEF AppendSucceeds, Appends

LEMMA InterruptedEffect ==
    ASSUME NEW id \in Ids, NEW op \in DOMAIN Ops[store],
           AppendInterrupted(op, id)
    PROVE  /\ up /\ writes < MaxWrites /\ writes' = writes + 1
           /\ tears < MaxTears /\ tears' = tears + 1
           /\ IsLog(store) => id \notin Known
           /\ UNCHANGED <<store, acked>>
           /\ \/ /\ IsLog(store) => seen' = Known /\ loaded' = TRUE
                 /\ ~ IsLog(store) => UNCHANGED <<seen, loaded>>
                 /\ UNCHANGED <<up, restarts>>
              \/ /\ IsLog(store)
                 /\ restarts < MaxRestarts /\ restarts' = restarts + 1
                 /\ up' = FALSE /\ loaded' = FALSE /\ seen' = {}
           /\ \/ file' = file /\ unended' = unended
              \/ file' = Appended(Broken) /\ unended' = TRUE
              \/ file' = Appended(Whole(Written(op, id))) /\ unended' = TRUE
              \/ /\ IsLog(store) => ~ up'
                 /\ file' = Appended(Whole(Written(op, id)))
                 /\ unended' = FALSE
<1>1. Survives \/ Ends
  BY Zenon DEF AppendInterrupted
<1>2. Survives => /\ IsLog(store) => seen' = Known /\ loaded' = TRUE
                  /\ ~ IsLog(store) => UNCHANGED <<seen, loaded>>
                  /\ UNCHANGED <<up, restarts>>
  BY Zenon DEF Survives
<1>3. Ends => /\ IsLog(store)
              /\ restarts < MaxRestarts /\ restarts' = restarts + 1
              /\ up' = FALSE /\ loaded' = FALSE /\ seen' = {}
  BY Zenon DEF Ends
<1> QED
  BY <1>1, <1>2, <1>3, Zenon DEF AppendInterrupted, Appends

LEMMA KnownIds == TypeOK => Known \subseteq Ids
BY FileShape DEF TypeOK, Known

LEMMA TypeStep == TypeOK /\ [Next]_vars => TypeOK'
<1> SUFFICES ASSUME TypeOK, [Next]_vars PROVE TypeOK'
  OBVIOUS
<1> USE SessionFilesAssumption
<1>t. file \in Seq(Line) /\ (unended => file # << >>)
  BY DEF TypeOK
<1>s. seen \subseteq Ids /\ acked \subseteq 1..writes
  BY DEF TypeOK
<1>n. writes \in 0..MaxWrites /\ tears \in 0..MaxTears /\ restarts \in 0..MaxRestarts
  BY DEF TypeOK
<1>b. store \in Stores /\ unended \in BOOLEAN /\ up \in BOOLEAN /\ loaded \in BOOLEAN
  BY DEF TypeOK
<1>1. ASSUME NEW id \in Ids, NEW op \in DOMAIN Ops[store],
             AppendSucceeds(op, id)
      PROVE  TypeOK'
  <2>1. writes < MaxWrites /\ writes' = writes + 1
    BY <1>1, SucceedsEffect
  <2>2. file' \in Seq(Line) /\ unended' = FALSE
    BY <1>1, <2>1, NewLine, AppendedShape DEF AppendSucceeds
  <2>3. seen' \subseteq Ids /\ loaded' \in BOOLEAN
    <3>1. \/ seen' = Known \cup {id} /\ loaded' = TRUE
          \/ UNCHANGED <<seen, loaded>>
      BY <1>1, SucceedsEffect
    <3>2. loaded' \in BOOLEAN
      BY <1>b, <3>1, Zenon
    <3>3. seen' \subseteq Ids
      BY <1>s, <3>1, KnownIds
    <3> QED
      BY <3>2, <3>3
  <2>4. acked' \subseteq 1..writes'
    <3>1. acked' = acked \cup {writes + 1}
      BY <1>1, SucceedsEffect
    <3> QED
      BY <1>n, <1>s, <2>1, <3>1
  <2> QED
    <3>1. UNCHANGED <<store, up, tears, restarts>>
      BY <1>1, SucceedsEffect
    <3>2. writes' \in 0..MaxWrites
      BY <1>n, <2>1
    <3> QED
      BY <1>b, <1>n, <2>2, <2>3, <2>4, <3>1, <3>2, Zenon DEF TypeOK
<1>2. ASSUME NEW id \in Ids, NEW op \in DOMAIN Ops[store],
             AppendInterrupted(op, id)
      PROVE  TypeOK'
  <2>1. writes < MaxWrites /\ writes' = writes + 1
    BY <1>2, InterruptedEffect
  <2>2. /\ file' \in Seq(Line) /\ unended' \in BOOLEAN
        /\ unended' => file' # << >>
    <3>1. Broken \in Line /\ Whole(Written(op, id)) \in Line
      BY <2>1, LineKinds, NewLine
    <3> QED
      BY <1>2, <1>t, <3>1, AppendedShape, InterruptedEffect DEF TypeOK
  <2>3. /\ seen' \subseteq Ids /\ loaded' \in BOOLEAN /\ up' \in BOOLEAN
        /\ restarts' \in 0..MaxRestarts
    <3>1. \/ seen' = Known /\ loaded' = TRUE
          \/ UNCHANGED <<seen, loaded>>
          \/ seen' = {} /\ loaded' = FALSE
      BY <1>2, InterruptedEffect
    <3>2. \/ UNCHANGED <<up, restarts>>
          \/ up' = FALSE /\ restarts < MaxRestarts /\ restarts' = restarts + 1
      BY <1>2, InterruptedEffect
    <3>3. loaded' \in BOOLEAN /\ up' \in BOOLEAN
      BY <1>b, <3>1, <3>2, Zenon
    <3>4. seen' \subseteq Ids
      BY <1>s, <3>1, KnownIds
    <3>5. restarts' \in 0..MaxRestarts
      BY <1>n, <3>2
    <3> QED
      BY <3>3, <3>4, <3>5
  <2>4. tears' \in 0..MaxTears
    <3>1. tears < MaxTears /\ tears' = tears + 1
      BY <1>2, InterruptedEffect
    <3> QED
      BY <1>n, <3>1
  <2>5. acked' \subseteq 1..writes' /\ store' = store
    <3>1. acked' = acked /\ store' = store
      BY <1>2, InterruptedEffect
    <3> QED
      BY <1>n, <1>s, <2>1, <3>1
  <2> QED
    <3>1. writes' \in 0..MaxWrites
      BY <1>n, <2>1
    <3> QED
      BY <1>b, <2>2, <2>3, <2>4, <2>5, <3>1, Zenon DEF TypeOK
<1>3. CASE ProcessEnds
  <2>1. /\ UNCHANGED <<store, file, unended, acked, writes, tears>>
        /\ restarts < MaxRestarts /\ restarts' = restarts + 1
        /\ up' = FALSE /\ loaded' = FALSE /\ seen' = {}
    BY <1>3, Zenon DEF ProcessEnds, Ends
  <2>2. restarts' \in 0..MaxRestarts /\ seen' \subseteq Ids
    BY <1>n, <2>1
  <2> QED
    BY <1>t, <1>s, <1>n, <1>b, <2>1, <2>2, Zenon DEF TypeOK
<1>4. CASE ProcessStarts
  <2>1. CASE Prune
    <3>1. file' \in Seq(Line) /\ unended' = FALSE /\ seen' \subseteq Ids
          /\ loaded' = TRUE /\ acked' \subseteq acked
      <4>1. Unexpired(file) \in Seq(Line)
        BY <1>t, UnexpiredKeeps
      <4>2. Keys(Unexpired(file)) \subseteq Ids
        BY <4>1, FileShape
      <4> QED BY <2>1, <4>1, <4>2 DEF Prune
    <3> QED
      BY <1>4, <1>s, <1>n, <1>b, <3>1 DEF TypeOK, ProcessStarts
  <2>2. CASE UNCHANGED <<file, unended, seen, loaded, acked>>
    BY <1>4, <2>2 DEF TypeOK, ProcessStarts
  <2> QED
    BY <1>4, <2>1, <2>2 DEF ProcessStarts
<1>5. CASE TimePasses
  <2>1. file' \in Seq(Line) /\ (unended' => file' # << >>)
    <3>1. file' \in Seq(Line) /\ Len(file') = Len(file)
      BY <1>5, AgedShape
    <3>2. unended' => file # << >>
      BY <1>5 DEF TimePasses, TypeOK
    <3> QED
      BY <1>t, <3>1, <3>2, EmptySeq
  <2> QED
    BY <1>5, <1>s, <1>n, <1>b, <2>1 DEF TypeOK, TimePasses
<1>6. CASE UNCHANGED vars
  BY <1>6 DEF TypeOK, vars
<1> QED
  BY <1>1, <1>2, <1>3, <1>4, <1>5, <1>6 DEF Next

(* Every variable keeps its type: the file is a sequence of lines whatever *)
(* interrupted appends and pruning do to it.                               *)
THEOREM TypeCorrect == Spec => []TypeOK
BY TypeInit, TypeStep, PTL DEF Spec

----------------------------------------------------------------------------
(* The records of a file after each kind of step.                          *)

(* A file whose records are those of another one, each taken from a place  *)
(* of its own.                                                             *)
TakenFrom(g, f, from) ==
    /\ \A i \in RecordsOf(g) : from[i] \in RecordsOf(f) /\ g[i].rec = f[from[i]].rec
    /\ \A i, j \in RecordsOf(g) : from[i] = from[j] => i = j

LEMMA AppendRecords ==
    ASSUME NEW f \in Seq(Line), NEW line \in Line
    PROVE  /\ Append(f, line) \in Seq(Line)
           /\ Len(f) \in Nat /\ Len(Append(f, line)) = Len(f) + 1
           /\ Append(f, line)[Len(f) + 1] = line
           /\ \A i \in DOMAIN f : Append(f, line)[i] = f[i]
           /\ Len(f) + 1 \notin DOMAIN f
           /\ ~ IsRecord(line) => RecordsOf(Append(f, line)) = RecordsOf(f)
           /\ IsRecord(line) =>
                 RecordsOf(Append(f, line)) = RecordsOf(f) \cup {Len(f) + 1}
           /\ ~ IsRecord(line) => Keys(Append(f, line)) = Keys(f)
           /\ IsRecord(line) =>
                 Keys(Append(f, line)) = Keys(f) \cup {line.rec.update.id}
<1> DEFINE g == Append(f, line)
<1>1. Len(f) \in Nat /\ DOMAIN f = 1..Len(f)
  BY LenProperties
<1>2. /\ g \in Seq(Line) /\ Len(g) = Len(f) + 1 /\ g[Len(f) + 1] = line
      /\ \A i \in DOMAIN f : g[i] = f[i]
  BY <1>1, AppendProperties
<1>3. DOMAIN g = 1..(Len(f) + 1)
  BY <1>2, LenProperties
<1> HIDE DEF g
<1>4. /\ Len(f) + 1 \notin DOMAIN f
      /\ \A i \in DOMAIN g : i \in DOMAIN f \/ i = Len(f) + 1
      /\ DOMAIN f \subseteq DOMAIN g /\ Len(f) + 1 \in DOMAIN g
  BY <1>1, <1>3
<1>5. ~ IsRecord(line) => RecordsOf(g) = RecordsOf(f)
  BY <1>2, <1>4 DEF RecordsOf
<1>6. IsRecord(line) => RecordsOf(g) = RecordsOf(f) \cup {Len(f) + 1}
  BY <1>2, <1>4 DEF RecordsOf
<1>7. \A i \in RecordsOf(f) : g[i] = f[i]
  BY <1>2 DEF RecordsOf
<1>8. ~ IsRecord(line) => Keys(g) = Keys(f)
  BY <1>5, <1>7 DEF Keys
<1>9. IsRecord(line) => Keys(g) = Keys(f) \cup {line.rec.update.id}
  BY <1>2, <1>6, <1>7 DEF Keys
<1> QED
  BY <1>1, <1>2, <1>4, <1>5, <1>6, <1>8, <1>9 DEF g

LEMMA EndedRecords ==
    ASSUME TypeOK
    PROVE  /\ RecordsOf(Ended) \subseteq RecordsOf(file)
           /\ \A i \in RecordsOf(Ended) : Ended[i] = file[i]
           /\ \A i \in RecordsOf(file) :
                 i \notin RecordsOf(Ended) => unended /\ i = Len(file)
           /\ Keys(Ended) \subseteq Keys(file)
<1>1. file \in Seq(Line) /\ DOMAIN file = 1..Len(file)
  BY LenProperties DEF TypeOK
<1>2. DOMAIN Ended = DOMAIN file
  BY <1>1, EndedShape, LenProperties
<1>3. \A i \in DOMAIN file :
         Ended[i] = IF unended /\ i = Len(file) THEN Broken ELSE file[i]
  BY EndedShape
<1>4. ~ IsRecord(Broken)
  BY LineKinds
<1>5. /\ RecordsOf(Ended) \subseteq RecordsOf(file)
      /\ \A i \in RecordsOf(Ended) : Ended[i] = file[i]
      /\ \A i \in RecordsOf(file) :
            i \notin RecordsOf(Ended) => unended /\ i = Len(file)
  BY <1>2, <1>3, <1>4 DEF RecordsOf
<1> QED
  BY <1>5 DEF Keys

LEMMA UnexpiredRecords ==
    ASSUME NEW f \in Seq(Line)
    PROVE  \E from : TakenFrom(Unexpired(f), f, from)
<1> DEFINE g == Unexpired(f)
<1>1. g \in Seq(Line) /\ \E from : KeptFrom(f, Len(f), g, from)
  BY UnexpiredKeeps
<1> HIDE DEF g
<1>2. PICK from : KeptFrom(f, Len(f), g, from)
  BY <1>1
<1>3. /\ Len(f) \in Nat /\ DOMAIN f = 1..Len(f)
      /\ Len(g) \in Nat /\ DOMAIN g = 1..Len(g)
  BY <1>1, LenProperties
<1>4. \A i \in DOMAIN g : from[i] \in DOMAIN f /\ g[i] = f[from[i]]
  BY <1>2, <1>3 DEF KeptFrom
<1>5. \A i, j \in DOMAIN g : from[i] = from[j] => i = j
  <2>1. TAKE i, j \in DOMAIN g
  <2>2. HAVE from[i] = from[j]
  <2>3. from[i] \in Nat /\ from[j] \in Nat
    BY <1>3, <1>4
  <2>4. (i < j => from[i] < from[j]) /\ (j < i => from[j] < from[i])
    BY <1>2, <1>3 DEF KeptFrom
  <2> QED
    BY <1>3, <2>2, <2>3, <2>4
<1>6. TakenFrom(g, f, from)
  BY <1>4, <1>5 DEF TakenFrom, RecordsOf
<1> QED
  BY <1>6 DEF g

(* The end of the file after a step.                                       *)
LEMMA EndedNext ==
    ASSUME TypeOK
    PROVE  /\ ~ unended' => Ended' = file'
           /\ UNCHANGED <<file, unended>> => Ended' = Ended
           /\ \A line \in Line :
                 file' = Appended(line) /\ unended' =>
                     /\ unended => Ended' = Ended
                     /\ ~ unended => Ended' = Append(file, Broken)
<1>1. file \in Seq(Line) /\ DOMAIN file = 1..Len(file) /\ Len(file) \in Nat
      /\ unended \in BOOLEAN
  BY LenProperties DEF TypeOK
<1>2. ~ unended' => Ended' = file'
  BY Zenon DEF Ended
<1>3. UNCHANGED <<file, unended>> => Ended' = Ended
  BY DEF Ended
<1>4. ASSUME NEW line \in Line, file' = Appended(line), unended'
      PROVE  /\ unended => Ended' = Ended
             /\ ~ unended => Ended' = Append(file, Broken)
  <2>1. Ended' = [file' EXCEPT ![Len(file')] = Broken]
    BY <1>4, Zenon DEF Ended
  <2>2. CASE unended
    <3>1. file' = Ended
      BY <1>4, <2>2, AppendedShape
    <3>2. /\ Ended \in Seq(Line) /\ Len(Ended) = Len(file)
          /\ Ended = [file EXCEPT ![Len(file)] = Broken]
      BY <2>2, EndedShape DEF Ended
    <3>3. [Ended EXCEPT ![Len(file)] = Broken] = Ended
      BY <1>1, <3>2
    <3> QED
      BY <2>1, <2>2, <3>1, <3>2, <3>3
  <2>3. CASE ~ unended
    <3> DEFINE g == Append(file, line)
               h == Append(file, Broken)
               L == Len(file)
    <3>1. file' = g
      BY <1>4, <2>3, AppendedShape
    <3>2. /\ g \in Seq(Line) /\ Len(g) = L + 1
          /\ h \in Seq(Line) /\ Len(h) = L + 1 /\ h[L + 1] = Broken
          /\ \A i \in 1..L : g[i] = file[i] /\ h[i] = file[i]
      BY <1>1, LineKinds, AppendProperties
    <3>3. L \in Nat
      BY <1>1
    <3> HIDE DEF g, h, L
    <3>4. L + 1 \in 1..Len(g)
      BY <3>2, <3>3
    <3>5. /\ [g EXCEPT ![L + 1] = Broken] \in Seq(Line)
          /\ Len([g EXCEPT ![L + 1] = Broken]) = L + 1
          /\ \A i \in 1..(L + 1) : [g EXCEPT ![L + 1] = Broken][i] =
                                      IF i = L + 1 THEN Broken ELSE g[i]
      BY <3>2, <3>4, LineKinds, ExceptSeq
    <3>6. \A i \in 1..(L + 1) : [g EXCEPT ![L + 1] = Broken][i] = h[i]
      BY <3>2, <3>3, <3>5
    <3>7. [g EXCEPT ![L + 1] = Broken] = h
      BY <3>2, <3>5, <3>6, SeqEqual
    <3> QED
      BY <2>1, <2>3, <3>1, <3>2, <3>7 DEF h
  <2> QED
    BY <2>2, <2>3
<1> QED
  BY <1>2, <1>3, <1>4

LEMMA EndedAged ==
    ASSUME TypeOK, TimePasses
    PROVE  /\ Ended' \in Seq(Line) /\ Ended \in Seq(Line)
           /\ Len(Ended') = Len(Ended)
           /\ \A i \in DOMAIN Ended : /\ IsRecord(Ended'[i]) <=> IsRecord(Ended[i])
                                      /\ IsRecord(Ended[i]) =>
                                            Ended'[i].rec = Ended[i].rec
<1>1. /\ file' \in Seq(Line) /\ Len(file') = Len(file)
      /\ \A i \in DOMAIN file : /\ IsRecord(file'[i]) <=> IsRecord(file[i])
                                /\ IsRecord(file[i]) => file'[i].rec = file[i].rec
  BY AgedShape
<1>2. /\ file \in Seq(Line) /\ unended \in BOOLEAN /\ (unended => file # << >>)
      /\ unended' = unended
  BY DEF TypeOK, TimePasses
<1>3. CASE unended
  <2>1. Len(file) \in 1..Len(file) /\ DOMAIN file = 1..Len(file)
    BY <1>2, <1>3, EmptySeq, LenProperties
  <2>2. /\ Ended = [file EXCEPT ![Len(file)] = Broken]
        /\ Ended' = [file' EXCEPT ![Len(file)] = Broken]
    BY <1>1, <1>2, <1>3 DEF Ended
  <2>3. /\ Ended \in Seq(Line) /\ Len(Ended) = Len(file)
        /\ \A i \in 1..Len(file) : Ended[i] = IF i = Len(file) THEN Broken ELSE file[i]
    BY <1>2, <2>1, <2>2, LineKinds, ExceptSeq
  <2>4. /\ Ended' \in Seq(Line) /\ Len(Ended') = Len(file)
        /\ \A i \in 1..Len(file) : Ended'[i] = IF i = Len(file) THEN Broken ELSE file'[i]
    BY <1>1, <2>1, <2>2, LineKinds, ExceptSeq
  <2>5. DOMAIN Ended = 1..Len(file)
    BY <2>3, LenProperties
  <2>6. ~ IsRecord(Broken)
    BY LineKinds
  <2> QED
    BY <1>1, <2>1, <2>3, <2>4, <2>5, <2>6
<1>4. CASE ~ unended
  <2>1. Ended = file /\ Ended' = file'
    BY <1>2, <1>4 DEF Ended
  <2> QED
    BY <1>1, <1>2, <2>1
<1> QED
  BY <1>2, <1>3, <1>4

----------------------------------------------------------------------------
(* Whose records are in the file, and which of them a log knows of.        *)

(* The records are of this store and have been written already.            *)
RecordsInv == \A i \in RecordsOf(file) : /\ file[i].rec.update.store = store
                                         /\ file[i].rec.n <= writes

(* What a process has read, or written since, covers the records that the  *)
(* next append will not spoil; and no event has two.                       *)
OnceIn(f) == \A i, j \in RecordsOf(f) :
                f[i].rec.update.id = f[j].rec.update.id => i = j
LogInv == IsLog(store) => /\ loaded => Keys(Ended) \subseteq seen
                          /\ OnceIn(file)

LEMMA OnceIsLogged == LogInv => LoggedOnce
BY DEF LogInv, OnceIn, LoggedOnce, RecordsOf

LEMMA RecordsInit == Init => RecordsInv /\ LogInv
<1> SUFFICES ASSUME Init PROVE RecordsInv /\ LogInv
  OBVIOUS
<1>1. RecordsOf(file) = {}
  <2>1. CASE file = << >>
    BY <2>1, EmptySeq DEF RecordsOf
  <2>2. CASE file = <<Foreign>>
    BY <2>2 DEF RecordsOf, IsRecord, Foreign
  <2> QED
    BY <2>1, <2>2 DEF Init
<1>2. ~ loaded
  BY Zenon DEF Init
<1> QED
  BY <1>1, <1>2 DEF RecordsInv, LogInv, OnceIn

(* The records of a file that is made from another one.                    *)
LEMMA OnceTaken ==
    ASSUME NEW f, NEW g, NEW from, TakenFrom(g, f, from), OnceIn(f)
    PROVE  OnceIn(g)
BY DEF TakenFrom, OnceIn

LEMMA OnceEnded == TypeOK /\ OnceIn(file) => OnceIn(Ended)
BY EndedRecords DEF OnceIn

LEMMA OnceAppended ==
    ASSUME NEW f \in Seq(Line), NEW line \in Line, OnceIn(f),
           IsRecord(line) => line.rec.update.id \notin Keys(f)
    PROVE  OnceIn(Append(f, line))
<1> DEFINE g == Append(f, line)
           L == Len(f) + 1
<1>1. /\ \A i \in RecordsOf(f) : g[i] = f[i]
      /\ g[L] = line
      /\ ~ IsRecord(line) => RecordsOf(g) = RecordsOf(f)
      /\ IsRecord(line) => RecordsOf(g) = RecordsOf(f) \cup {L}
  BY AppendRecords DEF RecordsOf
<1>2. \A i \in RecordsOf(f) : f[i].rec.update.id \in Keys(f)
  BY DEF Keys
<1> HIDE DEF g, L
<1>3. \A i, j \in RecordsOf(f) : g[i].rec.update.id = g[j].rec.update.id => i = j
  BY <1>1 DEF OnceIn
<1>4. IsRecord(line) =>
         \A i \in RecordsOf(f) : g[i].rec.update.id # g[L].rec.update.id
  BY <1>1, <1>2
<1>5. \A i, j \in RecordsOf(g) : g[i].rec.update.id = g[j].rec.update.id => i = j
  BY <1>1, <1>3, <1>4
<1> QED
  BY <1>5 DEF OnceIn, g

(* Every file that a step leaves has its records from the one before, or   *)
(* has the one that is written in addition.                                *)
LEMMA FileNext ==
    ASSUME TypeOK, [Next]_vars
    PROVE  /\ store' = store
           /\ \/ /\ writes' = writes
                 /\ \E from : TakenFrom(file', file, from)
              \/ \E id \in Ids, op \in DOMAIN Ops[store] :
                    /\ writes < MaxWrites /\ writes' = writes + 1
                    /\ IsLog(store) => id \notin Known
                    /\ \/ file' = file
                       \/ file' = Appended(Broken)
                       \/ file' = Appended(Whole(Written(op, id)))
<1> DEFINE same == [i \in RecordsOf(file) |-> i]
<1>0. file \in Seq(Line)
  BY DEF TypeOK
<1>1. ASSUME NEW id \in Ids, NEW op \in DOMAIN Ops[store],
             AppendSucceeds(op, id)
      PROVE  /\ store' = store
             /\ writes < MaxWrites /\ writes' = writes + 1
             /\ IsLog(store) => id \notin Known
             /\ file' = Appended(Whole(Written(op, id)))
  BY <1>1, SucceedsEffect DEF AppendSucceeds
<1>2. ASSUME NEW id \in Ids, NEW op \in DOMAIN Ops[store],
             AppendInterrupted(op, id)
      PROVE  /\ store' = store
             /\ writes < MaxWrites /\ writes' = writes + 1
             /\ IsLog(store) => id \notin Known
             /\ \/ file' = file
                \/ file' = Appended(Broken)
                \/ file' = Appended(Whole(Written(op, id)))
  BY <1>2, InterruptedEffect
<1>3. file' = file => TakenFrom(file', file, same)
  BY DEF TakenFrom
<1>4. CASE ProcessEnds
  BY <1>3, <1>4 DEF ProcessEnds
<1>5. CASE ProcessStarts
  <2>1. store' = store /\ writes' = writes
    BY <1>5 DEF ProcessStarts
  <2>2. file' = Unexpired(file) \/ file' = file
    BY <1>5 DEF ProcessStarts, Prune
  <2> QED
    BY <1>0, <1>3, <2>1, <2>2, UnexpiredRecords
<1>6. CASE TimePasses
  <2>1. store' = store /\ writes' = writes
    BY <1>6 DEF TimePasses
  <2>2. TakenFrom(file', file, same)
    BY <1>6, AgedShape DEF TakenFrom, RecordsOf
  <2> QED
    BY <2>1, <2>2
<1>7. CASE UNCHANGED vars
  BY <1>3, <1>7 DEF vars
<1> QED
  BY <1>1, <1>2, <1>4, <1>5, <1>6, <1>7 DEF Next

LEMMA RecordsStep ==
    TypeOK /\ RecordsInv /\ [Next]_vars => RecordsInv'
<1> SUFFICES ASSUME TypeOK, RecordsInv, [Next]_vars PROVE RecordsInv'
  OBVIOUS
<1>1. store' = store
  BY FileNext
<1>2. CASE writes' = writes /\ \E from : TakenFrom(file', file, from)
  BY <1>1, <1>2 DEF RecordsInv, TakenFrom
<1>3. ASSUME NEW id \in Ids, NEW op \in DOMAIN Ops[store],
             writes < MaxWrites, writes' = writes + 1,
             \/ file' = file
             \/ file' = Appended(Broken)
             \/ file' = Appended(Whole(Written(op, id)))
      PROVE  RecordsInv'
  <2>1. writes \in Nat /\ file \in Seq(Line)
    BY DEF TypeOK
  <2>2. \A i \in RecordsOf(file) : /\ file[i].rec.update.store = store
                                   /\ file[i].rec.n <= writes + 1
    <3>1. \A i \in RecordsOf(file) : file[i].rec.n \in Nat
      BY <2>1, FileShape, RecordFields
    <3> QED
      BY <2>1, <3>1 DEF RecordsInv
  <2>3. CASE file' = file
    BY <1>1, <1>3, <2>2, <2>3 DEF RecordsInv
  <2>4. ASSUME NEW line \in Line, file' = Appended(line),
               IsRecord(line) => /\ line.rec.update.store = store
                                 /\ line.rec.n <= writes + 1
        PROVE  RecordsInv'
    <3>1. CASE unended
      <4>1. file' = Ended
        BY <2>4, <3>1, AppendedShape
      <4> QED
        BY <1>1, <1>3, <2>2, <4>1, EndedRecords DEF RecordsInv
    <3>2. CASE ~ unended
      <4>1. file' = Append(file, line)
        BY <2>4, <3>2, AppendedShape
      <4>2. \A i \in RecordsOf(file') :
               \/ i \in RecordsOf(file) /\ file'[i] = file[i]
               \/ IsRecord(line) /\ file'[i] = line
        BY <2>1, <4>1, AppendRecords DEF RecordsOf
      <4> QED
        BY <1>1, <1>3, <2>2, <2>4, <4>2 DEF RecordsInv
    <3> QED
      BY <3>1, <3>2
  <2>5. CASE file' = Appended(Broken)
    BY <2>4, <2>5, LineKinds
  <2>6. CASE file' = Appended(Whole(Written(op, id)))
    <3> DEFINE line == Whole(Written(op, id))
    <3>1. line \in Line /\ line.rec.n = writes + 1
          /\ line.rec.update \in UpdatesOf(store)
      BY <1>3, NewLine
    <3>2. line.rec.update.store = store
      BY <3>1 DEF UpdatesOf
    <3>3. line.rec.n <= writes + 1
      BY <2>1, <3>1
    <3> HIDE DEF line
    <3> QED
      BY <2>4, <2>6, <3>1, <3>2, <3>3 DEF line
  <2> QED
    BY <1>3, <2>3, <2>5, <2>6
<1> QED
  BY <1>2, <1>3, FileNext

(* An append adds an event only if the file, but for an end that it        *)
(* spoils, does not have it.                                               *)
LEMMA LogAppend ==
    ASSUME TypeOK, LogInv, IsLog(store), store' = store,
           NEW line \in Line, file' = Appended(line),
           IsRecord(line) => line.rec.update.id \notin Known
    PROVE  OnceIn(file)'
<1>1. OnceIn(file) /\ file \in Seq(Line)
  BY DEF LogInv, TypeOK
<1>2. CASE unended
  BY <1>1, <1>2, OnceEnded, AppendedShape DEF OnceIn
<1>3. CASE ~ unended
  <2>1. file' = Append(file, line) /\ Ended = file
    BY <1>3, AppendedShape
  <2>2. Keys(file) \subseteq Known
    BY <2>1 DEF Known, LogInv
  <2>3. OnceIn(Append(file, line))
    BY <1>1, <2>2, OnceAppended
  <2> QED
    BY <2>1, <2>3 DEF OnceIn
<1> QED
  BY <1>2, <1>3

(* What the process knows of the log after an append.                      *)
LEMMA KnownAppend ==
    ASSUME TypeOK, LogInv, IsLog(store), NEW line \in Line,
           file' = Appended(line),
           unended' \/ (IsRecord(line) => line.rec.update.id \in seen'),
           Known \subseteq seen'
    PROVE  Keys(Ended)' \subseteq seen'
<1>1. Keys(Ended) \subseteq seen'
  <2>1. Keys(Ended) \subseteq Known
    BY EndedRecords DEF Known, LogInv
  <2> QED BY <2>1
<1>2. file \in Seq(Line) /\ Broken \in Line /\ ~ IsRecord(Broken)
  BY LineKinds DEF TypeOK
<1>3. Keys(Append(file, Broken)) = Keys(file)
  BY <1>2, AppendRecords
<1>4. ~ unended => Ended = file
  BY DEF Ended
<1>5. CASE unended'
  <2>1. Ended' = Ended \/ (~ unended /\ Ended' = Append(file, Broken))
    BY <1>5, EndedNext
  <2>2. Keys(Ended') = Keys(Ended)
    BY <1>3, <1>4, <2>1
  <2> QED
    BY <1>1, <2>2 DEF Keys
<1>6. CASE ~ unended'
  <2>1. Ended' = Appended(line)
    BY <1>6, EndedNext
  <2>2. CASE unended
    <3>1. Ended' = Ended
      BY <2>1, <2>2, AppendedShape
    <3> QED
      BY <1>1, <3>1 DEF Keys
  <2>3. CASE ~ unended
    <3>1. Ended' = Append(file, line)
      BY <2>1, <2>3, AppendedShape
    <3>2. Keys(Append(file, line)) \subseteq seen'
      BY <1>1, <1>2, <1>4, <1>6, <2>3, AppendRecords
    <3> QED
      BY <3>1, <3>2 DEF Keys
  <2> QED
    BY <2>2, <2>3
<1> QED
  BY <1>5, <1>6

LEMMA LogStep ==
    TypeOK /\ LogInv /\ [Next]_vars => LogInv'
<1> SUFFICES ASSUME TypeOK, LogInv, [Next]_vars, IsLog(store)'
             PROVE  /\ loaded' => Keys(Ended)' \subseteq seen'
                    /\ OnceIn(file)'
  BY DEF LogInv
<1>1. store' = store /\ IsLog(store)
  BY FileNext DEF IsLog
<1>2. OnceIn(file) /\ file \in Seq(Line)
  BY <1>1 DEF LogInv, TypeOK
<1>3. ASSUME NEW id \in Ids, NEW op \in DOMAIN Ops[store],
             AppendSucceeds(op, id)
      PROVE  /\ Keys(Ended)' \subseteq seen'
             /\ OnceIn(file)'
  <2> DEFINE line == Whole(Written(op, id))
  <2>1. id \notin Known /\ seen' = Known \cup {id}
    BY <1>1, <1>3, SucceedsEffect
  <2>2. line \in Line /\ line.rec.update.id = id /\ file' = Appended(line)
    BY <1>3, NewLine, SucceedsEffect DEF AppendSucceeds
  <2> HIDE DEF line
  <2> QED
    BY <1>1, <2>1, <2>2, LogAppend, KnownAppend
<1>4. ASSUME NEW id \in Ids, NEW op \in DOMAIN Ops[store],
             AppendInterrupted(op, id)
      PROVE  /\ loaded' => Keys(Ended)' \subseteq seen'
             /\ OnceIn(file)'
  <2> DEFINE line == Whole(Written(op, id))
  <2>1. id \notin Known
    BY <1>1, <1>4, InterruptedEffect
  <2>2. line \in Line /\ line.rec.update.id = id
    BY <1>4, NewLine, InterruptedEffect
  <2>3. loaded' => seen' = Known /\ up'
    BY <1>1, <1>4, InterruptedEffect
  <2>4. Broken \in Line /\ ~ IsRecord(Broken)
    BY LineKinds
  <2> HIDE DEF line
  <2>5. CASE file' = file /\ unended' = unended
    <3>1. OnceIn(file)'
      BY <1>2, <2>5 DEF OnceIn
    <3>2. Keys(Ended)' = Keys(Ended)
      BY <2>5, EndedNext DEF Keys
    <3>3. Keys(Ended) \subseteq Known
      BY <1>1, EndedRecords DEF Known, LogInv
    <3> QED
      BY <2>3, <3>1, <3>2, <3>3
  <2>6. CASE file' = Appended(Broken) /\ unended' = TRUE
    BY <1>1, <2>3, <2>4, <2>6, LogAppend, KnownAppend
  <2>7. CASE file' = Appended(line) /\ unended' = TRUE
    BY <1>1, <2>1, <2>2, <2>3, <2>7, LogAppend, KnownAppend
  <2>8. CASE /\ IsLog(store) => ~ up'
             /\ file' = Appended(line)
             /\ unended' = FALSE
    BY <1>1, <2>1, <2>2, <2>3, <2>8, LogAppend
  <2> QED
    BY <1>4, <2>5, <2>6, <2>7, <2>8, InterruptedEffect DEF line
<1>5. CASE ProcessEnds
  <2>1. file' = file /\ ~ loaded'
    BY <1>5, Zenon DEF ProcessEnds, Ends
  <2> QED
    BY <1>2, <2>1 DEF OnceIn
<1>6. CASE ProcessStarts
  <2>1. CASE Prune
    <3>1. /\ file' = Unexpired(file) /\ unended' = FALSE
          /\ seen' = Keys(file')
      BY <2>1 DEF Prune
    <3>2. Ended' = file'
      BY <3>1, EndedNext
    <3>3. OnceIn(Unexpired(file))
      BY <1>2, OnceTaken, UnexpiredRecords
    <3> QED
      BY <3>1, <3>2, <3>3 DEF OnceIn, Keys
  <2>2. CASE UNCHANGED <<file, unended, seen, loaded, acked>>
    <3>1. Ended' = Ended
      BY <2>2, EndedNext
    <3> QED
      BY <1>1, <1>2, <2>2, <3>1 DEF OnceIn, Keys, LogInv
  <2> QED
    BY <1>6, <2>1, <2>2 DEF ProcessStarts
<1>7. CASE TimePasses
  <2>1. /\ DOMAIN file' = DOMAIN file /\ Len(file') = Len(file)
        /\ file' \in Seq(Line)
        /\ \A i \in DOMAIN file : /\ IsRecord(file'[i]) <=> IsRecord(file[i])
                                  /\ IsRecord(file[i]) => file'[i].rec = file[i].rec
    BY <1>7, AgedShape
  <2>2. unended' = unended /\ loaded' = loaded /\ seen' = seen
    BY <1>7 DEF TimePasses
  <2>3. OnceIn(file)'
    BY <1>2, <2>1 DEF OnceIn, RecordsOf
  <2>4. /\ DOMAIN Ended' = DOMAIN Ended
        /\ \A i \in DOMAIN Ended : /\ IsRecord(Ended'[i]) <=> IsRecord(Ended[i])
                                   /\ IsRecord(Ended[i]) => Ended'[i].rec = Ended[i].rec
    BY <1>7, EndedAged, LenProperties
  <2>5. Keys(Ended') = Keys(Ended)
    BY <2>4 DEF Keys, RecordsOf
  <2> QED
    BY <1>1, <2>2, <2>3, <2>5 DEF Keys, LogInv
<1>8. CASE UNCHANGED vars
  <2>1. file' = file /\ unended' = unended /\ loaded' = loaded /\ seen' = seen
    BY <1>8 DEF vars
  <2>2. Ended' = Ended
    BY <2>1, EndedNext
  <2> QED
    BY <1>1, <1>2, <2>1, <2>2 DEF OnceIn, Keys, LogInv
<1> QED
  BY <1>3, <1>4, <1>5, <1>6, <1>7, <1>8 DEF Next

----------------------------------------------------------------------------
(* What is lost.                                                           *)

(* An unfinished end is not of an acknowledged record.                     *)
EndInv == unended /\ Len(file) \in RecordsOf(file) =>
             file[Len(file)].rec.n \notin acked

Numbers(f) == {f[i].rec.n : i \in RecordsOf(f)}

LEMMA LostOf == Lost = acked \ Numbers(file)
BY DEF Lost, Readable, Numbers

LEMMA NumbersAppended ==
    ASSUME NEW f \in Seq(Line), NEW line \in Line
    PROVE  /\ ~ IsRecord(line) => Numbers(Append(f, line)) = Numbers(f)
           /\ IsRecord(line) =>
                 Numbers(Append(f, line)) = Numbers(f) \cup {line.rec.n}
<1> DEFINE g == Append(f, line)
           L == Len(f) + 1
<1>1. /\ \A i \in RecordsOf(f) : g[i] = f[i]
      /\ g[L] = line
      /\ ~ IsRecord(line) => RecordsOf(g) = RecordsOf(f)
      /\ IsRecord(line) => RecordsOf(g) = RecordsOf(f) \cup {L}
  BY AppendRecords DEF RecordsOf
<1> HIDE DEF g, L
<1> QED
  BY <1>1 DEF Numbers, g

(* To spoil an unfinished end loses nothing.                               *)
LEMMA LostEnded ==
    ASSUME TypeOK, EndInv, unended
    PROVE  acked \ Numbers(Ended) = Lost
<1>1. \A n \in Numbers(file) : n \in Numbers(Ended) \/ n \notin acked
  <2>1. TAKE n \in Numbers(file)
  <2>2. PICK i \in RecordsOf(file) : n = file[i].rec.n
    BY DEF Numbers
  <2>3. CASE i \in RecordsOf(Ended)
    BY <2>2, <2>3, EndedRecords DEF Numbers
  <2>4. CASE i \notin RecordsOf(Ended)
    BY <2>2, <2>4, EndedRecords DEF EndInv
  <2> QED
    BY <2>3, <2>4
<1>2. Numbers(Ended) \subseteq Numbers(file)
  BY EndedRecords DEF Numbers
<1> QED
  BY <1>1, <1>2, LostOf

(* An append whose record is not acknowledged loses nothing.               *)
LEMMA LostAppended ==
    ASSUME TypeOK, RecordsInv, EndInv, NEW line \in Line,
           IsRecord(line) => line.rec.n = writes + 1,
           file' = Appended(line), acked' = acked
    PROVE  Lost' = Lost
<1>1. file \in Seq(Line) /\ writes + 1 \notin acked
  BY DEF TypeOK
<1>2. Lost' = acked \ Numbers(file')
  BY DEF Lost, Readable, Numbers
<1>3. CASE unended
  BY <1>2, <1>3, AppendedShape, LostEnded
<1>4. CASE ~ unended
  <2>1. file' = Append(file, line)
    BY <1>4, AppendedShape
  <2>2. Numbers(file') = Numbers(file) \/ Numbers(file') = Numbers(file) \cup {writes + 1}
    BY <1>1, <2>1, NumbersAppended
  <2> QED
    BY <1>1, <1>2, <2>2, LostOf
<1> QED
  BY <1>3, <1>4

(* A write that follows an interrupted one is lost, and no other.          *)
LEMMA LostSucceeds ==
    ASSUME TypeOK, RecordsInv, EndInv,
           NEW id \in Ids, NEW op \in DOMAIN Ops[store],
           AppendSucceeds(op, id)
    PROVE  /\ unended => Lost' = Lost \cup {writes + 1}
           /\ ~ unended => Lost' = Lost
           /\ writes + 1 \notin Lost
<1> DEFINE line == Whole(Written(op, id))
<1>1. /\ file \in Seq(Line) /\ writes + 1 \notin acked /\ writes \in Nat
  BY DEF TypeOK
<1>2. /\ line \in Line /\ IsRecord(line) /\ line.rec.n = writes + 1
      /\ file' = Appended(line) /\ acked' = acked \cup {writes + 1}
  BY SucceedsEffect, NewLine DEF AppendSucceeds
<1> HIDE DEF line
<1>3. Lost' = (acked \cup {writes + 1}) \ Numbers(file')
  BY <1>2 DEF Lost, Readable, Numbers
<1>4. writes + 1 \notin Numbers(file)
  <2>1. \A n \in Numbers(file) : n \in Nat /\ n <= writes
    BY <1>1, FileShape, RecordFields DEF Numbers, RecordsInv
  <2> QED
    BY <1>1, <2>1
<1>5. CASE unended
  <2>1. Numbers(Ended) \subseteq Numbers(file)
    BY EndedRecords DEF Numbers
  <2>2. file' = Ended
    BY <1>2, <1>5, AppendedShape
  <2> QED
    BY <1>1, <1>3, <1>4, <1>5, <2>1, <2>2, LostEnded, LostOf
<1>6. CASE ~ unended
  <2>1. file' = Append(file, line)
    BY <1>2, <1>6, AppendedShape
  <2>2. Numbers(file') = Numbers(file) \cup {writes + 1}
    BY <1>1, <1>2, <2>1, NumbersAppended
  <2> QED
    BY <1>1, <1>3, <1>6, <2>2, LostOf
<1> QED
  BY <1>1, <1>5, <1>6, LostOf

LEMMA LostInterrupted ==
    ASSUME TypeOK, RecordsInv, EndInv,
           NEW id \in Ids, NEW op \in DOMAIN Ops[store],
           AppendInterrupted(op, id)
    PROVE  Lost' = Lost
<1> DEFINE line == Whole(Written(op, id))
<1>1. /\ acked' = acked
      /\ file' = file \/ file' = Appended(Broken) \/ file' = Appended(line)
  BY InterruptedEffect
<1>2. line \in Line /\ line.rec.n = writes + 1
  <2>1. writes < MaxWrites
    BY InterruptedEffect
  <2> QED
    BY <2>1, NewLine
<1>3. Broken \in Line /\ ~ IsRecord(Broken)
  BY LineKinds
<1> HIDE DEF line
<1>4. file' = file => Lost' = Lost
  BY <1>1 DEF Lost, Readable
<1> QED
  BY <1>1, <1>2, <1>3, <1>4, LostAppended

(* What has expired is neither acknowledged nor lost any more.             *)
LEMMA LostPruned ==
    ASSUME TypeOK, Prune
    PROVE  Lost' = Lost
<1> DEFINE g == Unexpired(file)
           X == ExpiredNumbers(file)
<1>1. file' = g /\ acked' = acked \ X
  BY DEF Prune
<1>2. file \in Seq(Line) /\ g \in Seq(Line)
  BY UnexpiredKeeps DEF TypeOK
<1>3. DOMAIN file = 1..Len(file) /\ DOMAIN g = 1..Len(g)
  BY <1>2, LenProperties
<1>4. PICK from : KeptFrom(file, Len(file), g, from)
  BY <1>2, UnexpiredKeeps
<1>5. Lost' = (acked \ X) \ Numbers(g)
  BY <1>1 DEF Lost, Readable, Numbers
<1> HIDE DEF g
<1>6. X \subseteq Numbers(file)
  BY DEF ExpiredNumbers, Expired, Numbers, RecordsOf
<1>7. Numbers(file) \subseteq X \cup Numbers(g)
  <2>1. SUFFICES ASSUME NEW j \in RecordsOf(file)
                 PROVE  file[j].rec.n \in X \cup Numbers(g)
    BY DEF Numbers
  <2>2. j \in DOMAIN file /\ IsRecord(file[j])
    BY DEF RecordsOf
  <2>3. CASE Expired(file[j])
    BY <2>2, <2>3 DEF ExpiredNumbers
  <2>4. CASE ~ Expired(file[j])
    <3>1. PICK i \in 1..Len(g) : from[i] = j
      BY <1>3, <1>4, <2>2, <2>4 DEF KeptFrom
    <3>2. g[i] = file[j]
      BY <1>4, <3>1 DEF KeptFrom
    <3> QED
      BY <1>3, <2>2, <3>1, <3>2 DEF Numbers, RecordsOf
  <2> QED
    BY <2>3, <2>4
<1>8. Numbers(g) \subseteq Numbers(file)
  <2>1. SUFFICES ASSUME NEW i \in RecordsOf(g)
                 PROVE  g[i].rec.n \in Numbers(file)
    BY DEF Numbers
  <2>2. i \in 1..Len(g) /\ IsRecord(g[i])
    BY <1>3 DEF RecordsOf
  <2>3. g[i] = file[from[i]] /\ from[i] \in DOMAIN file
    BY <1>3, <1>4, <2>2 DEF KeptFrom
  <2> QED
    BY <2>2, <2>3 DEF Numbers, RecordsOf
<1> HIDE DEF X
<1> QED
  BY <1>5, <1>6, <1>7, <1>8, LostOf

LEMMA LostUnchanged ==
    ASSUME TypeOK, UNCHANGED acked, UNCHANGED file \/ TimePasses
    PROVE  Lost' = Lost
<1>1. CASE UNCHANGED file
  BY <1>1 DEF Lost, Readable
<1>2. CASE TimePasses
  <2>1. Numbers(file') = Numbers(file)
    BY <1>2, AgedShape DEF Numbers, RecordsOf
  <2> QED
    BY <2>1 DEF Lost, Readable, Numbers
<1> QED
  BY <1>1, <1>2

(* Each interrupted append may cost one record, and an unfinished end may  *)
(* still have to.                                                          *)
Owed == IF unended THEN 1 ELSE 0
LossInv == Cardinality(Lost) + Owed <= tears

LEMMA LostFinite == TypeOK => IsFiniteSet(Lost) /\ Cardinality(Lost) \in Nat
<1> SUFFICES ASSUME TypeOK PROVE IsFiniteSet(Lost) /\ Cardinality(Lost) \in Nat
  OBVIOUS
<1>1. IsFiniteSet(1..writes)
  BY FS_Interval DEF TypeOK
<1>2. Lost \subseteq 1..writes
  BY DEF Lost, TypeOK
<1> QED
  BY <1>1, <1>2, FS_Subset, FS_CardinalityType

LEMMA LossInit == Init => EndInv /\ LossInv
<1> SUFFICES ASSUME Init PROVE EndInv /\ LossInv
  OBVIOUS
<1>1. ~ unended
  BY Zenon DEF Init
<1>2. Lost = {} /\ tears = 0
  BY DEF Init, Lost
<1> QED
  BY <1>1, <1>2, FS_EmptySet DEF EndInv, LossInv, Owed

LEMMA EndStep ==
    TypeOK /\ RecordsInv /\ EndInv /\ [Next]_vars => EndInv'
<1> SUFFICES ASSUME TypeOK, RecordsInv, EndInv, [Next]_vars,
                    unended', Len(file') \in RecordsOf(file')
             PROVE  file'[Len(file')].rec.n \notin acked'
  BY DEF EndInv, RecordsOf
<1>1. file \in Seq(Line) /\ writes + 1 \notin acked /\ Len(file) \in Nat
  BY LenProperties DEF TypeOK
<1>2. ASSUME NEW id \in Ids, NEW op \in DOMAIN Ops[store],
             AppendSucceeds(op, id)
      PROVE  FALSE
  BY <1>2, SucceedsEffect
<1>3. ASSUME NEW id \in Ids, NEW op \in DOMAIN Ops[store],
             AppendInterrupted(op, id)
      PROVE  file'[Len(file')].rec.n \notin acked'
  <2> DEFINE line == Whole(Written(op, id))
  <2>1. writes < MaxWrites /\ acked' = acked
    BY <1>3, InterruptedEffect
  <2>2. line \in Line /\ line.rec.n = writes + 1
    BY <2>1, NewLine
  <2>3. Broken \in Line /\ ~ IsRecord(Broken)
    BY LineKinds
  <2> HIDE DEF line
  <2>4. CASE file' = file /\ unended' = unended
    BY <2>1, <2>4 DEF EndInv
  <2>5. ASSUME NEW new \in Line, file' = Appended(new),
               IsRecord(new) => new.rec.n = writes + 1
        PROVE  file'[Len(file')].rec.n \notin acked'
    <3>1. CASE unended
      <4>1. file' = Ended
        BY <2>5, <3>1, AppendedShape
      <4>2. Len(Ended) = Len(file) /\ Len(file) \in RecordsOf(Ended)
        BY <4>1, EndedShape
      <4>3. Ended[Len(file)] = file[Len(file)] /\ Len(file) \in RecordsOf(file)
        BY <4>2, EndedRecords
      <4> QED
        BY <2>1, <3>1, <4>1, <4>2, <4>3 DEF EndInv
    <3>2. CASE ~ unended
      <4>1. file' = Append(file, new)
        BY <2>5, <3>2, AppendedShape
      <4>2. file'[Len(file')] = new
        BY <1>1, <4>1, AppendRecords
      <4>3. IsRecord(new)
        BY <4>2 DEF RecordsOf
      <4> QED
        BY <1>1, <2>1, <2>5, <4>2, <4>3
    <3> QED
      BY <3>1, <3>2
  <2> QED
    BY <1>3, <2>2, <2>3, <2>4, <2>5, InterruptedEffect DEF line
<1>4. CASE ProcessEnds
  BY <1>4 DEF ProcessEnds, EndInv
<1>5. CASE ProcessStarts
  <2>1. ~ Prune
    BY Zenon DEF Prune
  <2>2. UNCHANGED <<file, unended, seen, loaded, acked>>
    BY <1>5, <2>1 DEF ProcessStarts
  <2> QED
    BY <2>2 DEF EndInv
<1>6. CASE TimePasses
  <2>1. Len(file') = Len(file) /\ DOMAIN file' = DOMAIN file
        /\ \A i \in DOMAIN file : /\ IsRecord(file'[i]) <=> IsRecord(file[i])
                                  /\ IsRecord(file[i]) => file'[i].rec = file[i].rec
    BY <1>6, AgedShape
  <2>2. unended' = unended /\ acked' = acked
    BY <1>6 DEF TimePasses
  <2>3. Len(file) \in RecordsOf(file)
        /\ file'[Len(file')].rec = file[Len(file)].rec
    BY <2>1 DEF RecordsOf
  <2> QED
    BY <2>2, <2>3 DEF EndInv
<1>7. CASE UNCHANGED vars
  BY <1>7 DEF vars, EndInv
<1> QED
  BY <1>2, <1>3, <1>4, <1>5, <1>6, <1>7 DEF Next

LEMMA LossStep ==
    TypeOK /\ RecordsInv /\ EndInv /\ LossInv /\ [Next]_vars => LossInv'
<1> SUFFICES ASSUME TypeOK, RecordsInv, EndInv, LossInv, [Next]_vars
             PROVE  LossInv'
  OBVIOUS
<1>1. /\ IsFiniteSet(Lost) /\ Cardinality(Lost) \in Nat
      /\ Cardinality(Lost) + Owed <= tears /\ tears \in Nat
  BY LostFinite DEF LossInv, TypeOK
<1>2. /\ unended => Owed = 1
      /\ ~ unended => Owed = 0
      /\ Owed' \in {0, 1}
      /\ ~ unended' => Owed' = 0
  BY DEF Owed
<1>3. ASSUME NEW id \in Ids, NEW op \in DOMAIN Ops[store],
             AppendSucceeds(op, id)
      PROVE  LossInv'
  <2>1. ~ unended' /\ tears' = tears
    BY <1>3, SucceedsEffect
  <2>2. CASE unended
    <3>1. Lost' = Lost \cup {writes + 1} /\ writes + 1 \notin Lost
      BY <1>3, <2>2, LostSucceeds
    <3>2. Cardinality(Lost \cup {writes + 1}) = Cardinality(Lost) + 1
      BY <1>1, <3>1, FS_AddElement
    <3> QED
      BY <1>1, <1>2, <2>1, <2>2, <3>1, <3>2 DEF LossInv
  <2>3. CASE ~ unended
    BY <1>1, <1>2, <1>3, <2>1, <2>3, LostSucceeds DEF LossInv
  <2> QED
    BY <2>2, <2>3
<1>4. ASSUME NEW id \in Ids, NEW op \in DOMAIN Ops[store],
             AppendInterrupted(op, id)
      PROVE  LossInv'
  <2>1. tears' = tears + 1
    BY <1>4, InterruptedEffect
  <2>2. Lost' = Lost
    BY <1>4, LostInterrupted
  <2>3. Cardinality(Lost) <= tears
    BY <1>1, <1>2
  <2> QED
    BY <1>1, <1>2, <2>1, <2>2, <2>3 DEF LossInv
<1>5. CASE ProcessEnds
  <2>1. tears' = tears /\ unended' = unended /\ UNCHANGED acked /\ UNCHANGED file
    BY <1>5 DEF ProcessEnds
  <2> QED
    BY <2>1, LostUnchanged DEF LossInv, Owed
<1>6. CASE ProcessStarts
  <2>1. tears' = tears
    BY <1>6 DEF ProcessStarts
  <2>2. CASE Prune
    <3>1. ~ unended'
      BY <2>2, Zenon DEF Prune
    <3>2. Lost' = Lost
      BY <2>2, LostPruned
    <3> QED
      BY <1>1, <1>2, <2>1, <3>1, <3>2 DEF LossInv
  <2>3. CASE UNCHANGED <<file, unended, seen, loaded, acked>>
    BY <2>1, <2>3, LostUnchanged DEF LossInv, Owed
  <2> QED
    BY <1>6, <2>2, <2>3 DEF ProcessStarts
<1>7. CASE TimePasses
  <2>1. tears' = tears /\ unended' = unended /\ UNCHANGED acked
    BY <1>7 DEF TimePasses
  <2> QED
    BY <1>7, <2>1, LostUnchanged DEF LossInv, Owed
<1>8. CASE UNCHANGED vars
  <2>1. tears' = tears /\ unended' = unended /\ UNCHANGED acked /\ UNCHANGED file
    BY <1>8 DEF vars
  <2> QED
    BY <2>1, LostUnchanged DEF LossInv, Owed
<1> QED
  BY <1>3, <1>4, <1>5, <1>6, <1>7, <1>8 DEF Next

LEMMA LossIsCounted == TypeOK /\ LossInv => LossIsBounded
<1> SUFFICES ASSUME TypeOK, LossInv PROVE Cardinality(Lost) <= tears
  BY DEF LossIsBounded, Table!LossIsBounded
<1> QED
  BY LostFinite DEF LossInv, Owed, TypeOK

----------------------------------------------------------------------------
(* Losses show in the diagnostics.                                         *)

(* Only a log is pruned; the process of the other files is up, and a lost  *)
(* record has left a broken line before all records written after it.      *)
WarnInv ==
    ~ IsLog(store) =>
        /\ up
        /\ \A n \in Lost : \E b \in DOMAIN file :
              /\ ~ IsRecord(file[b]) /\ file[b].kind = "broken"
              /\ \A i \in RecordsOf(file) : file[i].rec.n > n => i > b

LEMMA WarnInit == Init => WarnInv
<1> SUFFICES ASSUME Init PROVE WarnInv
  OBVIOUS
<1>1. up
  BY Zenon DEF Init
<1>2. Lost = {}
  BY DEF Init, Lost
<1> QED
  BY <1>1, <1>2 DEF WarnInv

LEMMA LossWarns == TypeOK /\ WarnInv => MissingRecordWarns
<1> SUFFICES ASSUME TypeOK, WarnInv, Replayed,
                    NEW n \in Lost, NEW m \in Readable, m > n
             PROVE  HasWarnings(file)
  BY DEF MissingRecordWarns
<1>1. file \in Seq(Line)
  BY DEF TypeOK
<1>2. ~ IsLog(store)
  BY DEF Replayed, IsLog
<1>3. PICK b \in DOMAIN file :
         /\ ~ IsRecord(file[b]) /\ file[b].kind = "broken"
         /\ \A i \in RecordsOf(file) : file[i].rec.n > n => i > b
  BY <1>2 DEF WarnInv
<1>4. PICK i \in RecordsOf(file) : file[i].rec.n = m
  BY DEF Readable
<1>5. i > b /\ i \in DOMAIN file /\ IsRecord(file[i])
  BY <1>3, <1>4 DEF RecordsOf
<1>6. i \in ValidLines(file)
  BY <1>5 DEF ValidLines, IsRecord
<1>7. ~ (i < b)
  BY <1>1, <1>3, <1>5, FileShape
<1>8. Label(file, b) = "mid_file_corruption"
  BY <1>3, <1>6, <1>7 DEF Label
<1> QED
  BY <1>3, <1>8 DEF HasWarnings

LEMMA WarnStep ==
    TypeOK /\ RecordsInv /\ EndInv /\ WarnInv /\ [Next]_vars => WarnInv'
<1> SUFFICES ASSUME TypeOK, RecordsInv, EndInv, WarnInv, [Next]_vars,
                    ~ IsLog(store')
             PROVE  /\ up'
                    /\ \A n \in Lost' : \E b \in DOMAIN file' :
                          /\ ~ IsRecord(file'[b]) /\ file'[b].kind = "broken"
                          /\ \A i \in RecordsOf(file') :
                                file'[i].rec.n > n => i > b
  BY DEF WarnInv, RecordsOf, IsRecord
<1>1. ~ IsLog(store) /\ store' = store
  BY FileNext
<1>2. /\ up
      /\ \A n \in Lost : \E b \in DOMAIN file :
            /\ ~ IsRecord(file[b]) /\ file[b].kind = "broken"
            /\ \A i \in RecordsOf(file) : file[i].rec.n > n => i > b
  BY <1>1 DEF WarnInv
<1>3. /\ file \in Seq(Line) /\ DOMAIN file = 1..Len(file) /\ Len(file) \in Nat
      /\ writes \in Nat /\ Lost \subseteq 1..writes
  <2>1. file \in Seq(Line) /\ writes \in Nat /\ acked \subseteq 1..writes
    BY DEF TypeOK
  <2>2. Lost \subseteq 1..writes
    BY <2>1 DEF Lost
  <2> QED
    BY <2>1, <2>2, LenProperties
<1>4. \A i \in RecordsOf(file) : file[i].rec.n \in Nat /\ file[i].rec.n <= writes
  BY <1>3, FileShape, RecordFields DEF RecordsInv
<1>5. /\ Broken \in Line /\ ~ IsRecord(Broken) /\ Broken.kind = "broken"
  BY LineKinds
(* The lines that witness the losses stay where they are, and the records  *)
(* that are added come behind them.                                        *)
<1>6. ASSUME NEW line \in Line, file' = Appended(line)
      PROVE  \A n \in Lost : \E b \in DOMAIN file' :
                /\ ~ IsRecord(file'[b]) /\ file'[b].kind = "broken"
                /\ \A i \in RecordsOf(file') : file'[i].rec.n > n => i > b
  <2>1. TAKE n \in Lost
  <2>2. PICK b \in DOMAIN file :
           /\ ~ IsRecord(file[b]) /\ file[b].kind = "broken"
           /\ \A i \in RecordsOf(file) : file[i].rec.n > n => i > b
    BY <1>2
  <2>3. CASE unended
    <3>1. file' = Ended
      BY <1>6, <2>3, AppendedShape
    <3>2. DOMAIN Ended = DOMAIN file
      BY <1>3, EndedShape, LenProperties
    <3>3. ~ IsRecord(Ended[b]) /\ Ended[b].kind = "broken"
      BY <1>5, <2>2, EndedShape
    <3>4. \A i \in RecordsOf(Ended) : Ended[i].rec.n > n => i > b
      BY <2>2, EndedRecords
    <3> QED
      BY <3>1, <3>2, <3>3, <3>4
  <2>4. CASE ~ unended
    <3> DEFINE g == Append(file, line)
    <3>1. file' = g
      BY <1>6, <2>4, AppendedShape
    <3>2. /\ DOMAIN file \subseteq DOMAIN g
          /\ \A i \in DOMAIN file : g[i] = file[i]
          /\ \A i \in RecordsOf(g) : i \in RecordsOf(file) \/ i = Len(file) + 1
      <4>1. /\ g \in Seq(Line) /\ Len(g) = Len(file) + 1
            /\ \A i \in DOMAIN file : g[i] = file[i]
            /\ \A i \in RecordsOf(g) : i \in RecordsOf(file) \/ i = Len(file) + 1
        BY <1>3, AppendRecords
      <4>2. DOMAIN g = 1..(Len(file) + 1)
        BY <4>1, LenProperties
      <4> HIDE DEF g
      <4> QED
        BY <1>3, <4>1, <4>2
    <3> HIDE DEF g
    <3>3. b \in DOMAIN g /\ ~ IsRecord(g[b]) /\ g[b].kind = "broken"
      BY <2>2, <3>2
    <3>4. \A i \in RecordsOf(file) : g[i] = file[i]
      BY <3>2 DEF RecordsOf
    <3>5. Len(file) + 1 > b
      BY <1>3
    <3>6. \A i \in RecordsOf(g) : g[i].rec.n > n => i > b
      BY <2>2, <3>2, <3>4, <3>5
    <3> QED
      BY <3>1, <3>3, <3>6
  <2> QED
    BY <2>3, <2>4
<1>7. ASSUME NEW id \in Ids, NEW op \in DOMAIN Ops[store],
             AppendSucceeds(op, id)
      PROVE  /\ up'
             /\ \A n \in Lost' : \E b \in DOMAIN file' :
                   /\ ~ IsRecord(file'[b]) /\ file'[b].kind = "broken"
                   /\ \A i \in RecordsOf(file') : file'[i].rec.n > n => i > b
  <2> DEFINE line == Whole(Written(op, id))
  <2>1. up' = up /\ writes < MaxWrites
    BY <1>7, SucceedsEffect
  <2>2. line \in Line /\ file' = Appended(line)
    BY <1>7, <2>1, NewLine DEF AppendSucceeds
  <2>3. ASSUME unended
        PROVE  \E b \in DOMAIN file' :
                  /\ ~ IsRecord(file'[b]) /\ file'[b].kind = "broken"
                  /\ \A i \in RecordsOf(file') : file'[i].rec.n > writes + 1 => i > b
    <3>1. file' = Ended
      BY <2>2, <2>3, AppendedShape
    <3>2. Len(file) \in DOMAIN file
      BY <1>3, <2>3, EmptySeq DEF TypeOK
    <3>3. Ended[Len(file)] = Broken /\ Len(file) \in DOMAIN Ended
      BY <1>3, <2>3, <3>2, EndedShape, LenProperties
    <3>4. \A i \in RecordsOf(Ended) : ~ (Ended[i].rec.n > writes + 1)
      BY <1>3, <1>4, EndedRecords
    <3> QED
      BY <1>5, <3>1, <3>3, <3>4
  <2> HIDE DEF line
  <2>4. \A n \in Lost' : n \in Lost \/ (unended /\ n = writes + 1)
    BY <1>7, LostSucceeds
  <2> QED
    BY <1>2, <1>6, <2>1, <2>2, <2>3, <2>4
<1>8. ASSUME NEW id \in Ids, NEW op \in DOMAIN Ops[store],
             AppendInterrupted(op, id)
      PROVE  /\ up'
             /\ \A n \in Lost' : \E b \in DOMAIN file' :
                   /\ ~ IsRecord(file'[b]) /\ file'[b].kind = "broken"
                   /\ \A i \in RecordsOf(file') : file'[i].rec.n > n => i > b
  <2> DEFINE line == Whole(Written(op, id))
  <2>1. up' = up /\ writes < MaxWrites
    BY <1>1, <1>8, InterruptedEffect
  <2>2. file' = file \/ file' = Appended(Broken) \/ file' = Appended(line)
    BY <1>8, InterruptedEffect
  <2>3. line \in Line
    BY <2>1, NewLine
  <2> HIDE DEF line
  <2>4. Lost' = Lost
    BY <1>8, LostInterrupted
  <2>5. CASE file' = file
    BY <1>2, <2>1, <2>4, <2>5
  <2>6. CASE file' = Appended(Broken) \/ file' = Appended(line)
    BY <1>2, <1>5, <1>6, <2>1, <2>3, <2>4, <2>6
  <2> QED
    BY <2>2, <2>5, <2>6
<1>9. ~ ProcessEnds /\ ~ ProcessStarts
  BY <1>1, <1>2, Zenon DEF ProcessEnds, Ends, ProcessStarts
<1>10. CASE TimePasses
  <2>1. file' = file /\ up' = up /\ UNCHANGED acked
    BY <1>1, <1>10, AgedShape DEF TimePasses
  <2>2. Lost' = Lost
    BY <1>10, <2>1, LostUnchanged
  <2> QED
    BY <1>2, <2>1, <2>2
<1>11. CASE UNCHANGED vars
  <2>1. file' = file /\ up' = up /\ UNCHANGED acked
    BY <1>11 DEF vars
  <2>2. Lost' = Lost
    BY <2>1, LostUnchanged
  <2> QED
    BY <1>2, <2>1, <2>2
<1> QED
  BY <1>7, <1>8, <1>9, <1>10, <1>11 DEF Next

----------------------------------------------------------------------------
(* What a replay computes.                                                 *)

LEMMA ReplayIsTable ==
    ASSUME NEW f \in Seq(Line)
    PROVE  /\ DOMAIN Replay(f) = Ids
           /\ Replay(f) = [id \in Ids |-> Replay(f)[id]]
<1> DEFINE IsTable(t) == DOMAIN t = Ids /\ t = [id \in Ids |-> t[id]]
           T == {g \in Seq(Line) : ~ IsTable(Replay(g))}
<1>1. << >> \notin T
  <2>1. IsTable(Empty)
    BY DEF Empty
  <2> QED
    BY <2>1, ReplayOfNothing
<1>2. ASSUME NEW t, NEW line, IsTable(t)
      PROVE  IsTable(Read(t, line))
  BY <1>2 DEF Read, Applied, Created, Changed
<1>3. ASSUME NEW g \in Seq(Line), NEW line \in Line, g \notin T
      PROVE  Append(g, line) \notin T
  <2>1. IsTable(Replay(g))
    BY <1>3
  <2> HIDE DEF IsTable
  <2>2. IsTable(Read(Replay(g), line))
    BY <1>2, <2>1
  <2> QED
    BY <2>2, ReplayOfAppend
<1>4. T = {}
  <2>1. T \subseteq Seq(Line)
    OBVIOUS
  <2> HIDE DEF T
  <2> QED
    BY <1>1, <1>3, <2>1, FirstSequence
<1> QED
  BY <1>4

(* A set of positions that is not empty has a last one.                    *)
LEMMA LatestExists ==
    ASSUME NEW n \in Nat, NEW S, S \subseteq 1..n, S # {}
    PROVE  LatestOf(S) \in S /\ \A j \in S : j <= LatestOf(S)
<1> DEFINE T == {n - i : i \in S}
<1>1. T \subseteq Nat /\ T # {}
  <2>1. \A i \in S : n - i \in Nat
    OBVIOUS
  <2>2. PICK i \in S : TRUE
    OBVIOUS
  <2>3. n - i \in T
    BY <2>2
  <2> QED
    BY <2>1, <2>3
<1>2. PICK m \in T : \A k \in T : m <= k
  <2> HIDE DEF T
  <2> QED BY <1>1, LeastNumber
<1>3. PICK i \in S : m = n - i
  BY <1>2
<1>4. \A j \in S : j <= i
  <2>1. TAKE j \in S
  <2>2. n - j \in T
    OBVIOUS
  <2>3. n - i <= n - j
    BY <1>2, <1>3, <2>2
  <2> QED
    BY <2>3
<1> QED
  BY <1>4, Zenon DEF LatestOf

LEMMA LatestIs ==
    ASSUME NEW S, S \subseteq Nat, NEW i \in S, \A j \in S : j <= i
    PROVE  LatestOf(S) = i
<1>1. LatestOf(S) \in S /\ \A j \in S : j <= LatestOf(S)
  BY Zenon DEF LatestOf
<1> HIDE DEF LatestOf
<1>2. LatestOf(S) \in Nat /\ LatestOf(S) <= i /\ i <= LatestOf(S) /\ i \in Nat
  BY <1>1
<1> QED
  BY <1>2

OfStore(f) == \A i \in RecordsOf(f) : f[i].rec.update.store = store

(* A row that was created has a last record that sets each of its fields:  *)
(* its last "create" sets them all.                                        *)
LEMMA LatestRecords ==
    ASSUME NEW f \in Seq(Line), OfStore(f), NEW id, Creates(f, id) # {}
    PROVE  /\ LatestOf(Creates(f, id)) \in Creates(f, id)
           /\ \A field \in Ops[store]["create"] :
                 /\ Setting(f, id, field) \subseteq 1..Len(f)
                 /\ Setting(f, id, field) # {}
                 /\ LatestOf(Setting(f, id, field)) \in Setting(f, id, field)
                 /\ \A j \in Setting(f, id, field) :
                       j <= LatestOf(Setting(f, id, field))
<1>1. Len(f) \in Nat /\ RecordsOf(f) \subseteq 1..Len(f)
  BY LenProperties DEF RecordsOf
<1>2. Creates(f, id) \subseteq 1..Len(f)
  BY <1>1 DEF Creates
<1>3. LatestOf(Creates(f, id)) \in Creates(f, id)
  BY <1>1, <1>2, LatestExists
<1>4. ASSUME NEW field \in Ops[store]["create"]
      PROVE  LatestOf(Creates(f, id)) \in Setting(f, id, field)
  <2> DEFINE c == LatestOf(Creates(f, id))
  <2>1. /\ c \in RecordsOf(f) /\ c \in 1..Len(f)
        /\ f[c].rec.update.op = "create" /\ f[c].rec.update.id = id
    BY <1>2, <1>3 DEF Creates
  <2>2. f[c].rec.update.store = store
    BY <2>1 DEF OfStore
  <2>3. field \in Sets(f[c].rec.update)
    BY <2>1, <2>2 DEF Sets
  <2>4. c >= c
    BY <1>1, <2>1
  <2> QED
    BY <2>1, <2>3, <2>4 DEF Setting
<1>5. \A field : Setting(f, id, field) \subseteq 1..Len(f)
  BY <1>1 DEF Setting
<1>6. ASSUME NEW field \in Ops[store]["create"]
      PROVE  /\ Setting(f, id, field) # {}
             /\ LatestOf(Setting(f, id, field)) \in Setting(f, id, field)
             /\ \A j \in Setting(f, id, field) :
                   j <= LatestOf(Setting(f, id, field))
  BY <1>1, <1>4, <1>5, LatestExists
<1> QED
  BY <1>3, <1>5, <1>6

(* A line that is no record of this row changes nothing of it.             *)
LEMMA LastWinsOther ==
    ASSUME NEW f \in Seq(Line), NEW line \in Line, NEW id, OfStore(f),
           ~ IsRecord(line) \/ line.rec.update.id # id
    PROVE  LastWins(Append(f, line), id) = LastWins(f, id)
<1> DEFINE g == Append(f, line)
           L == Len(f) + 1
<1>1. /\ \A i \in RecordsOf(f) : g[i] = f[i]
      /\ g[L] = line
      /\ ~ IsRecord(line) => RecordsOf(g) = RecordsOf(f)
      /\ IsRecord(line) => RecordsOf(g) = RecordsOf(f) \cup {L}
  BY AppendRecords DEF RecordsOf
<1> HIDE DEF g, L
<1>2. Creates(g, id) = Creates(f, id)
  BY <1>1 DEF Creates
<1>3. \A field : Setting(g, id, field) = Setting(f, id, field)
  BY <1>1, <1>2 DEF Setting
<1>4. CASE Creates(f, id) = {}
  BY <1>2, <1>4 DEF LastWins, g
<1>5. CASE Creates(f, id) # {}
  <2>1. \A field \in Ops[store]["create"] :
           g[LatestOf(Setting(g, id, field))] = f[LatestOf(Setting(f, id, field))]
    BY <1>1, <1>3, <1>5, LatestRecords DEF Setting
  <2> QED
    BY <1>2, <1>5, <2>1 DEF LastWins, g
<1> QED
  BY <1>4, <1>5

LEMMA LastWinsCreate ==
    ASSUME NEW f \in Seq(Line), NEW line \in Line, NEW id, OfStore(f),
           IsRecord(line), line.rec.update.store = store,
           line.rec.update.id = id, line.rec.update.op = "create"
    PROVE  LastWins(Append(f, line), id) =
              [field \in Ops[store]["create"] |-> line.rec.n]
<1> DEFINE g == Append(f, line)
           L == Len(f) + 1
<1>1. /\ \A i \in RecordsOf(f) : g[i] = f[i]
      /\ g[L] = line /\ g \in Seq(Line)
      /\ RecordsOf(g) = RecordsOf(f) \cup {L}
  BY AppendRecords DEF RecordsOf
<1>2. RecordsOf(f) \subseteq 1..Len(f) /\ Len(f) \in Nat
  BY LenProperties DEF RecordsOf
<1>3. L \in Nat /\ \A i \in RecordsOf(g) : i \in Nat /\ i <= L
  BY <1>1, <1>2
<1> HIDE DEF g, L
<1>4. L \in Creates(g, id)
  BY <1>1 DEF Creates
<1>5. LatestOf(Creates(g, id)) = L
  <2>1. Creates(g, id) \subseteq Nat /\ \A j \in Creates(g, id) : j <= L
    BY <1>3 DEF Creates
  <2> QED
    BY <1>4, <2>1, LatestIs
<1>6. ASSUME NEW field \in Ops[store]["create"]
      PROVE  LatestOf(Setting(g, id, field)) = L
  <2>1. field \in Sets(line.rec.update)
    BY DEF Sets
  <2>2. L \in Setting(g, id, field)
    BY <1>1, <1>3, <1>5, <2>1 DEF Setting
  <2>3. Setting(g, id, field) \subseteq Nat
        /\ \A j \in Setting(g, id, field) : j <= L
    BY <1>3 DEF Setting
  <2> QED
    BY <2>2, <2>3, LatestIs
<1>7. Creates(g, id) # {}
  BY <1>4
<1>8. LastWins(g, id) = [field \in Ops[store]["create"] |-> line.rec.n]
  BY <1>1, <1>6, <1>7 DEF LastWins
<1> QED
  BY <1>8 DEF g

LEMMA LastWinsUpdate ==
    ASSUME NEW f \in Seq(Line), NEW line \in Line, NEW id, OfStore(f),
           IsRecord(line), line.rec.update.store = store,
           line.rec.update.id = id, line.rec.update.op # "create"
    PROVE  LastWins(Append(f, line), id) =
              Updated(LastWins(f, id), line.rec.update, line.rec.n)
<1> DEFINE g == Append(f, line)
           L == Len(f) + 1
           u == line.rec.update
           n == line.rec.n
           F == Ops[store]["create"]
<1>1. /\ \A i \in RecordsOf(f) : g[i] = f[i]
      /\ g[L] = line /\ g \in Seq(Line)
      /\ RecordsOf(g) = RecordsOf(f) \cup {L}
  BY AppendRecords DEF RecordsOf
<1>2. RecordsOf(f) \subseteq 1..Len(f) /\ Len(f) \in Nat
  BY LenProperties DEF RecordsOf
<1>3. L \in Nat /\ \A i \in RecordsOf(g) : i \in Nat /\ i <= L
  BY <1>1, <1>2
<1> HIDE DEF g, L
<1>4. Creates(g, id) = Creates(f, id)
  BY <1>1 DEF Creates
<1>5. CASE Creates(f, id) = {}
  <2>1. Updated(NoRow, u, n) = NoRow
    BY DEF Updated, NoRow
  <2> QED
    BY <1>4, <1>5, <2>1 DEF LastWins, g
<1>6. CASE Creates(f, id) # {}
  <2> DEFINE c == LatestOf(Creates(f, id))
             row == LastWins(f, id)
  <2>1. c \in Creates(f, id)
    BY <1>6, LatestRecords
  <2>2. c \in RecordsOf(f) /\ L >= c
    BY <1>1, <1>3, <2>1 DEF Creates
  <2>3. row = [field \in F |-> f[LatestOf(Setting(f, id, field))].rec.n]
    BY <1>6 DEF LastWins
  <2>4. LastWins(g, id) = [field \in F |-> g[LatestOf(Setting(g, id, field))].rec.n]
    BY <1>4, <1>6 DEF LastWins
  <2>5. ASSUME NEW field \in F
        PROVE  g[LatestOf(Setting(g, id, field))].rec.n =
                  IF field \in Sets(u) THEN n ELSE row[field]
    <3>1. CASE field \in Sets(u)
      <4>1. L \in Setting(g, id, field)
        BY <1>1, <1>4, <2>2, <3>1 DEF Setting
      <4>2. /\ Setting(g, id, field) \subseteq Nat
            /\ \A j \in Setting(g, id, field) : j <= L
        BY <1>3 DEF Setting
      <4>3. LatestOf(Setting(g, id, field)) = L
        BY <4>1, <4>2, LatestIs
      <4> QED
        BY <1>1, <3>1, <4>3
    <3>2. CASE field \notin Sets(u)
      <4>1. Setting(g, id, field) = Setting(f, id, field)
        BY <1>1, <1>4, <3>2 DEF Setting
      <4>2. LatestOf(Setting(f, id, field)) \in RecordsOf(f)
        BY <1>6, LatestRecords DEF Setting
      <4>3. row[field] = f[LatestOf(Setting(f, id, field))].rec.n
        BY <2>3
      <4> QED
        BY <1>1, <3>2, <4>1, <4>2, <4>3
    <3> QED
      BY <3>1, <3>2
  <2>6. Updated(row, u, n) = [field \in F |-> IF field \in Sets(u) THEN n ELSE row[field]]
    BY <2>3 DEF Updated
  <2> HIDE DEF row, u, n, F
  <2>7. LastWins(g, id) = Updated(row, u, n)
    BY <2>4, <2>5, <2>6
  <2> QED
    BY <2>7 DEF g, row, u, n
<1> QED
  BY <1>5, <1>6

(* Whatever the lines of a file, its replay is what the last records say.  *)
LEMMA ReplayIsLast ==
    ASSUME NEW f \in Seq(Line), OfStore(f), NEW id \in Ids
    PROVE  Replay(f)[id] = LastWins(f, id)
<1> DEFINE T == {g \in Seq(Line) : OfStore(g) /\ Replay(g)[id] # LastWins(g, id)}
<1>1. << >> \notin T
  <2>1. Creates(<< >>, id) = {}
    BY DEF Creates, RecordsOf
  <2>2. Empty[id] = NoRow
    BY DEF Empty
  <2> QED
    BY <2>1, <2>2, ReplayOfNothing DEF LastWins
<1>2. ASSUME NEW g \in Seq(Line), NEW line \in Line, g \notin T
      PROVE  Append(g, line) \notin T
  <2> SUFFICES ASSUME OfStore(Append(g, line))
               PROVE  Replay(Append(g, line))[id] = LastWins(Append(g, line), id)
    OBVIOUS
  <2>1. OfStore(g) /\ (IsRecord(line) => line.rec.update.store = store)
    <3> DEFINE h == Append(g, line)
               L == Len(g) + 1
    <3>1. /\ \A i \in RecordsOf(g) : h[i] = g[i]
          /\ h[L] = line
          /\ RecordsOf(g) \subseteq RecordsOf(h)
          /\ IsRecord(line) => L \in RecordsOf(h)
      BY AppendRecords DEF RecordsOf
    <3> HIDE DEF L, h
    <3> QED
      BY <3>1 DEF OfStore, h
  <2>2. Replay(g)[id] = LastWins(g, id)
    BY <1>2, <2>1
  <2>3. Replay(Append(g, line))[id] = Read(Replay(g), line)[id]
    BY ReplayOfAppend
  <2>4. DOMAIN Replay(g) = Ids
    BY ReplayIsTable
  <2>5. CASE ~ IsRecord(line) \/ line.rec.update.id # id
    <3>1. Read(Replay(g), line)[id] = Replay(g)[id]
      BY <2>4, <2>5 DEF Read, Applied, Created, Changed
    <3>2. LastWins(Append(g, line), id) = LastWins(g, id)
      BY <2>1, <2>5, LastWinsOther
    <3> QED
      BY <2>2, <2>3, <3>1, <3>2
  <2>6. CASE IsRecord(line) /\ line.rec.update.id = id
             /\ line.rec.update.op = "create"
    <3>1. Fields(line.rec.update) = Ops[store]["create"]
      BY <2>1, <2>6 DEF Fields
    <3>2. Read(Replay(g), line)[id] =
             [field \in Ops[store]["create"] |-> line.rec.n]
      BY <2>4, <2>6, <3>1 DEF Read, Applied, Created
    <3> QED
      BY <2>1, <2>3, <2>6, <3>2, LastWinsCreate
  <2>7. CASE IsRecord(line) /\ line.rec.update.id = id
             /\ line.rec.update.op # "create"
    <3>1. Read(Replay(g), line)[id] =
             Updated(Replay(g)[id], line.rec.update, line.rec.n)
      BY <2>4, <2>7 DEF Read, Applied, Changed
    <3> QED
      BY <2>1, <2>2, <2>3, <2>7, <3>1, LastWinsUpdate
  <2> QED
    BY <2>5, <2>6, <2>7
<1>3. T = {}
  <2>1. T \subseteq Seq(Line)
    OBVIOUS
  <2> HIDE DEF T
  <2> QED
    BY <1>1, <1>2, <2>1, FirstSequence
<1> QED
  BY <1>3

----------------------------------------------------------------------------
(* Each step on the file is a step of the table.                           *)

(* What a reader finds after an append, and would find without its end.    *)
LEMMA ReplayAppended ==
    ASSUME TypeOK, NEW line \in Line
    PROVE  /\ unended => Replay(Appended(line)) = Replay(Ended)
           /\ ~ unended => /\ Replay(Appended(line)) = Read(Replay(file), line)
                           /\ Replay(Append(file, Broken)) = Replay(file)
<1>1. file \in Seq(Line) /\ Broken \in Line /\ ~ IsRecord(Broken)
  BY LineKinds DEF TypeOK
<1>2. Replay(Append(file, Broken)) = Read(Replay(file), Broken)
  BY <1>1, ReplayOfAppend
<1>3. Read(Replay(file), Broken) = Replay(file)
  BY <1>1 DEF Read
<1>4. Replay(Append(file, line)) = Read(Replay(file), line)
  BY <1>1, ReplayOfAppend
<1> QED
  BY <1>2, <1>3, <1>4, AppendedShape

LEMMA ReadWritten ==
    ASSUME TypeOK, writes < MaxWrites,
           NEW id \in Ids, NEW op \in DOMAIN Ops[store], NEW t
    PROVE  Read(t, Whole(Written(op, id))) =
              Applied(t, Written(op, id).update, writes + 1)
<1> DEFINE line == Whole(Written(op, id))
<1>1. IsRecord(line) /\ line.rec = Written(op, id) /\ Written(op, id).n = writes + 1
  BY NewLine
<1> HIDE DEF line
<1>2. Read(t, line) = Applied(t, line.rec.update, line.rec.n)
  BY <1>1 DEF Read
<1> QED
  BY <1>1, <1>2 DEF line

LEMMA TableInit == Init => Table!Init
<1> SUFFICES ASSUME Init PROVE Table!Init
  OBVIOUS
<1>1. ~ unended /\ unended = FALSE
  BY Zenon DEF Init
<1>2. Ended = file
  BY <1>1 DEF Ended
<1>3. Replay(file) = Empty
  <2>1. Foreign \in Line /\ ~ IsRecord(Foreign)
    BY DEF Line, Foreign, IsRecord
  <2>2. << >> \in Seq(Line)
    BY EmptySeq
  <2>3. Append(<< >>, Foreign) = <<Foreign>>
    OBVIOUS
  <2>4. Replay(Append(<< >>, Foreign)) = Read(Empty, Foreign)
    BY <2>1, <2>2, ReplayOfAppend, ReplayOfNothing
  <2>5. Read(Empty, Foreign) = Empty
    BY <2>1 DEF Read
  <2>6. CASE file = << >>
    BY <2>6, ReplayOfNothing
  <2>7. CASE file = <<Foreign>>
    BY <2>3, <2>4, <2>5, <2>7
  <2> QED
    BY <2>6, <2>7 DEF Init
<1>4. Lost = {} /\ Cardinality(Lost) = 0
  <2>1. Lost = {}
    BY DEF Init, Lost
  <2> QED
    BY <2>1, FS_EmptySet
<1>5. writes = 0 /\ tears = 0 /\ store \in Stores
  BY DEF Init
<1>6. Replay(file) = [id \in Ids |-> NoRow] /\ Replay(Ended) = Replay(file)
  BY <1>2, <1>3 DEF Empty
<1> QED
  BY <1>1, <1>4, <1>5, <1>6, Zenon DEF Table!Init

LEMMA SucceedsIsWrite ==
    ASSUME TypeOK, RecordsInv, EndInv,
           NEW id \in Ids, NEW op \in DOMAIN Ops[store],
           AppendSucceeds(op, id)
    PROVE  Table!Write(Written(op, id).update)
<1> DEFINE line == Whole(Written(op, id))
           u == Written(op, id).update
<1>1. /\ writes < MaxWrites /\ writes' = writes + 1 /\ unended' = FALSE
      /\ store' = store /\ tears' = tears
  BY SucceedsEffect
<1>2. line \in Line /\ file' = Appended(line)
  BY <1>1, NewLine DEF AppendSucceeds
<1>3. Read(Replay(file), line) = Applied(Replay(file), u, writes')
  BY <1>1, ReadWritten
<1> HIDE DEF line, u
<1>4. Replay(file') = IF unended THEN Replay(Ended)
                                 ELSE Applied(Replay(file), u, writes')
  BY <1>2, <1>3, ReplayAppended
<1>5. Replay(Ended') = Replay(file')
  BY <1>1, EndedNext
<1>6. Cardinality(Lost') = IF unended THEN Cardinality(Lost) + 1
                                      ELSE Cardinality(Lost)
  <2>1. IsFiniteSet(Lost)
    BY LostFinite
  <2>2. Cardinality(Lost \cup {writes + 1}) = Cardinality(Lost) + 1
    BY <2>1, LostSucceeds, FS_AddElement
  <2> QED
    BY <2>2, LostSucceeds
<1>7. Table!Lands(u)
  BY <1>1, <1>4, <1>5, Zenon DEF Table!Lands
<1>8. Table!Write(u)
  BY <1>1, <1>6, <1>7, Zenon DEF Table!Write
<1> QED
  BY <1>8 DEF u

LEMMA InterruptedIsInterrupt ==
    ASSUME TypeOK, RecordsInv, EndInv,
           NEW id \in Ids, NEW op \in DOMAIN Ops[store],
           AppendInterrupted(op, id)
    PROVE  Table!Interrupt(Written(op, id).update)
<1> DEFINE line == Whole(Written(op, id))
           u == Written(op, id).update
<1>1. /\ writes < MaxWrites /\ writes' = writes + 1
      /\ store' = store /\ tears' = tears + 1
  BY InterruptedEffect
<1>2. line \in Line /\ Broken \in Line /\ ~ IsRecord(Broken)
  BY <1>1, NewLine, LineKinds
<1>3. Read(Replay(file), line) = Applied(Replay(file), u, writes')
  BY <1>1, ReadWritten
<1>4. Read(Replay(file), Broken) = Replay(file)
  BY <1>2 DEF Read
<1>5. Lost' = Lost
  BY LostInterrupted
<1>6. \/ file' = file /\ unended' = unended
      \/ file' = Appended(Broken) /\ unended' = TRUE
      \/ file' = Appended(line) /\ unended' = TRUE
      \/ file' = Appended(line) /\ unended' = FALSE
  BY InterruptedEffect
<1> HIDE DEF line, u
<1>7. ASSUME NEW new \in {line, Broken}, file' = Appended(new), unended' = TRUE
      PROVE  Replay(Ended') = IF unended THEN Replay(Ended) ELSE Replay(file)
  <2>1. unended => Ended' = Ended
    BY <1>2, <1>7, EndedNext
  <2>2. ~ unended => Ended' = Append(file, Broken)
    BY <1>2, <1>7, EndedNext
  <2> QED
    BY <1>2, <2>1, <2>2, ReplayAppended
<1>8. CASE file' = file /\ unended' = unended
  <2>1. Replay(file') = Replay(file) /\ Replay(Ended') = Replay(Ended)
    BY <1>8, EndedNext
  <2> QED
    BY <1>1, <1>5, <1>8, <2>1, Zenon DEF Table!Interrupt, u
<1>9. CASE file' = Appended(Broken) /\ unended' = TRUE
  <2>1. Replay(file') = IF unended THEN Replay(Ended) ELSE Replay(file)
    BY <1>2, <1>4, <1>9, ReplayAppended
  <2>2. Replay(Ended') = IF unended THEN Replay(Ended) ELSE Replay(file)
    BY <1>7, <1>9
  <2>3. Table!LandsInPart(u)
    BY <1>9, <2>1, <2>2, Zenon DEF Table!LandsInPart
  <2> QED
    BY <1>1, <1>5, <2>3, Zenon DEF Table!Interrupt, u
<1>10. CASE file' = Appended(line) /\ unended' = TRUE
  <2>1. Replay(file') = IF unended THEN Replay(Ended)
                        ELSE Applied(Replay(file), u, writes')
    BY <1>2, <1>3, <1>10, ReplayAppended
  <2>2. Replay(Ended') = IF unended THEN Replay(Ended) ELSE Replay(file)
    BY <1>7, <1>10
  <2>3. Table!LandsInPart(u)
    BY <1>10, <2>1, <2>2, Zenon DEF Table!LandsInPart
  <2> QED
    BY <1>1, <1>5, <2>3, Zenon DEF Table!Interrupt, u
<1>11. CASE file' = Appended(line) /\ unended' = FALSE
  <2>1. Replay(file') = IF unended THEN Replay(Ended)
                        ELSE Applied(Replay(file), u, writes')
    BY <1>2, <1>3, <1>11, ReplayAppended
  <2>2. Replay(Ended') = Replay(file')
    BY <1>11, EndedNext
  <2>3. Table!Lands(u)
    BY <1>11, <2>1, <2>2, Zenon DEF Table!Lands
  <2> QED
    BY <1>1, <1>5, <2>3, Zenon DEF Table!Interrupt, u
<1> QED
  BY <1>6, <1>8, <1>9, <1>10, <1>11

(* The row of an event in a log is that of its one record.                 *)
LEMMA LogRow ==
    ASSUME IsLog(store), NEW f \in Seq(Line), OfStore(f), OnceIn(f),
           NEW i \in RecordsOf(f)
    PROVE  /\ f[i].rec.update.id \in Ids
           /\ f[i].rec.update.op = "create"
           /\ Replay(f)[f[i].rec.update.id] =
                 [field \in Ops[store]["create"] |-> f[i].rec.n]
<1> DEFINE id == f[i].rec.update.id
<1>1. /\ \A j \in RecordsOf(f) : /\ f[j].rec.update.id \in Ids
                                 /\ f[j].rec.update.store = store
                                 /\ f[j].rec.update.op \in DOMAIN Ops[store]
      /\ RecordsOf(f) \subseteq Nat
  <2>1. \A j \in RecordsOf(f) : f[j].rec \in Record
    BY FileShape
  <2>2. RecordsOf(f) \subseteq Nat
    BY LenProperties DEF RecordsOf
  <2> QED
    BY <2>1, <2>2, RecordFields DEF OfStore
<1>2. DOMAIN Ops[store] = {"create"}
  BY DEF IsLog, Ops, LogOps
<1>3. \A j \in RecordsOf(f) : f[j].rec.update.op = "create"
  BY <1>1, <1>2
<1>4. Creates(f, id) = {i}
  BY <1>3 DEF Creates, OnceIn
<1>5. LatestOf(Creates(f, id)) = i
  BY <1>1, <1>4, LatestIs
<1>6. ASSUME NEW field \in Ops[store]["create"]
      PROVE  LatestOf(Setting(f, id, field)) = i
  <2>1. field \in Sets(f[i].rec.update)
    BY <1>1, <1>3 DEF Sets
  <2>2. i \in Nat /\ i >= i
    BY <1>1
  <2>3. Setting(f, id, field) = {i}
    BY <1>5, <2>1, <2>2 DEF Setting, OnceIn
  <2> QED
    BY <2>2, <2>3, LatestIs
<1>7. LastWins(f, id) = [field \in Ops[store]["create"] |-> f[i].rec.n]
  BY <1>4, <1>6 DEF LastWins
<1> QED
  BY <1>1, <1>3, <1>7, ReplayIsLast

(* Pruning drops rows, and changes none that it keeps.                     *)
LEMMA PruneIsExpire ==
    ASSUME TypeOK, RecordsInv, LogInv, IsLog(store), Prune,
           UNCHANGED <<store, writes, tears>>
    PROVE  \E gone \in SUBSET Ids : Table!Expire(gone)
<1> DEFINE g == Unexpired(file)
           gone == {id \in Ids : Replay(g)[id] = NoRow}
<1>1. file' = g /\ unended' = FALSE
  BY Zenon DEF Prune
<1>2. /\ file \in Seq(Line) /\ g \in Seq(Line)
      /\ OfStore(file) /\ OnceIn(file)
  BY UnexpiredKeeps DEF TypeOK, RecordsInv, LogInv, OfStore
<1>3. PICK from : TakenFrom(g, file, from)
  BY <1>2, UnexpiredRecords
<1> HIDE DEF g
<1>4. OfStore(g) /\ OnceIn(g)
  BY <1>2, <1>3, OnceTaken DEF TakenFrom, OfStore
<1>5. ASSUME NEW id \in Ids, Replay(g)[id] # NoRow
      PROVE  Replay(g)[id] = Replay(file)[id]
  <2>1. Replay(g)[id] = LastWins(g, id)
    BY <1>2, <1>4, ReplayIsLast
  <2>2. PICK i \in Creates(g, id) : TRUE
    BY <1>5, <2>1 DEF LastWins
  <2>3. i \in RecordsOf(g) /\ g[i].rec.update.id = id
    BY <2>2 DEF Creates
  <2>4. Replay(g)[id] = [field \in Ops[store]["create"] |-> g[i].rec.n]
    BY <1>2, <1>4, <2>3, LogRow
  <2>5. from[i] \in RecordsOf(file) /\ file[from[i]].rec = g[i].rec
    BY <1>3, <2>3 DEF TakenFrom
  <2>6. Replay(file)[id] = [field \in Ops[store]["create"] |-> g[i].rec.n]
    <3>1. PICK j \in RecordsOf(file) : file[j].rec = g[i].rec
      BY <2>5
    <3>2. Replay(file)[file[j].rec.update.id] =
             [field \in Ops[store]["create"] |-> file[j].rec.n]
      BY <1>2, LogRow
    <3> QED
      BY <2>3, <3>1, <3>2
  <2> QED
    BY <2>4, <2>6
<1>6. Replay(g) = [id \in Ids |-> Replay(g)[id]]
  BY <1>2, ReplayIsTable
<1>7. Replay(g) = [id \in Ids |-> IF id \in gone THEN NoRow ELSE Replay(file)[id]]
  BY <1>5, <1>6
<1>8. Replay(Ended') = Replay(file')
  BY <1>1, EndedNext
<1>9. Lost' = Lost
  BY LostPruned
<1> HIDE DEF gone
<1>10. Table!Expire(gone)
  BY <1>1, <1>7, <1>8, <1>9, Zenon DEF Table!Expire
<1> QED
  BY <1>10 DEF gone

(* Records that grow old are read as before.                               *)
LEMMA AgedReplay ==
    ASSUME TypeOK, TimePasses
    PROVE  Replay(file') = Replay(file) /\ Replay(Ended') = Replay(Ended)
<1>1. file \in Seq(Line)
  BY DEF TypeOK
<1>2. \A i \in DOMAIN file : \A t : Read(t, file[i]) = Read(t, file'[i])
  BY AgedShape DEF Read
<1>3. Replay(file) = Replay(file')
  BY <1>1, <1>2, AgedShape, ReplaysAgree
<1>4. \A i \in DOMAIN Ended : \A t : Read(t, Ended[i]) = Read(t, Ended'[i])
  BY EndedAged DEF Read
<1>5. Replay(Ended) = Replay(Ended')
  BY <1>4, EndedAged, ReplaysAgree
<1> QED
  BY <1>3, <1>5

(* The invariant of all: whose the records are, what a log knows, what the *)
(* end of the file may be, what losses cost and what they leave behind.    *)
FilesInv == /\ TypeOK /\ RecordsInv /\ LogInv
            /\ EndInv /\ LossInv /\ WarnInv

LEMMA TableStep == FilesInv /\ [Next]_vars => [Table!Next]_(Table!vars)
<1> SUFFICES ASSUME FilesInv, [Next]_vars
             PROVE  Table!Next \/ UNCHANGED (Table!vars)
  OBVIOUS
<1>0. TypeOK /\ RecordsInv /\ LogInv /\ EndInv /\ WarnInv
  BY DEF FilesInv
<1>1. ASSUME NEW id \in Ids, NEW op \in DOMAIN Ops[store],
             AppendSucceeds(op, id) \/ AppendInterrupted(op, id)
      PROVE  Table!Next
  <2> DEFINE u == Written(op, id).update
  <2>1. writes < MaxWrites
    BY <1>1, SucceedsEffect, InterruptedEffect
  <2>2. u \in UpdatesOf(store)
    BY <1>0, <2>1, NewLine
  <2>3. Table!Write(u) \/ Table!Interrupt(u)
    BY <1>0, <1>1, SucceedsIsWrite, InterruptedIsInterrupt
  <2> HIDE DEF u
  <2> QED
    BY <2>2, <2>3 DEF Table!Next
<1>2. ASSUME Replay(file') = Replay(file), Replay(Ended') = Replay(Ended),
             UNCHANGED <<writes, unended, store, tears>>, Lost' = Lost
      PROVE  UNCHANGED (Table!vars)
  BY <1>2 DEF Table!vars
<1>3. ASSUME UNCHANGED <<file, writes, unended, store, tears, acked>>
      PROVE  UNCHANGED (Table!vars)
  <2>1. Lost' = Lost
    BY <1>0, <1>3, LostUnchanged
  <2>2. Ended' = Ended
    BY <1>0, <1>3, EndedNext
  <2> QED
    BY <1>2, <1>3, <2>1, <2>2
<1>4. CASE ProcessEnds
  BY <1>3, <1>4 DEF ProcessEnds
<1>5. CASE ProcessStarts
  <2>1. ~ up /\ UNCHANGED <<store, writes, tears>>
    BY <1>5, Zenon DEF ProcessStarts
  <2>2. CASE Prune
    <3>1. IsLog(store)
      BY <1>0, <2>1 DEF WarnInv
    <3>2. \E gone \in SUBSET Ids : Table!Expire(gone)
      BY <1>0, <2>1, <2>2, <3>1, PruneIsExpire
    <3> QED
      BY <3>2 DEF Table!Next
  <2>3. CASE UNCHANGED <<file, unended, seen, loaded, acked>>
    BY <1>3, <2>1, <2>3
  <2> QED
    BY <1>5, <2>2, <2>3 DEF ProcessStarts
<1>6. CASE TimePasses
  <2>1. UNCHANGED <<writes, unended, store, tears, acked>>
    BY <1>6 DEF TimePasses
  <2>2. Lost' = Lost
    BY <1>0, <1>6, <2>1, LostUnchanged
  <2> QED
    BY <1>0, <1>2, <1>6, <2>1, <2>2, AgedReplay
<1>7. CASE UNCHANGED vars
  BY <1>3, <1>7 DEF vars
<1> QED
  BY <1>1, <1>4, <1>5, <1>6, <1>7 DEF Next

----------------------------------------------------------------------------
(* The theorems.                                                           *)

(* The invariant is inductive: whatever is appended, interrupted, pruned   *)
(* or read again after a restart.                                          *)
THEOREM FilesInvariant == Spec => []FilesInv
<1>1. Init => FilesInv
  BY TypeInit, RecordsInit, LossInit, WarnInit DEF FilesInv
<1>2. FilesInv /\ [Next]_vars => FilesInv'
  BY TypeStep, RecordsStep, LogStep, EndStep, LossStep, WarnStep DEF FilesInv
<1> QED
  BY <1>1, <1>2, PTL DEF Spec

(* Readers find each row as its last "create" and the records since left   *)
(* it, whatever was appended, interrupted and pruned before (the _replay() *)
(* of the stores over replay_jsonl()).                                     *)
THEOREM LastRecordsWin == Spec => []ReplayIsLastWins
<1>1. FilesInv => ReplayIsLastWins
  <2> SUFFICES ASSUME FilesInv PROVE ReplayIsLastWins
    OBVIOUS
  <2>1. file \in Seq(Line) /\ OfStore(file)
    BY DEF FilesInv, TypeOK, RecordsInv, OfStore
  <2> QED
    BY <2>1, ReplayIsLast DEF ReplayIsLastWins
<1> QED
  BY <1>1, FilesInvariant, PTL

(* However appends are interrupted and whenever the process ends, prunes   *)
(* or fails to, no event has two readable records in a log                 *)
(* (append_*_once(), prune_audit_logs()).                                  *)
THEOREM EventsLoggedOnce == Spec => []LoggedOnce
<1>1. FilesInv => LoggedOnce
  BY OnceIsLogged DEF FilesInv
<1> QED
  BY <1>1, FilesInvariant, PTL

(* An interrupted append costs at most one acknowledged record, whatever   *)
(* the store, the operations and the way the appends are interrupted.      *)
THEOREM LossesAreBounded == Spec => []LossIsBounded
<1>1. FilesInv => LossIsBounded
  BY LossIsCounted DEF FilesInv
<1> QED
  BY <1>1, FilesInvariant, PTL

(* A reader whose diagnostics have no warning misses no acknowledged       *)
(* record but such as nothing follows (replay_jsonl()).                    *)
THEOREM LossesAreReported == Spec => []MissingRecordWarns
<1>1. FilesInv => MissingRecordWarns
  BY LossWarns DEF FilesInv
<1> QED
  BY <1>1, FilesInvariant, PTL

(* The files implement the table of SessionTable: a reader finds one       *)
(* record after another applied, an interrupted append happened or not and *)
(* may cost the next, and old rows only go.                                *)
THEOREM FilesImplementTable == Spec => ImplementsTable
<1>1. Init => Table!Init
  BY TableInit
<1>2. FilesInv /\ [Next]_vars => [Table!Next]_(Table!vars)
  BY TableStep
<1> QED
  BY <1>1, <1>2, FilesInvariant, PTL DEF Spec, ImplementsTable, Table!Spec
=============================================================================
