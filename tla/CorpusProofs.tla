----------------------------- MODULE CorpusProofs -----------------------------
(***************************************************************************)
(* Proofs about CorpusSync, for every registry of sources, every set of    *)
(* documents and any number of schedulers and commands.                    *)
(***************************************************************************)
EXTENDS CorpusSync, FiniteSetTheorems, SequenceTheorems, TLAPS

-----------------------------------------------------------------------------
\* Selecting the positions of a sequence

\* Every rank up to the number of positions is some position's, and no two
\* positions have the same.
LEMMA Ranks ==
    ASSUME NEW positions \in SUBSET Nat, IsFiniteSet(positions)
    PROVE  /\ Cardinality(positions) \in Nat
           /\ \A n \in 1..Cardinality(positions) :
                 \E i \in positions : Cardinality({j \in positions : j <= i}) = n
           /\ \A i \in positions : Cardinality({j \in positions : j <= i}) \in 1..Cardinality(positions)
           /\ \A i, k \in positions :
                 Cardinality({j \in positions : j <= i})
                    = Cardinality({j \in positions : j <= k}) => i = k
  <1> DEFINE Below(i) == {j \in positions : j <= i}
             rank == [i \in positions |-> Cardinality(Below(i))]
             size == Cardinality(positions)
  <1>1. size \in Nat
    BY FS_CardinalityType
  <1>2. \A i \in positions : /\ IsFiniteSet(Below(i))
                             /\ Cardinality(Below(i)) \in 1..size
    <2> TAKE i \in positions
    <2>1. Below(i) \in SUBSET positions /\ Below(i) # {}
      OBVIOUS
    <2> HIDE DEF Below
    <2>2. IsFiniteSet(Below(i)) /\ Cardinality(Below(i)) <= size
      BY <2>1, FS_Subset
    <2>3. Cardinality(Below(i)) \in Nat /\ Cardinality(Below(i)) # 0
      BY <2>1, <2>2, FS_CardinalityType, FS_EmptySet
    <2>4. QED
      BY <1>1, <2>2, <2>3
  <1>3. \A i, k \in positions : Cardinality(Below(i)) = Cardinality(Below(k)) => i <= k
    <2> SUFFICES ASSUME NEW i \in positions, NEW k \in positions,
                        Cardinality(Below(i)) = Cardinality(Below(k)), ~(i <= k)
                 PROVE  FALSE
      OBVIOUS
    <2>1. Below(k) \in SUBSET Below(i) /\ i \in Below(i) /\ i \notin Below(k)
      <3>1. i \in Nat /\ k \in Nat /\ \A j \in positions : j \in Nat
        OBVIOUS
      <3>2. \A j \in positions : j <= k => j <= i
        BY <3>1
      <3>3. i <= i
        BY <3>1
      <3>4. QED
        BY <3>2, <3>3
    <2> HIDE DEF Below
    <2>2. Below(i) = Below(k)
      BY <1>2, <2>1, FS_Subset
    <2>3. QED
      BY <2>1, <2>2
  <1>4. \A i, k \in positions : Cardinality(Below(i)) = Cardinality(Below(k)) => i = k
    BY <1>3
  <1>5. rank \in Injection(positions, 1..size)
    <2> HIDE DEF Below, size
    <2>1. rank \in [positions -> 1..size]
      BY <1>2
    <2>2. \A i, k \in positions : rank[i] = rank[k] => i = k
      BY <1>4
    <2> HIDE DEF rank
    <2>3. QED
      BY <2>1, <2>2 DEF Injection, IsInjective
  <1>6. IsFiniteSet(1..size) /\ Cardinality(1..size) = size
    <2> HIDE DEF size
    <2>1. /\ IsFiniteSet(1..size)
          /\ Cardinality(1..size) = IF 1 > size THEN 0 ELSE size - 1 + 1
      BY <1>1, FS_Interval
    <2>2. QED
      BY <1>1, <2>1
  <1>7. rank \in Surjection(positions, 1..size)
    <2> HIDE DEF rank
    <2>1. QED
      BY <1>5, <1>6, FS_Injection
  <1>8. \A n \in 1..size : \E i \in positions : Cardinality(Below(i)) = n
    <2>1. \A n \in 1..size : \E i \in positions : rank[i] = n
      BY <1>7 DEF Surjection
    <2> HIDE DEF Below, size
    <2>2. QED
      BY <2>1
  <1>9. QED
    BY <1>1, <1>2, <1>4, <1>8

\* What is at the positions is a sequence of elements of the sequence, and has
\* the element of each of the positions.
LEMMA AtPositions ==
    ASSUME NEW T, NEW seq \in Seq(T), NEW positions \in SUBSET DOMAIN seq
    PROVE  /\ At(seq, positions) \in Seq(T)
           /\ \A i \in positions :
                 \E n \in DOMAIN At(seq, positions) : At(seq, positions)[n] = seq[i]
  <1>1. positions \in SUBSET Nat /\ IsFiniteSet(positions)
    <2>1. DOMAIN seq = 1..Len(seq) /\ Len(seq) \in Nat
      OBVIOUS
    <2>2. IsFiniteSet(DOMAIN seq)
      BY <2>1, FS_Interval
    <2>3. QED
      BY <2>1, <2>2, FS_Subset
  <1> DEFINE size == Cardinality(positions)
  <1>2. /\ size \in Nat
        /\ \A n \in 1..size : \E i \in positions : Cardinality({j \in positions : j <= i}) = n
        /\ \A i \in positions : Cardinality({j \in positions : j <= i}) \in 1..size
        /\ \A i, k \in positions :
              Cardinality({j \in positions : j <= i})
                 = Cardinality({j \in positions : j <= k}) => i = k
    BY <1>1, Ranks
  <1>3. \A n \in 1..size : /\ Nth(positions, n) \in positions
                           /\ Cardinality({j \in positions : j <= Nth(positions, n)}) = n
    BY <1>2 DEF Nth
  <1>4. At(seq, positions) = [n \in 1..size |-> seq[Nth(positions, n)]]
    BY DEF At
  <1>5. At(seq, positions) \in Seq(T)
    <2>1. \A n \in 1..size : seq[Nth(positions, n)] \in T
      <3>1. \A i \in positions : i \in 1..Len(seq)
        OBVIOUS
      <3>2. QED
        BY <1>3, <3>1, ElementOfSeq
    <2> HIDE DEF size
    <2>2. QED
      BY <1>2, <1>4, <2>1, IsASeq
  <1>6. ASSUME NEW i \in positions
        PROVE  \E n \in DOMAIN At(seq, positions) : At(seq, positions)[n] = seq[i]
    <2> DEFINE n == Cardinality({j \in positions : j <= i})
    <2>1. n \in 1..size /\ Nth(positions, n) = i
      BY <1>2, <1>3
    <2> HIDE DEF n, size
    <2>2. QED
      BY <1>4, <2>1
  <1>7. QED
    BY <1>5, <1>6

-----------------------------------------------------------------------------
\* The sources and the tasks of a tick

Kinds == {"ecfr", "federal_register", "firecrawl", "pdf"}
Sourced == [kind : Kinds, cadence : Cadence, docs : Seq(Doc)]

LEMMA SourcesTyped ==
    /\ Adapters \in Seq(Sourced)
    /\ \A c \in Cadence : Sources(c) \in Seq(Sourced)
  <1>1. \A k \in Kinds : Configured[k] \in Seq(Doc)
    BY CorpusAssumption DEF Kinds
  <1>2. FederalAdapters \in Seq(Sourced)
    <2> DEFINE all == <<Source("ecfr", "monthly", Configured["ecfr"]),
                        Source("federal_register", "weekly", Configured["federal_register"]),
                        Source("firecrawl", "monthly", Configured["firecrawl"]),
                        Source("pdf", "quarterly", Configured["pdf"])>>
               kept == {i \in DOMAIN all : all[i].kind = "federal_register" \/ all[i].docs # <<>>}
    <2>1. all \in Seq(Sourced)
      <3>1. \A k \in Kinds, c \in Cadence : Source(k, c, Configured[k]) \in Sourced
        BY <1>1 DEF Source, Sourced
      <3>2. /\ Source("ecfr", "monthly", Configured["ecfr"]) \in Sourced
            /\ Source("federal_register", "weekly", Configured["federal_register"]) \in Sourced
            /\ Source("firecrawl", "monthly", Configured["firecrawl"]) \in Sourced
            /\ Source("pdf", "quarterly", Configured["pdf"]) \in Sourced
        BY <3>1 DEF Kinds, Cadence
      <3>3. QED
        BY <3>2
    <2>2. kept \in SUBSET DOMAIN all
      OBVIOUS
    <2>3. FederalAdapters = At(all, kept)
      BY DEF FederalAdapters
    <2> HIDE DEF all, kept
    <2>4. QED
      BY <2>1, <2>2, <2>3, AtPositions
  <1>3. StateAdapters \in Seq(Sourced)
    <2> DEFINE kept == {i \in DOMAIN StateSources : StateSources[i].jurisdiction \in Jurisdiction}
               enabled == At(StateSources, kept)
               T == {s \in Range(StateSources) : s.docs \in Seq(Doc)}
    <2>1. StateSources \in Seq(T)
      <3>1. StateSources \in Seq(Range(StateSources))
        BY CorpusAssumption
      <3>2. DOMAIN StateSources = 1..Len(StateSources) /\ Len(StateSources) \in Nat
        BY <3>1, LenProperties
      <3>3. \A i \in DOMAIN StateSources : StateSources[i] \in T
        BY CorpusAssumption DEF Range
      <3>4. StateSources = [i \in 1..Len(StateSources) |-> StateSources[i]]
        BY <3>1
      <3>5. QED
        BY <3>2, <3>3, <3>4
    <2>2. kept \in SUBSET DOMAIN StateSources
      OBVIOUS
    <2>3. \A s \in T : s.docs \in Seq(Doc)
      OBVIOUS
    <2>4. StateAdapters = [i \in DOMAIN enabled |-> Source("pdf", "quarterly", enabled[i].docs)]
      BY DEF StateAdapters
    <2> HIDE DEF kept, T
    <2>5. enabled \in Seq(T)
      BY <2>1, <2>2, AtPositions
    <2> HIDE DEF enabled
    <2>6. DOMAIN enabled = 1..Len(enabled) /\ Len(enabled) \in Nat
      BY <2>5, LenProperties
    <2>7. \A i \in DOMAIN enabled : Source("pdf", "quarterly", enabled[i].docs) \in Sourced
      BY <2>3, <2>5, <2>6, ElementOfSeq DEF Source, Sourced, Kinds, Cadence
    <2>8. QED
      BY <2>4, <2>6, <2>7
  <1>4. Adapters \in Seq(Sourced)
    BY <1>2, <1>3, ConcatProperties, EmptySeq DEF Adapters
  <1>5. \A c \in Cadence : Sources(c) \in Seq(Sourced)
    <2> TAKE c \in Cadence
    <2>1. {i \in DOMAIN Adapters : Adapters[i].cadence = c} \in SUBSET DOMAIN Adapters
      OBVIOUS
    <2>2. QED
      BY <1>4, <2>1, AtPositions DEF Sources
  <1>6. QED
    BY <1>4, <1>5

Sweeps == [do : {"sync"}, kind : Kinds, docs : Seq(Doc)]
Others == [do : {"discover"}] \cup [do : {"embed"}, always : BOOLEAN]
Records == [do : {"record"}, cadence : Cadence]
Tasks == Sweeps \cup Others \cup Records

LEMMA SweepsTyped ==
    ASSUME NEW adapters \in Seq(Sourced)
    PROVE  /\ SweepTasks(adapters) \in Seq(Sweeps)
           /\ \A a \in Range(adapters) : \E t \in Range(SweepTasks(adapters)) : t.docs = a.docs
  <1>1. DOMAIN adapters = 1..Len(adapters) /\ Len(adapters) \in Nat
    BY LenProperties
  <1>2. \A i \in DOMAIN adapters : /\ SyncTask(adapters[i]) \in Sweeps
                                   /\ SyncTask(adapters[i]).docs = adapters[i].docs
    <2>1. \A i \in DOMAIN adapters : adapters[i] \in Sourced
      BY <1>1, ElementOfSeq
    <2>2. \A a \in Sourced : SyncTask(a) \in Sweeps /\ SyncTask(a).docs = a.docs
      BY DEF SyncTask, Sweeps, Sourced
    <2>3. QED
      BY <2>1, <2>2
  <1>3. SweepTasks(adapters) = [i \in 1..Len(adapters) |-> SyncTask(adapters[i])]
    BY <1>1 DEF SweepTasks
  <1>4. SweepTasks(adapters) \in Seq(Sweeps)
    BY <1>1, <1>2, <1>3
  <1>5. \A i \in DOMAIN adapters : /\ i \in DOMAIN SweepTasks(adapters)
                                   /\ SweepTasks(adapters)[i].docs = adapters[i].docs
    BY <1>1, <1>2, <1>3
  <1>6. QED
    BY <1>4, <1>5 DEF Range

LEMMA InTurnTyped ==
    ASSUME NEW T, NEW due, NEW tasks, \A c \in Cadence : tasks[c] \in Seq(T)
    PROVE  /\ InTurn(due, tasks) \in Seq(T)
           /\ Range(InTurn(due, tasks)) = UNION {Range(tasks[c]) : c \in due \cap Cadence}
  <1> DEFINE Part(c) == IF c \in due THEN tasks[c] ELSE <<>>
  <1>1. \A c \in Cadence : /\ Part(c) \in Seq(T)
                           /\ Range(Part(c)) = IF c \in due THEN Range(tasks[c]) ELSE {}
    BY EmptySeq DEF Range
  <1>2. InTurn(due, tasks) = Part("weekly") \o Part("monthly") \o Part("quarterly")
    BY DEF InTurn
  <1>3. /\ Part("weekly") \in Seq(T) /\ Part("monthly") \in Seq(T) /\ Part("quarterly") \in Seq(T)
    BY <1>1 DEF Cadence
  <1>6. UNION {Range(tasks[c]) : c \in due \cap Cadence}
           = UNION {Range(Part(c)) : c \in Cadence}
    BY <1>1
  <1> HIDE DEF Part
  <1>4. /\ Part("weekly") \o Part("monthly") \in Seq(T)
        /\ Range(Part("weekly") \o Part("monthly")) = Range(Part("weekly")) \cup Range(Part("monthly"))
    BY <1>3, ConcatProperties, RangeConcatenation
  <1>5. /\ InTurn(due, tasks) \in Seq(T)
        /\ Range(InTurn(due, tasks)) = Range(Part("weekly")) \cup Range(Part("monthly"))
                                          \cup Range(Part("quarterly"))
    <2> DEFINE s == Part("weekly") \o Part("monthly")
    <2>1. s \in Seq(T) /\ Range(s) = Range(Part("weekly")) \cup Range(Part("monthly"))
      BY <1>4
    <2>2. InTurn(due, tasks) = s \o Part("quarterly")
      BY <1>2
    <2> HIDE DEF s
    <2>3. /\ s \o Part("quarterly") \in Seq(T)
          /\ Range(s \o Part("quarterly")) = Range(s) \cup Range(Part("quarterly"))
      BY <1>3, <2>1, ConcatProperties, RangeConcatenation
    <2>4. QED
      BY <2>1, <2>2, <2>3
  <1>7. QED
    BY <1>5, <1>6 DEF Cadence


\* Once a cadence's clock is to be advanced nothing but clocks is left to do.
RecordsLast(tasks) ==
    \A i, j \in DOMAIN tasks : i < j /\ tasks[i].do = "record" => tasks[j].do = "record"

\* After the nth task there is one that sweeps a source with the document.
SweptAfter(tasks, n, d) ==
    \E i \in DOMAIN tasks : i > n /\ tasks[i].do = "sync" /\ d \in Range(tasks[i].docs)

ToRecord(tasks, c) ==
    \E i \in DOMAIN tasks : tasks[i].do = "record" /\ tasks[i].cadence = c

LEMMA CadenceTyped ==
    ASSUME NEW c \in Cadence
    PROVE  /\ CadenceTasks(c) \in Seq(Sweeps \cup Others)
           /\ \A d \in DocsOf(c) : \E t \in Range(CadenceTasks(c)) : t \in Sweeps /\ d \in Range(t.docs)
  <1> DEFINE more == IF c = "weekly" /\ Discovery /\ "federal" \in Jurisdiction
                     THEN <<DiscoverTask>> ELSE <<>>
             T == Sweeps \cup Others
  <1>1. /\ SweepTasks(Sources(c)) \in Seq(Sweeps)
        /\ \A a \in Range(Sources(c)) : \E t \in Range(SweepTasks(Sources(c))) : t.docs = a.docs
    BY SourcesTyped, SweepsTyped
  <1>2. DiscoverTask \in T
    BY DEF DiscoverTask, Others
  <1>3. more \in Seq(T)
    <2> HIDE DEF T
    <2>1. QED
      BY <1>2
  <1>4. SweepTasks(Sources(c)) \in Seq(T) /\ Range(SweepTasks(Sources(c))) \subseteq Sweeps
    BY <1>1, SeqMonotonic, RangeOfSeq
  <1>5. CadenceTasks(c) = SweepTasks(Sources(c)) \o more
    BY DEF CadenceTasks
  <1> HIDE DEF T, more
  <1>6. /\ CadenceTasks(c) \in Seq(T)
        /\ Range(CadenceTasks(c)) = Range(SweepTasks(Sources(c))) \cup Range(more)
    BY <1>3, <1>4, <1>5, ConcatProperties, RangeConcatenation
  <1>7. \A d \in DocsOf(c) : \E a \in Range(Sources(c)) : d \in Range(a.docs)
    BY DEF DocsOf
  <1>8. QED
    BY <1>1, <1>4, <1>6, <1>7 DEF T

LEMMA TickShape ==
    ASSUME NEW due \in SUBSET Cadence
    PROVE  /\ TickTasks(due) \in Seq(Tasks)
           /\ RecordsLast(TickTasks(due))
           /\ \A c \in Cadence : ToRecord(TickTasks(due), c) =>
                 \A d \in DocsOf(c) : SweptAfter(TickTasks(due), 0, d)
  <1> DEFINE T == Sweeps \cup Others
             work == InTurn(due, [c \in Cadence |-> CadenceTasks(c)])
             embed == EmbedTask(FALSE)
             front == work \o <<embed>>
             records == InTurn(due, [c \in Cadence |-> <<RecordTask(c)>>])
  <1>1. \A t \in T : t.do # "record"
    BY DEF Sweeps, Others
  <1>2. \A t \in Records : t.do = "record"
    BY DEF Records
  <1>3. \A t \in Sweeps : t.do = "sync"
    BY DEF Sweeps
  <1>4. T \subseteq Tasks /\ Records \subseteq Tasks
    BY DEF Tasks
  <1>5. /\ work \in Seq(T)
        /\ Range(work) = UNION {Range(CadenceTasks(c)) : c \in due}
    <2> DEFINE tasks == [c \in Cadence |-> CadenceTasks(c)]
    <2>1. \A c \in Cadence : tasks[c] \in Seq(T)
      BY CadenceTyped
    <2>2. UNION {Range(tasks[c]) : c \in due \cap Cadence} = UNION {Range(CadenceTasks(c)) : c \in due}
      OBVIOUS
    <2> HIDE DEF T, tasks
    <2>3. InTurn(due, tasks) \in Seq(T)
          /\ Range(InTurn(due, tasks)) = UNION {Range(tasks[c]) : c \in due \cap Cadence}
      BY <2>1, InTurnTyped
    <2>4. QED
      BY <2>2, <2>3 DEF tasks
  <1>6. records \in Seq(Records) /\ Range(records) = {RecordTask(c) : c \in due}
    <2> DEFINE tasks == [c \in Cadence |-> <<RecordTask(c)>>]
    <2>1. \A c \in Cadence : RecordTask(c) \in Records
      BY DEF RecordTask, Records
    <2>2. \A c \in Cadence : tasks[c] \in Seq(Records)
      BY <2>1
    <2>3. \A c \in Cadence : Range(tasks[c]) = {RecordTask(c)}
      BY DEF Range
    <2> HIDE DEF tasks
    <2>4. InTurn(due, tasks) \in Seq(Records)
          /\ Range(InTurn(due, tasks)) = UNION {Range(tasks[c]) : c \in due \cap Cadence}
      BY <2>2, InTurnTyped
    <2>5. UNION {Range(tasks[c]) : c \in due \cap Cadence} = {RecordTask(c) : c \in due}
      BY <2>3
    <2>6. QED
      BY <2>4, <2>5 DEF tasks
  <1>7. embed \in T
    BY DEF EmbedTask, Others
  <1>8. TickTasks(due) = front \o records
    BY DEF TickTasks
  <1>9. front \in Seq(T) /\ Range(work) \subseteq Range(front)
    <2> DEFINE last == <<embed>>
    <2>1. front = work \o last
      OBVIOUS
    <2> HIDE DEF T, work, front, embed
    <2>2. last \in Seq(T)
      BY <1>7
    <2>3. work \in Seq(T)
      BY <1>5
    <2> HIDE DEF last
    <2>4. work \o last \in Seq(T)
      BY <2>2, <2>3, ConcatProperties
    <2>5. Range(work \o last) = Range(work) \cup Range(last)
      BY <2>2, <2>3, RangeConcatenation
    <2>6. QED
      BY <2>1, <2>4, <2>5
  <1>10. front \in Seq(Tasks) /\ records \in Seq(Tasks)
    <2> HIDE DEF front, records, T
    <2>1. QED
      BY <1>4, <1>6, <1>9, SeqMonotonic
  <1> HIDE DEF front, records, work
  <1>11. /\ TickTasks(due) \in Seq(Tasks)
         /\ Len(TickTasks(due)) = Len(front) + Len(records)
         /\ \A i \in 1 .. Len(front) + Len(records) :
               TickTasks(due)[i] = IF i <= Len(front) THEN front[i] ELSE records[i - Len(front)]
         /\ Range(TickTasks(due)) = Range(front) \cup Range(records)
    BY <1>8, <1>10, ConcatProperties, RangeConcatenation
  <1>12. /\ Len(front) \in Nat /\ Len(records) \in Nat
         /\ DOMAIN TickTasks(due) = 1 .. Len(front) + Len(records)
    BY <1>10, <1>11, LenProperties
  <1>13. /\ \A i \in 1..Len(front) : front[i].do # "record"
         /\ \A i \in 1..Len(records) : records[i].do = "record"
    <2> HIDE DEF T
    <2>1. QED
      BY <1>1, <1>2, <1>6, <1>9, ElementOfSeq
  <1>14. RecordsLast(TickTasks(due))
    BY <1>11, <1>12, <1>13 DEF RecordsLast
  <1>15. ASSUME NEW c \in Cadence, ToRecord(TickTasks(due), c), NEW d \in DocsOf(c)
         PROVE  SweptAfter(TickTasks(due), 0, d)
    <2>1. PICK i \in DOMAIN TickTasks(due) :
             TickTasks(due)[i].do = "record" /\ TickTasks(due)[i].cadence = c
      BY <1>15 DEF ToRecord
    <2>2. TickTasks(due)[i] \in Range(records)
      <3>1. i > Len(front) /\ TickTasks(due)[i] = records[i - Len(front)]
        BY <1>11, <1>12, <1>13, <2>1
      <3>2. i - Len(front) \in 1..Len(records)
        BY <1>12, <3>1
      <3>3. DOMAIN records = 1..Len(records)
        BY <1>6, LenProperties
      <3>4. QED
        BY <3>1, <3>2, <3>3 DEF Range
    <2>3. c \in due
      BY <1>6, <2>1, <2>2 DEF RecordTask
    <2>4. PICK t \in Range(CadenceTasks(c)) : t \in Sweeps /\ d \in Range(t.docs)
      BY CadenceTyped
    <2>5. t \in Range(TickTasks(due))
      BY <1>5, <1>9, <1>11, <2>3, <2>4
    <2>6. PICK j \in DOMAIN TickTasks(due) : TickTasks(due)[j] = t
      BY <2>5 DEF Range
    <2>7. j > 0 /\ TickTasks(due)[j].do = "sync" /\ d \in Range(TickTasks(due)[j].docs)
      BY <1>3, <1>12, <2>4, <2>6
    <2>8. QED
      BY <2>7 DEF SweptAfter
  <1>16. QED
    BY <1>11, <1>14, <1>15


-----------------------------------------------------------------------------
\* What the variables hold

Items == [doc : Doc, content : Nat]
Stages == {"none", "ingesting", "planning", "fetching"}
Runs == [stage : Stages, feed : [Feed -> Nat], targets : Seq(Target)]

Shapes ==
    /\ upstream \in [Doc -> Nat]
    /\ store \in [Doc -> Seq(Versions)]
    /\ clock \in [Cadence -> {"due", "fresh"}]
    /\ todo \in [Proc -> Seq(Tasks)]
    /\ ran \in [Proc -> BOOLEAN]
    /\ draft \in [Proc -> [Doc -> Seq(Versions) \cup {NoDraft}]]
    /\ items \in [Proc -> Seq(Items)]
    /\ found \in [Proc -> Nat \cup {NoDoc}]
    /\ sweep \in [Proc -> Runs]
    /\ batch \in [Proc -> SUBSET (Doc \X Nat)]
    /\ coming \subseteq Operator \cup Doc
    /\ noted \in [Cadence -> [Doc -> Nat]]
    /\ owed \in [Proc -> [Doc -> Nat]]
    /\ faults \in 0..MaxFaults

\* Where a process is in its task: documents are fetched and written in a sweep
\* only, chunks embedded in an embedding pass.
Place(p) ==
    /\ p \in coming => todo[p] = <<>>
    /\ batch[p] # {} => Doing(p, "embed")
    /\ sweep[p].stage = "ingesting" => Doing(p, "sync")
    /\ sweep[p].stage \in {"planning", "fetching"} => Doing(p, "discover")
    /\ sweep[p].stage = "none" => items[p] = <<>> /\ \A d \in Doc : draft[p][d] = NoDraft
Places == \A p \in Proc : Place(p)

LEMMA FeedInDoc == Feed \subseteq Doc
  <1>1. Configured["federal_register"] \in Seq(Doc)
    BY CorpusAssumption
  <1>2. QED
    BY <1>1, RangeOfSeq DEF Feed

LEMMA ShapesInit == Init => Shapes
  <1> SUFFICES ASSUME Init PROVE Shapes
    OBVIOUS
  <1>1. MaxFaults \in Nat
    BY CorpusAssumption
  <1>2. NoSweep \in Runs
    BY DEF NoSweep, Runs, Stages
  <1>3. <<>> \in Seq(Versions) /\ <<>> \in Seq(Tasks) /\ <<>> \in Seq(Items)
    BY EmptySeq
  <1>4. QED
    BY <1>1, <1>2, <1>3, CorpusAssumption DEF Init, Shapes

LEMMA ViewTyped ==
    ASSUME Shapes, NEW p \in Proc
    PROVE  /\ \A d \in Doc : /\ View(p, d) \in Seq(Versions)
                             /\ Len(View(p, d)) \in Nat
                             /\ DOMAIN View(p, d) = 1..Len(View(p, d))
           /\ Committed(p) \in [Doc -> Seq(Versions)]
  <1>1. \A d \in Doc : View(p, d) \in Seq(Versions)
    BY DEF Shapes, View
  <1>2. QED
    BY <1>1, LenProperties DEF Committed

LEMMA FetchedTyped ==
    ASSUME Shapes, NEW wanted \in Seq(Doc)
    PROVE  /\ Fetched(wanted) \in Seq(Items)
           /\ DOMAIN Fetched(wanted) = DOMAIN wanted
           /\ \A i \in DOMAIN wanted :
                 Fetched(wanted)[i] = [doc |-> wanted[i], content |-> upstream[wanted[i]]]
  <1>1. DOMAIN wanted = 1..Len(wanted) /\ Len(wanted) \in Nat
    BY LenProperties
  <1>2. \A i \in 1..Len(wanted) : [doc |-> wanted[i], content |-> upstream[wanted[i]]] \in Items
    BY ElementOfSeq DEF Shapes, Items
  <1>3. Fetched(wanted)
           = [i \in 1..Len(wanted) |-> [doc |-> wanted[i], content |-> upstream[wanted[i]]]]
    BY <1>1 DEF Fetched
  <1>4. QED
    BY <1>1, <1>2, <1>3

LEMMA TaskTyped ==
    ASSUME Shapes, NEW p \in Proc, todo[p] # <<>>
    PROVE  /\ Head(todo[p]) \in Tasks
           /\ Tail(todo[p]) \in Seq(Tasks)
           /\ Head(todo[p]).do = "sync" => Head(todo[p]) \in Sweeps /\ Head(todo[p]).docs \in Seq(Doc)
           /\ Head(todo[p]).do = "record" => Head(todo[p]).cadence \in Cadence
  <1>1. todo[p] \in Seq(Tasks)
    BY DEF Shapes
  <1>2. Head(todo[p]) \in Tasks /\ Tail(todo[p]) \in Seq(Tasks)
    BY <1>1, HeadTailProperties
  <1>3. QED
    BY <1>2 DEF Tasks, Sweeps, Others, Records

LEMMA ItemTyped ==
    ASSUME Shapes, NEW p \in Proc, Ingesting(p)
    PROVE  /\ Item(p) \in Items
           /\ Item(p).doc \in Doc /\ Item(p).content \in Nat
           /\ Tail(items[p]) \in Seq(Items)
           /\ Item(p) = items[p][1] /\ 1 \in DOMAIN items[p]
           /\ Len(Tail(items[p])) = Len(items[p]) - 1
           /\ \A i \in 1..Len(Tail(items[p])) : Tail(items[p])[i] = items[p][i + 1]
  <1>1. items[p] \in Seq(Items) /\ items[p] # <<>>
    BY DEF Shapes, Ingesting
  <1>2. /\ Item(p) \in Items /\ Tail(items[p]) \in Seq(Items)
        /\ Len(Tail(items[p])) = Len(items[p]) - 1
        /\ \A i \in 1..Len(Tail(items[p])) : Tail(items[p])[i] = items[p][i + 1]
    BY <1>1, HeadTailProperties DEF Item
  <1>3. Item(p) = items[p][1] /\ 1 \in DOMAIN items[p]
    BY <1>1 DEF Item
  <1>4. QED
    BY <1>2, <1>3 DEF Items

LEMMA SupersededTyped ==
    ASSUME NEW versions \in Seq(Versions), NEW n, NEW content \in Nat
    PROVE  /\ Superseded(versions, n, content) \in Seq(Versions)
           /\ Len(Superseded(versions, n, content)) = Len(versions) + 1
           /\ \A i \in 1..Len(versions) :
                 Superseded(versions, n, content)[i]
                    = IF i = n THEN Retired(versions[i]) ELSE versions[i]
           /\ Superseded(versions, n, content)[Len(versions) + 1] = Version(content)
  <1> DEFINE old == [i \in DOMAIN versions |-> IF i = n THEN Retired(versions[i]) ELSE versions[i]]
             new == <<Version(content)>>
  <1>1. DOMAIN versions = 1..Len(versions) /\ Len(versions) \in Nat
    BY LenProperties
  <1>2. \A i \in 1..Len(versions) : versions[i] \in Versions
    BY ElementOfSeq
  <1>3. \A v \in Versions : Retired(v) \in Versions
    BY DEF Retired, Versions
  <1>4. \A i \in DOMAIN versions :
           (IF i = n THEN Retired(versions[i]) ELSE versions[i]) \in Versions
    BY <1>1, <1>2, <1>3
  <1>5. old \in Seq(Versions) /\ Len(old) = Len(versions)
    BY <1>1, <1>4
  <1>6. Version(content) \in Versions
    BY DEF Version, Versions
  <1>7. new \in Seq(Versions) /\ Len(new) = 1 /\ new[1] = Version(content)
    BY <1>6
  <1>8. \A i \in 1..Len(versions) : old[i] = IF i = n THEN Retired(versions[i]) ELSE versions[i]
    BY <1>1
  <1>9. Superseded(versions, n, content) = old \o new
    BY DEF Superseded
  <1> HIDE DEF old, new
  <1>10. /\ old \o new \in Seq(Versions)
         /\ Len(old \o new) = Len(versions) + 1
         /\ \A i \in 1..Len(versions) + 1 :
               (old \o new)[i] = IF i <= Len(versions) THEN old[i] ELSE new[i - Len(versions)]
    <2>1. old \in Seq(Versions) /\ new \in Seq(Versions)
      BY <1>5, <1>7
    <2>2. /\ old \o new \in Seq(Versions)
          /\ Len(old \o new) = Len(old) + Len(new)
          /\ \A i \in 1..Len(old) + Len(new) :
                (old \o new)[i] = IF i <= Len(old) THEN old[i] ELSE new[i - Len(old)]
      BY <2>1, ConcatProperties
    <2>3. QED
      BY <1>5, <1>7, <2>2
  <1>11. (old \o new)[Len(versions) + 1] = Version(content)
    BY <1>1, <1>7, <1>10
  <1>12. QED
    BY <1>1, <1>8, <1>9, <1>10, <1>11


LEMMA AbandonShapes ==
    ASSUME Shapes, NEW p \in Proc, Abandon(p), clock' \in [Cadence -> {"due", "fresh"}],
           faults' \in 0..MaxFaults
    PROVE  Shapes'
  <1>1. NoSweep \in Runs
    BY DEF NoSweep, Runs, Stages
  <1>2. <<>> \in Seq(Tasks) /\ <<>> \in Seq(Items)
    BY EmptySeq
  <1>3. UNCHANGED <<upstream, store, coming, noted>>
    BY DEF Abandon
  <1>4. /\ todo' \in [Proc -> Seq(Tasks)]
        /\ items' \in [Proc -> Seq(Items)]
        /\ sweep' \in [Proc -> Runs]
    BY <1>1, <1>2 DEF Shapes, Abandon
  <1>5. /\ ran' \in [Proc -> BOOLEAN]
        /\ found' \in [Proc -> Nat \cup {NoDoc}]
        /\ batch' \in [Proc -> SUBSET (Doc \X Nat)]
    BY DEF Shapes, Abandon
  <1>6. draft' \in [Proc -> [Doc -> Seq(Versions) \cup {NoDraft}]]
    BY DEF Shapes, Abandon
  <1>7. owed' \in [Proc -> [Doc -> Nat]]
    BY DEF Shapes, Abandon
  <1>8. QED
    BY <1>3, <1>4, <1>5, <1>6, <1>7 DEF Shapes

LEMMA CommandTyped == \A command \in {"sync", "discover", "embed"} :
                         /\ CommandTasks[command] \in Seq(Tasks)
                         /\ \A c : ~ToRecord(CommandTasks[command], c)
                         /\ RecordsLast(CommandTasks[command])
  <1>1. CommandTasks["sync"] \in Seq(Sweeps)
    <2>1. SweepTasks(Adapters) \in Seq(Sweeps)
      BY SourcesTyped, SweepsTyped
    <2>2. QED
      BY <2>1 DEF CommandTasks
  <1>2. /\ CommandTasks["discover"] = <<DiscoverTask>>
        /\ CommandTasks["embed"] = <<EmbedTask(TRUE)>>
    BY DEF CommandTasks
  <1>3. DiscoverTask \in Others /\ EmbedTask(TRUE) \in Others
    BY DEF DiscoverTask, EmbedTask, Others
  <1>4. CommandTasks["discover"] \in Seq(Others)
    BY <1>2, <1>3
  <1>5. CommandTasks["embed"] \in Seq(Others)
    <2> DEFINE task == EmbedTask(TRUE)
    <2>1. task \in Others /\ CommandTasks["embed"] = <<task>>
      BY <1>2, <1>3
    <2> HIDE DEF task
    <2>2. QED
      BY <2>1
  <1>6. \A command \in {"sync", "discover", "embed"} : CommandTasks[command] \in Seq(Sweeps \cup Others)
    BY <1>1, <1>4, <1>5, SeqMonotonic
  <1>7. \A t \in Sweeps \cup Others : t \in Tasks /\ t.do # "record"
    BY DEF Tasks, Sweeps, Others
  <1>8. ASSUME NEW tasks \in Seq(Sweeps \cup Others)
        PROVE  /\ tasks \in Seq(Tasks)
               /\ \A i \in DOMAIN tasks : tasks[i].do # "record"
    <2>1. tasks \in Seq(Tasks)
      BY <1>7, SeqMonotonic
    <2>2. \A i \in DOMAIN tasks : tasks[i] \in Sweeps \cup Others
      BY ElementOfSeq, LenProperties
    <2>3. QED
      BY <1>7, <2>1, <2>2
  <1>9. QED
    BY <1>6, <1>8 DEF ToRecord, RecordsLast

LEMMA SelectedTyped ==
    ASSUME NEW s \in Runs, NEW proposals \in Proposed, NEW tokens
    PROVE  Selected(s, proposals, tokens) \in Runs
  <1> DEFINE T == [target : Target, verdict : Verdict]
             fetchable == At(proposals, {i \in DOMAIN proposals : ~Duplicate(proposals[i])})
             accepted == Accepted(fetchable, tokens)
             targets == [i \in DOMAIN accepted |-> accepted[i].target]
  <1>1. proposals \in Seq(T)
    <2>1. PICK n \in 0..MaxProposals : proposals \in [1..n -> T]
      BY DEF Proposed
    <2>2. n \in Nat
      BY CorpusAssumption
    <2> HIDE DEF T
    <2>3. \A i \in 1..n : proposals[i] \in T
      BY <2>1
    <2>4. proposals = [i \in 1..n |-> proposals[i]]
      BY <2>1
    <2>5. QED
      BY <2>2, <2>3, <2>4
  <1>2. fetchable \in Seq(T)
    <2> DEFINE kept == {i \in DOMAIN proposals : ~Duplicate(proposals[i])}
    <2>1. kept \in SUBSET DOMAIN proposals
      OBVIOUS
    <2> HIDE DEF kept, T
    <2>2. At(proposals, kept) \in Seq(T)
      BY <1>1, <2>1, AtPositions
    <2>3. QED
      BY <2>2 DEF kept
  <1> HIDE DEF fetchable, T
  <1>3. accepted \in Seq(T)
    <2>1. <<>> \in Seq(T)
      BY EmptySeq
    <2>2. Within(fetchable) \in Nat /\ Within(fetchable) <= Len(fetchable)
      BY <1>2, CorpusAssumption, LenProperties DEF Within
    <2>3. \A i \in 1..Within(fetchable) : fetchable[i] \in T
      BY <1>2, <2>2, ElementOfSeq, LenProperties
    <2>4. SubSeq(fetchable, 1, Within(fetchable)) \in Seq(T)
      BY <2>2, <2>3, SubSeqProperties
    <2>5. QED
      BY <2>1, <2>4 DEF Accepted
  <1> HIDE DEF accepted
  <1>4. DOMAIN accepted = 1..Len(accepted) /\ Len(accepted) \in Nat
    BY <1>3, LenProperties
  <1>5. \A i \in 1..Len(accepted) : accepted[i].target \in Target
    <2>1. \A i \in 1..Len(accepted) : accepted[i] \in T
      BY <1>3, ElementOfSeq
    <2>2. QED
      BY <2>1 DEF T
  <1>6. targets \in Seq(Target)
    BY <1>4, <1>5
  <1>7. Selected(s, proposals, tokens) = [s EXCEPT !.stage = "fetching", !.targets = targets]
    BY DEF Selected, targets, accepted, fetchable
  <1> HIDE DEF targets
  <1>8. QED
    BY <1>6, <1>7 DEF Runs, Stages


\* A fetch of a source, of the documents it has delivered.
LEMMA DeliveredTyped ==
    ASSUME Shapes, NEW wanted \in Seq(Doc), NEW got
    PROVE  /\ Delivered(wanted, got) \in Seq(Doc)
           /\ Fetched(Delivered(wanted, got)) \in Seq(Items)
           /\ \A d \in got \cap Range(wanted) :
                 \E i \in DOMAIN Fetched(Delivered(wanted, got)) :
                    Fetched(Delivered(wanted, got))[i] = [doc |-> d, content |-> upstream[d]]
  <1> DEFINE kept == {i \in DOMAIN wanted : wanted[i] \in got}
  <1>1. kept \in SUBSET DOMAIN wanted
    OBVIOUS
  <1>2. \A d \in got \cap Range(wanted) : \E i \in kept : wanted[i] = d
    BY DEF Range
  <1>3. Delivered(wanted, got) = At(wanted, kept)
    BY DEF Delivered
  <1> HIDE DEF kept
  <1>4. /\ Delivered(wanted, got) \in Seq(Doc)
        /\ \A i \in kept : \E n \in DOMAIN Delivered(wanted, got) :
              Delivered(wanted, got)[n] = wanted[i]
    BY <1>1, <1>3, AtPositions
  <1> DEFINE some == Delivered(wanted, got)
  <1>5. some \in Seq(Doc) /\ \A d \in got \cap Range(wanted) : \E n \in DOMAIN some : some[n] = d
    BY <1>2, <1>4
  <1> HIDE DEF some
  <1>6. /\ Fetched(some) \in Seq(Items)
        /\ DOMAIN Fetched(some) = DOMAIN some
        /\ \A i \in DOMAIN some : Fetched(some)[i] = [doc |-> some[i], content |-> upstream[some[i]]]
    BY <1>5, FetchedTyped
  <1>7. \A d \in got \cap Range(wanted) :
           \E i \in DOMAIN Fetched(some) : Fetched(some)[i] = [doc |-> d, content |-> upstream[d]]
    BY <1>5, <1>6
  <1>8. QED
    BY <1>4, <1>6, <1>7 DEF some

LEMMA TargetTyped ==
    ASSUME Shapes, NEW p \in Proc, sweep[p].targets # <<>>
    PROVE  /\ TargetItems(p, Head(sweep[p].targets)) \in Seq(Items)
           /\ Tail(sweep[p].targets) \in Seq(Target)
  <1> DEFINE target == Head(sweep[p].targets)
  <1>1. sweep[p].targets \in Seq(Target) /\ sweep[p].feed \in [Feed -> Nat]
    BY DEF Shapes, Runs
  <1>2. target \in Target /\ Tail(sweep[p].targets) \in Seq(Target)
    BY <1>1, HeadTailProperties
  <1> HIDE DEF target
  <1>3. target.docs \in Seq(Doc)
    BY <1>2, CorpusAssumption
  <1>4. Fetched(Delivered(target.docs, offered)) \in Seq(Items)
    BY <1>3, DeliveredTyped
  <1>5. ASSUME target.key \in Feed
        PROVE  <<[doc |-> target.key, content |-> sweep[p].feed[target.key]]>> \in Seq(Items)
    <2> DEFINE item == [doc |-> target.key, content |-> sweep[p].feed[target.key]]
    <2>1. item \in Items
      BY <1>1, <1>5, FeedInDoc DEF Items
    <2> HIDE DEF item
    <2>2. <<item>> \in Seq(Items)
      BY <2>1
    <2>3. QED
      BY <2>2 DEF item
  <1>6. <<>> \in Seq(Items)
    BY EmptySeq
  <1>7. TargetItems(p, target) \in Seq(Items)
    BY <1>4, <1>5, <1>6 DEF TargetItems
  <1>8. QED
    BY <1>2, <1>7 DEF target


LEMMA StoredShapes ==
    ASSUME Shapes, NEW p \in Proc, BatchStored(p)
    PROVE  /\ store' \in [Doc -> Seq(Versions)]
           /\ \A d \in Doc : /\ Len(store'[d]) = Len(store[d])
                             /\ \A i \in 1..Len(store[d]) :
                                   /\ store'[d][i].content = store[d][i].content
                                   /\ store'[d][i].current = store[d][i].current
                                   /\ store'[d][i].live = store[d][i].live
  <1> DEFINE Embedded(d, i) == IF <<d, i>> \in batch[p] THEN [store[d][i] EXCEPT !.vector = TRUE]
                               ELSE store[d][i]
  <1>1. \A d \in Doc : /\ DOMAIN store[d] = 1..Len(store[d])
                       /\ Len(store[d]) \in Nat
                       /\ \A i \in 1..Len(store[d]) : store[d][i] \in Versions
    <2> TAKE d \in Doc
    <2>1. store[d] \in Seq(Versions)
      BY DEF Shapes
    <2>2. QED
      BY <2>1, LenProperties, ElementOfSeq
  <1>2. \A v \in Versions : LET w == [v EXCEPT !.vector = TRUE]
                            IN  /\ w \in Versions /\ w.content = v.content
                                /\ w.current = v.current /\ w.live = v.live
    BY DEF Versions
  <1>3. \A d \in Doc : \A i \in 1..Len(store[d]) :
           /\ Embedded(d, i) \in Versions
           /\ Embedded(d, i).content = store[d][i].content
           /\ Embedded(d, i).current = store[d][i].current
           /\ Embedded(d, i).live = store[d][i].live
    BY <1>1, <1>2
  <1>4. store' = [d \in Doc |-> [i \in DOMAIN store[d] |-> Embedded(d, i)]]
    BY DEF BatchStored
  <1> HIDE DEF Embedded
  <1>5. \A d \in Doc : store'[d] = [i \in 1..Len(store[d]) |-> Embedded(d, i)]
    BY <1>1, <1>4
  <1>6. \A d \in Doc : store'[d] \in Seq(Versions) /\ Len(store'[d]) = Len(store[d])
    <2> TAKE d \in Doc
    <2>1. Len(store[d]) \in Nat /\ \A i \in 1..Len(store[d]) : Embedded(d, i) \in Versions
      BY <1>1, <1>3
    <2>2. [i \in 1..Len(store[d]) |-> Embedded(d, i)] \in Seq(Versions)
      BY <2>1
    <2>3. Len([i \in 1..Len(store[d]) |-> Embedded(d, i)]) = Len(store[d])
      BY <2>1
    <2>4. QED
      BY <1>5, <2>2, <2>3
  <1>7. store' \in [Doc -> Seq(Versions)]
    BY <1>4, <1>6
  <1>8. QED
    BY <1>3, <1>5, <1>6, <1>7

\* What the world does leaves the system alone, and texts are not taken back.
LEMMA WorldSteps ==
    ASSUME Shapes, NEW d \in Doc, Publish(d) \/ Issue(d) \/ Withdraw(d)
    PROVE  /\ upstream' \in [Doc -> Nat]
           /\ \A e \in Doc : upstream[e] <= upstream'[e]
           /\ coming' \subseteq coming
           /\ UNCHANGED <<store, clock, todo, ran, draft, items, found, sweep, batch, noted, owed, faults>>
  <1>1. upstream \in [Doc -> Nat]
    BY DEF Shapes
  <1>2. CASE Publish(d)
    BY <1>1, <1>2 DEF Publish, procs
  <1>3. CASE Issue(d)
    BY <1>1, <1>3 DEF Issue
  <1>4. CASE Withdraw(d)
    BY <1>1, <1>4 DEF Withdraw
  <1>5. QED
    BY <1>2, <1>3, <1>4

LEMMA ShapesStep ==
    ASSUME Shapes, Places, [Next]_vars
    PROVE  Shapes'
  <1>1. CASE UNCHANGED vars
    BY <1>1 DEF Shapes, vars, procs
  <1>2. ASSUME NEW d \in Doc, Publish(d) \/ Issue(d) \/ Withdraw(d)
        PROVE  Shapes'
    BY <1>2, WorldSteps DEF Shapes, procs
  <1>3. ASSUME NEW c \in Cadence, Elapse(c)
        PROVE  Shapes'
    BY <1>3 DEF Shapes, Elapse, procs
  <1>4. ASSUME NEW p \in Proc, Step(p) \/ Crash(p)
        PROVE  Shapes'
    <2>a. ASSUME faults' = faults + 1, faults < MaxFaults
          PROVE  faults' \in 0..MaxFaults
      BY <2>a, CorpusAssumption DEF Shapes
    <2>b. ASSUME UNCHANGED clock
          PROVE  clock' \in [Cadence -> {"due", "fresh"}]
      BY <2>b DEF Shapes
    <2>c. ASSUME NextTask(p), todo[p] # <<>>
          PROVE  todo' \in [Proc -> Seq(Tasks)]
      BY <2>c, TaskTyped DEF NextTask, Shapes
    <2>1. CASE TickBegins(p)
      <3>1. \A due \in SUBSET Cadence : TickTasks(due) \in Seq(Tasks)
        BY TickShape
      <3>2. todo' \in [Proc -> Seq(Tasks)]
        BY <2>1, <3>1 DEF TickBegins, Shapes
      <3>3. owed' \in [Proc -> [Doc -> Nat]] /\ ran' \in [Proc -> BOOLEAN]
        BY <2>1 DEF TickBegins, Shapes
      <3>4. UNCHANGED <<upstream, store, clock, draft, items, found, sweep, batch, coming, noted, faults>>
        BY <2>1 DEF TickBegins
      <3>5. QED
        BY <3>2, <3>3, <3>4 DEF Shapes
    <2>2. CASE CommandBegins(p)
      <3>1. p \in Operator
        BY <2>2 DEF CommandBegins, Shapes
      <3>2. \A command \in Command[p] : CommandTasks[command] \in Seq(Tasks)
        BY <3>1, CommandTyped, CorpusAssumption DEF Operator
      <3>3. todo' \in [Proc -> Seq(Tasks)]
        BY <2>2, <3>2 DEF CommandBegins, Shapes
      <3>4. coming' \subseteq Operator \cup Doc
        BY <2>2 DEF CommandBegins, Shapes
      <3>5. UNCHANGED <<upstream, store, clock, ran, draft, items, found, sweep, batch, noted, owed, faults>>
        BY <2>2 DEF CommandBegins
      <3>6. QED
        BY <3>3, <3>4, <3>5 DEF Shapes
    <2>3. CASE ItemUnchanged(p)
      <3>1. items' \in [Proc -> Seq(Items)]
        BY <2>3, ItemTyped DEF ItemUnchanged, Shapes
      <3>2. QED
        BY <2>3, <3>1 DEF ItemUnchanged, Shapes
    <2>4. CASE ItemRead(p)
      <3>1. Len(View(p, Item(p).doc)) \in Nat
        BY <2>4, ItemTyped, ViewTyped DEF ItemRead
      <3>2. found' \in [Proc -> Nat \cup {NoDoc}]
        BY <2>4, <3>1 DEF ItemRead, Shapes
      <3>3. QED
        BY <2>4, <3>2 DEF ItemRead, Shapes
    <2>5. CASE ItemWritten(p)
      <3>1. Item(p).doc \in Doc /\ Item(p).content \in Nat /\ Tail(items[p]) \in Seq(Items)
        BY <2>5, ItemTyped DEF ItemWritten
      <3>2. Superseded(View(p, Item(p).doc), found[p], Item(p).content) \in Seq(Versions)
        BY <3>1, ViewTyped, SupersededTyped
      <3>3. draft' \in [Proc -> [Doc -> Seq(Versions) \cup {NoDraft}]]
        BY <2>5, <3>2 DEF ItemWritten, Shapes
      <3>4. items' \in [Proc -> Seq(Items)] /\ found' \in [Proc -> Nat \cup {NoDoc}]
        BY <2>5, <3>1 DEF ItemWritten, Shapes
      <3>5. QED
        BY <2>5, <3>3, <3>4 DEF ItemWritten, Shapes
    <2>6. CASE ItemRefused(p)
      BY <2>6, <2>b, AbandonShapes DEF ItemRefused, Shapes
    <2>7. CASE Fetch(p)
      <3>1. Head(todo[p]).docs \in Seq(Doc)
        BY <2>7, TaskTyped DEF Fetch, Doing
      <3>2. \A got : Fetched(Delivered(Head(todo[p]).docs, got)) \in Seq(Items)
        BY <3>1, DeliveredTyped
      <3>3. items' \in [Proc -> Seq(Items)]
        BY <2>7, <3>2 DEF Fetch, Shapes
      <3>4. owed' \in [Proc -> [Doc -> Nat]]
        BY <2>7 DEF Fetch, Shapes
      <3>5. ran' \in [Proc -> BOOLEAN]
        BY <2>7 DEF Fetch, Shapes
      <3>6. faults' \in 0..MaxFaults
        BY <2>7, <2>a DEF Fetch, Shapes
      <3>7. sweep' \in [Proc -> Runs]
        <4>1. [sweep[p] EXCEPT !.stage = "ingesting"] \in Runs
          <5>1. sweep[p] \in Runs
            BY DEF Shapes
          <5>2. QED
            BY <5>1 DEF Runs, Stages
        <4>2. sweep' = [sweep EXCEPT ![p] = [sweep[p] EXCEPT !.stage = "ingesting"]]
          BY <2>7 DEF Fetch
        <4>3. QED
          BY <4>1, <4>2 DEF Shapes
      <3>8. UNCHANGED <<upstream, store, clock, todo, draft, found, batch, coming, noted>>
        BY <2>7 DEF Fetch
      <3>9. QED
        BY <3>3, <3>4, <3>5, <3>6, <3>7, <3>8 DEF Shapes
    <2>d. ASSUME store' = Committed(p), draft' = [draft EXCEPT ![p] = [d \in Doc |-> NoDraft]],
                 sweep' = [sweep EXCEPT ![p] = NoSweep]
          PROVE  /\ store' \in [Doc -> Seq(Versions)]
                 /\ draft' \in [Proc -> [Doc -> Seq(Versions) \cup {NoDraft}]]
                 /\ sweep' \in [Proc -> Runs]
      <3>1. NoSweep \in Runs
        BY DEF NoSweep, Runs, Stages
      <3>2. QED
        BY <2>d, <3>1, ViewTyped DEF Shapes
    <2>8. CASE SourceDone(p)
      <3>1. todo' \in [Proc -> Seq(Tasks)]
        BY <2>8, <2>c DEF SourceDone, Doing
      <3>2. /\ store' \in [Doc -> Seq(Versions)]
            /\ draft' \in [Proc -> [Doc -> Seq(Versions) \cup {NoDraft}]]
            /\ sweep' \in [Proc -> Runs]
        BY <2>8, <2>d DEF SourceDone
      <3>3. UNCHANGED <<upstream, clock, ran, items, found, batch, coming, noted, owed, faults>>
        BY <2>8 DEF SourceDone
      <3>4. QED
        BY <3>1, <3>2, <3>3 DEF Shapes
    <2>9. CASE FeedFails(p)
      <3>1. todo' \in [Proc -> Seq(Tasks)] /\ faults' \in 0..MaxFaults
        BY <2>9, <2>a, <2>c DEF FeedFails, Doing
      <3>2. ran' \in [Proc -> BOOLEAN]
        BY <2>9 DEF FeedFails, Shapes
      <3>3. QED
        BY <2>9, <3>1, <3>2 DEF FeedFails, Shapes
    <2>10. CASE FeedFetched(p)
      <3>1. PICK feed \in [Feed -> Nat] :
               sweep' = [sweep EXCEPT ![p].stage = "planning", ![p].feed = feed]
        <4>1. PICK got : sweep' = [sweep EXCEPT ![p].stage = "planning",
                            ![p].feed = [d \in Feed |-> IF d \in got THEN upstream[d] ELSE 0]]
          BY <2>10 DEF FeedFetched
        <4>2. [d \in Feed |-> IF d \in got THEN upstream[d] ELSE 0] \in [Feed -> Nat]
          BY FeedInDoc DEF Shapes
        <4>3. QED
          BY <4>1, <4>2
      <3>2. sweep' \in [Proc -> Runs]
        <4>1. sweep \in [Proc -> Runs]
          BY DEF Shapes
        <4>2. [sweep[p] EXCEPT !.stage = "planning", !.feed = feed] \in Runs
          BY <4>1 DEF Runs, Stages
        <4>3. QED
          BY <3>1, <4>1, <4>2
      <3>3. faults' \in 0..MaxFaults
        BY <2>10, <2>a DEF FeedFetched, Shapes
      <3>4. UNCHANGED <<upstream, store, clock, todo, ran, draft, items, found, batch, coming, noted, owed>>
        BY <2>10 DEF FeedFetched
      <3>5. QED
        BY <3>2, <3>3, <3>4 DEF Shapes
    <2>11. CASE Plan(p)
      <3>1. sweep[p] \in Runs
        BY DEF Shapes
      <3>2. [sweep[p] EXCEPT !.stage = "fetching"] \in Runs
        BY <3>1 DEF Runs, Stages
      <3>3. \A tokens : \A proposals \in Proposed : Selected(sweep[p], proposals, tokens) \in Runs
        BY <3>1, SelectedTyped
      <3>4. sweep' \in [Proc -> Runs]
        <4>1. \E run \in Runs : sweep' = [sweep EXCEPT ![p] = run]
          <5>1. CASE sweep' = [sweep EXCEPT ![p].stage = "fetching"]
            BY <3>2, <5>1
          <5>2. CASE \E tokens : \E proposals \in Proposed :
                        sweep' = [sweep EXCEPT ![p] = Selected(sweep[p], proposals, tokens)]
            BY <3>3, <5>2
          <5>3. QED
            BY <2>11, <5>1, <5>2 DEF Plan
        <4>2. QED
          BY <4>1 DEF Shapes
      <3>5. QED
        BY <2>11, <3>4 DEF Plan, Shapes
    <2>12. CASE PlanFails(p)
      BY <2>12, <2>a, <2>b, AbandonShapes DEF PlanFails
    <2>13. CASE TargetDropped(p)
      <3>1. Tail(sweep[p].targets) \in Seq(Target)
        BY <2>13, TargetTyped DEF TargetDropped, AtTarget
      <3>2. sweep' \in [Proc -> Runs]
        <4>1. sweep \in [Proc -> Runs]
          BY DEF Shapes
        <4>2. [sweep[p] EXCEPT !.targets = Tail(@)] \in Runs
          BY <4>1, <3>1 DEF Runs
        <4>3. QED
          BY <2>13, <4>1, <4>2 DEF TargetDropped
      <3>3. faults' \in 0..MaxFaults
        BY <2>13, <2>a DEF TargetDropped
      <3>4. QED
        BY <2>13, <3>2, <3>3 DEF TargetDropped, Shapes
    <2>14. CASE TargetFetched(p)
      <3>1. /\ Tail(sweep[p].targets) \in Seq(Target)
            /\ TargetItems(p, Head(sweep[p].targets)) \in Seq(Items)
        BY <2>14, TargetTyped DEF TargetFetched, AtTarget
      <3>2. sweep' \in [Proc -> Runs] /\ items' \in [Proc -> Seq(Items)]
        BY <2>14, <3>1 DEF TargetFetched, Shapes, Runs
      <3>3. QED
        BY <2>14, <3>2 DEF TargetFetched, Shapes
    <2>15. CASE DiscoveryDone(p)
      <3>1. todo' \in [Proc -> Seq(Tasks)]
        BY <2>15, <2>c DEF DiscoveryDone, Doing
      <3>2. /\ store' \in [Doc -> Seq(Versions)]
            /\ draft' \in [Proc -> [Doc -> Seq(Versions) \cup {NoDraft}]]
            /\ sweep' \in [Proc -> Runs]
        BY <2>15, <2>d DEF DiscoveryDone
      <3>3. ran' \in [Proc -> BOOLEAN]
        BY <2>15 DEF DiscoveryDone, Shapes
      <3>4. UNCHANGED <<upstream, clock, items, found, batch, coming, noted, owed, faults>>
        BY <2>15 DEF DiscoveryDone
      <3>5. QED
        BY <3>1, <3>2, <3>3, <3>4 DEF Shapes
    <2>16. CASE EmbedBatch(p)
      <3>1. Pending \in SUBSET (Doc \X Nat)
        <4>1. \A d \in Doc : DOMAIN store[d] \subseteq Nat
          BY LenProperties DEF Shapes
        <4>2. Chunks \subseteq Doc \X Nat
          BY <4>1 DEF Chunks
        <4>3. QED
          BY <4>2 DEF Pending
      <3>2. batch' \in [Proc -> SUBSET (Doc \X Nat)]
        BY <2>16, <3>1 DEF EmbedBatch, Shapes
      <3>3. QED
        BY <2>16, <3>2 DEF EmbedBatch, Shapes
    <2>17. CASE BatchStored(p)
      <3>1. store' \in [Doc -> Seq(Versions)]
        BY <2>17, StoredShapes
      <3>2. batch' \in [Proc -> SUBSET (Doc \X Nat)]
        BY <2>17 DEF BatchStored, Shapes
      <3>3. QED
        BY <2>17, <3>1, <3>2 DEF BatchStored, Shapes
    <2>18. CASE EmbedAbandoned(p)
      <3>1. todo' \in [Proc -> Seq(Tasks)] /\ faults' \in 0..MaxFaults
        BY <2>18, <2>a, <2>c DEF EmbedAbandoned, Places, Place, Doing
      <3>2. batch' \in [Proc -> SUBSET (Doc \X Nat)]
        BY <2>18 DEF EmbedAbandoned, Shapes
      <3>3. QED
        BY <2>18, <3>1, <3>2 DEF EmbedAbandoned, Shapes
    <2>19. CASE EmbedDone(p)
      <3>1. todo' \in [Proc -> Seq(Tasks)]
        BY <2>19, <2>c DEF EmbedDone, Doing
      <3>2. QED
        BY <2>19, <3>1 DEF EmbedDone, Shapes
    <2>20. CASE Record(p)
      <3>1. todo' \in [Proc -> Seq(Tasks)]
        BY <2>20, <2>c DEF Record, Doing
      <3>2. clock' \in [Cadence -> {"due", "fresh"}]
        BY <2>20 DEF Record, Shapes
      <3>3. noted' \in [Cadence -> [Doc -> Nat]]
        <4>1. \A c : [d \in Doc |-> IF d \in DocsOf(c) THEN owed[p][d] ELSE 0] \in [Doc -> Nat]
          BY DEF Shapes
        <4>2. QED
          BY <2>20, <4>1 DEF Record, Shapes
      <3>4. ran' \in [Proc -> BOOLEAN]
        BY <2>20 DEF Record, Shapes
      <3>5. owed' \in [Proc -> [Doc -> Nat]]
        <4>1. owed' = owed \/ owed' = [owed EXCEPT ![p] = [d \in Doc |-> 0]]
          BY <2>20 DEF Record
        <4>2. [d \in Doc |-> 0] \in [Doc -> Nat]
          OBVIOUS
        <4>3. QED
          BY <4>1, <4>2 DEF Shapes
      <3>6. UNCHANGED <<upstream, store, draft, items, found, sweep, batch, coming, faults>>
        BY <2>20 DEF Record
      <3>7. QED
        BY <3>1, <3>2, <3>3, <3>4, <3>5, <3>6 DEF Shapes
    <2>21. CASE RecordTorn(p)
      BY <2>21, <2>a, AbandonShapes DEF RecordTorn
    <2>22. CASE Crash(p)
      BY <2>22, <2>a, <2>b, AbandonShapes DEF Crash
    <2>23. QED
      BY <1>4, <2>1, <2>2, <2>3, <2>4, <2>5, <2>6, <2>7, <2>8, <2>9, <2>10, <2>11, <2>12, <2>13,
         <2>14, <2>15, <2>16, <2>17, <2>18, <2>19, <2>20, <2>21, <2>22 DEF Step
  <1>5. QED
    BY <1>1, <1>2, <1>3, <1>4 DEF Next


\* A step of one process leaves what another has at hand.
LEMMA OthersUntouched ==
    ASSUME Shapes, NEW p \in Proc, Step(p) \/ Crash(p), NEW q \in Proc \ {p}
    PROVE  /\ coming' \subseteq coming
           /\ todo'[q] = todo[q] /\ draft'[q] = draft[q] /\ items'[q] = items[q]
           /\ found'[q] = found[q] /\ sweep'[q] = sweep[q] /\ batch'[q] = batch[q]
           /\ owed'[q] = owed[q]
  <1>a. /\ q \in DOMAIN todo /\ q \in DOMAIN draft /\ q \in DOMAIN items /\ q \in DOMAIN found
        /\ q \in DOMAIN sweep /\ q \in DOMAIN batch /\ q \in DOMAIN owed /\ q # p
    BY DEF Shapes
  <1>1. CASE TickBegins(p) \/ CommandBegins(p)
    BY <1>1, <1>a DEF TickBegins, CommandBegins
  <1>2. CASE ItemUnchanged(p) \/ ItemRead(p)
    BY <1>2, <1>a DEF ItemUnchanged, ItemRead
  <1>3. CASE ItemWritten(p)
    BY <1>3, <1>a DEF ItemWritten
  <1>4. CASE ItemRefused(p) \/ PlanFails(p) \/ RecordTorn(p) \/ Crash(p)
    <2>1. Abandon(p)
      BY <1>4 DEF ItemRefused, PlanFails, RecordTorn, Crash
    <2>2. QED
      BY <2>1, <1>a DEF Abandon
  <1>5. CASE Fetch(p)
    BY <1>5, <1>a DEF Fetch
  <1>6. CASE SourceDone(p) \/ DiscoveryDone(p)
    BY <1>6, <1>a DEF SourceDone, DiscoveryDone, NextTask
  <1>7. CASE FeedFails(p) \/ FeedFetched(p)
    BY <1>7, <1>a DEF FeedFails, FeedFetched, NextTask
  <1>8. CASE Plan(p)
    BY <1>8, <1>a DEF Plan
  <1>9. CASE TargetDropped(p) \/ TargetFetched(p)
    BY <1>9, <1>a DEF TargetDropped, TargetFetched
  <1>10. CASE EmbedBatch(p) \/ BatchStored(p)
    BY <1>10, <1>a DEF EmbedBatch, BatchStored
  <1>11. CASE EmbedAbandoned(p) \/ EmbedDone(p)
    BY <1>11, <1>a DEF EmbedAbandoned, EmbedDone, NextTask
  <1>12. CASE Record(p)
    BY <1>12, <1>a DEF Record, NextTask
  <1>13. QED
    BY <1>1, <1>2, <1>3, <1>4, <1>5, <1>6, <1>7, <1>8, <1>9, <1>10, <1>11, <1>12 DEF Step

LEMMA PlacesStep ==
    ASSUME Shapes, Places, [Next]_vars
    PROVE  Places'
  <1>1. CASE UNCHANGED vars
    BY <1>1 DEF Places, Place, Doing, vars, procs
  <1>2. ASSUME NEW d \in Doc, Publish(d) \/ Issue(d) \/ Withdraw(d)
        PROVE  Places'
    BY <1>2, WorldSteps DEF Places, Place, Doing, procs
  <1>3. ASSUME NEW c \in Cadence, Elapse(c)
        PROVE  Places'
    BY <1>3 DEF Places, Place, Doing, Elapse, procs
  <1>4. ASSUME NEW p \in Proc, Step(p) \/ Crash(p)
        PROVE  Places'
    <2>1. \A q \in Proc \ {p} : Place(q)'
      BY <1>4, OthersUntouched DEF Places, Place, Doing
    <2> SUFFICES Place(p)'
      BY <2>1 DEF Places
    <2>2. Place(p)
      BY DEF Places
    <2>a. /\ p \in DOMAIN todo /\ p \in DOMAIN draft /\ p \in DOMAIN items /\ p \in DOMAIN found
          /\ p \in DOMAIN sweep /\ p \in DOMAIN batch /\ sweep[p].stage \in Stages
      BY DEF Shapes, Runs
    <2>b. sweep[p] = [stage |-> sweep[p].stage, feed |-> sweep[p].feed, targets |-> sweep[p].targets]
      <3>1. sweep[p] \in Runs
        BY DEF Shapes
      <3>2. QED
        BY <3>1 DEF Runs
    <2>3. CASE TickBegins(p)
      <3>1. p \notin coming
        BY <2>3, CorpusAssumption DEF TickBegins, Shapes, Operator
      <3>2. ~Doing(p, "embed") /\ ~Doing(p, "sync") /\ ~Doing(p, "discover")
        BY <2>3 DEF TickBegins, Doing
      <3>3. UNCHANGED <<coming, batch, sweep, items, draft>>
        BY <2>3 DEF TickBegins
      <3>4. QED
        BY <2>2, <2>a, <3>1, <3>2, <3>3 DEF Place, Stages
    <2>4. CASE CommandBegins(p)
      <3>1. todo[p] = <<>> /\ p \notin coming'
        BY <2>2, <2>4 DEF CommandBegins, Place
      <3>2. ~Doing(p, "embed") /\ ~Doing(p, "sync") /\ ~Doing(p, "discover")
        BY <3>1 DEF Doing
      <3>3. UNCHANGED <<batch, sweep, items, draft>>
        BY <2>4 DEF CommandBegins
      <3>4. QED
        BY <2>2, <2>a, <3>1, <3>2, <3>3 DEF Place, Stages
    <2>5. CASE ItemUnchanged(p) \/ ItemRead(p) \/ ItemWritten(p)
      <3>1. items[p] # <<>>
        BY <2>5 DEF ItemUnchanged, ItemRead, ItemWritten, Ingesting
      <3>2. UNCHANGED <<coming, todo, batch, sweep>>
        BY <2>5 DEF ItemUnchanged, ItemRead, ItemWritten
      <3>3. QED
        BY <2>2, <2>a, <3>1, <3>2 DEF Place, Doing
    <2>6. CASE ItemRefused(p) \/ PlanFails(p) \/ RecordTorn(p) \/ Crash(p)
      <3>1. Abandon(p)
        BY <2>6 DEF ItemRefused, PlanFails, RecordTorn, Crash
      <3>2. /\ todo'[p] = <<>> /\ batch'[p] = {} /\ sweep'[p].stage = "none"
            /\ items'[p] = <<>> /\ \A d \in Doc : draft'[p][d] = NoDraft
        BY <2>a, <3>1 DEF Abandon, NoSweep
      <3>3. QED
        BY <3>2 DEF Place
    <2>7. CASE Fetch(p)
      <3>1. sweep'[p].stage = "ingesting"
        BY <2>7, <2>a, <2>b DEF Fetch
      <3>2. Doing(p, "sync") /\ UNCHANGED <<coming, todo, batch>>
        BY <2>7 DEF Fetch
      <3>3. QED
        BY <2>2, <3>1, <3>2 DEF Place, Doing
    <2>8. CASE SourceDone(p) \/ DiscoveryDone(p)
      <3>1. /\ sweep'[p].stage = "none" /\ items' = items /\ ~Ingesting(p)
            /\ \A d \in Doc : draft'[p][d] = NoDraft
        BY <2>8, <2>a DEF SourceDone, DiscoveryDone, NoSweep
      <3>2. ~Doing(p, "embed") /\ todo[p] # <<>> /\ UNCHANGED <<coming, batch>>
        BY <2>8 DEF SourceDone, DiscoveryDone, Doing
      <3>3. QED
        BY <2>2, <3>1, <3>2 DEF Place, Ingesting
    <2>9. CASE FeedFails(p)
      <3>1. /\ sweep[p].stage = "none" /\ UNCHANGED <<coming, batch, sweep, items, draft>>
            /\ todo[p] # <<>> /\ ~Doing(p, "embed")
        BY <2>9 DEF FeedFails, Doing
      <3>2. QED
        BY <2>2, <3>1 DEF Place
    <2>10. CASE FeedFetched(p)
      <3>1. sweep'[p].stage = "planning"
        BY <2>10, <2>a, <2>b DEF FeedFetched
      <3>2. Doing(p, "discover") /\ UNCHANGED <<coming, todo, batch>>
        BY <2>10 DEF FeedFetched
      <3>3. QED
        BY <2>2, <3>1, <3>2 DEF Place, Doing
    <2>11. CASE Plan(p)
      <3>1. sweep'[p].stage = "fetching"
        <4>1. \A tokens : \A proposals \in Proposed :
                 Selected(sweep[p], proposals, tokens).stage = "fetching"
          BY <2>b DEF Selected
        <4>2. [sweep[p] EXCEPT !.stage = "fetching"].stage = "fetching"
          BY <2>b
        <4>3. \/ sweep' = [sweep EXCEPT ![p].stage = "fetching"]
              \/ \E tokens : \E proposals \in Proposed :
                    sweep' = [sweep EXCEPT ![p] = Selected(sweep[p], proposals, tokens)]
          BY <2>11 DEF Plan
        <4>4. QED
          BY <2>a, <4>1, <4>2, <4>3
      <3>2. Doing(p, "discover") /\ UNCHANGED <<coming, todo, batch>>
        BY <2>11 DEF Plan
      <3>3. QED
        BY <2>2, <3>1, <3>2 DEF Place, Doing
    <2>12. CASE TargetDropped(p) \/ TargetFetched(p)
      <3>1. sweep'[p].stage = "fetching"
        BY <2>12, <2>a, <2>b DEF TargetDropped, TargetFetched, AtTarget
      <3>2. Doing(p, "discover") /\ UNCHANGED <<coming, todo, batch>>
        BY <2>12 DEF TargetDropped, TargetFetched, AtTarget
      <3>3. QED
        BY <2>2, <3>1, <3>2 DEF Place, Doing
    <2>13. CASE EmbedBatch(p)
      <3>1. Doing(p, "embed") /\ UNCHANGED <<coming, todo, sweep, items, draft>>
        BY <2>13 DEF EmbedBatch, Embedding
      <3>2. QED
        BY <2>2, <3>1 DEF Place, Doing
    <2>14. CASE BatchStored(p)
      <3>1. batch'[p] = {} /\ UNCHANGED <<coming, todo, sweep, items, draft>>
        BY <2>14, <2>a DEF BatchStored
      <3>2. QED
        BY <2>2, <3>1 DEF Place, Doing
    <2>15. CASE EmbedAbandoned(p) \/ EmbedDone(p)
      <3>1. Doing(p, "embed")
        BY <2>2, <2>15 DEF EmbedAbandoned, EmbedDone, Place
      <3>2. batch'[p] = {} /\ UNCHANGED <<coming, sweep, items, draft>>
        BY <2>15, <2>a DEF EmbedAbandoned, EmbedDone
      <3>3. sweep[p].stage = "none" /\ todo[p] # <<>>
        BY <2>2, <2>a, <3>1 DEF Place, Doing, Stages
      <3>4. QED
        BY <2>2, <3>2, <3>3 DEF Place
    <2>16. CASE Record(p)
      <3>1. Doing(p, "record") /\ UNCHANGED <<coming, batch, sweep, items, draft>>
        BY <2>16 DEF Record
      <3>2. sweep[p].stage = "none" /\ batch[p] = {} /\ todo[p] # <<>>
        BY <2>2, <2>a, <3>1 DEF Place, Doing, Stages
      <3>3. QED
        BY <2>2, <3>1, <3>2 DEF Place
    <2>17. QED
      BY <1>4, <2>3, <2>4, <2>5, <2>6, <2>7, <2>8, <2>9, <2>10, <2>11, <2>12, <2>13, <2>14, <2>15,
         <2>16 DEF Step
  <1>5. QED
    BY <1>1, <1>2, <1>3, <1>4 DEF Next


-----------------------------------------------------------------------------
\* Versions: the inductive invariant

\* The last version is in force, no other is, and each differs from the one before.
Sound(versions) ==
    /\ \A i \in 1..Len(versions) : /\ versions[i].current <=> i = Len(versions)
                                   /\ versions[i].live <=> versions[i].current
    /\ \A i \in 2..Len(versions) : versions[i].content # versions[i - 1].content

Extends(longer, shorter) ==
    /\ Len(shorter) <= Len(longer)
    /\ \A i \in 1..Len(shorter) : longer[i].content = shorter[i].content

\* What a process has read of an item's document still supersedes the last
\* version, unless a later one has been committed meanwhile.
Reading(p) ==
    found[p] # NoDoc =>
        LET versions == View(p, Item(p).doc) IN
        /\ Ingesting(p)
        /\ found[p] <= Len(versions)
        /\ found[p] = Len(versions) => ~Unchanged(versions, Item(p).content)

LawInv ==
    /\ \A d \in Doc : Sound(store[d])
    /\ \A p \in Proc, d \in Doc : draft[p][d] # NoDraft =>
          /\ Sound(draft[p][d])
          /\ Extends(draft[p][d], store[d]) /\ Len(store[d]) < Len(draft[p][d])
    /\ \A p, q \in Proc, d \in Doc : draft[p][d] # NoDraft /\ draft[q][d] # NoDraft => p = q
    /\ \A p \in Proc : Reading(p)

LEMMA LawInit == Init => LawInv
  BY DEF Init, LawInv, Sound, Reading

\* Whatever is there is a sequence.
LEMMA VersionsTyped ==
    ASSUME Shapes
    PROVE  /\ \A d \in Doc : store[d] \in Seq(Versions) /\ Len(store[d]) \in Nat
           /\ \A p \in Proc, d \in Doc : draft[p][d] # NoDraft =>
                 draft[p][d] \in Seq(Versions) /\ Len(draft[p][d]) \in Nat
           /\ \A p \in Proc : found[p] # NoDoc => found[p] \in Nat
  <1>1. \A p \in Proc, d \in Doc : draft[p][d] \in Seq(Versions) \cup {NoDraft}
    BY DEF Shapes
  <1>2. \A d \in Doc : store[d] \in Seq(Versions)
    BY DEF Shapes
  <1>3. \A p \in Proc : found[p] \in Nat \cup {NoDoc}
    BY DEF Shapes
  <1>4. QED
    BY <1>1, <1>2, <1>3, LenProperties

LEMMA ViewSound ==
    ASSUME Shapes, LawInv, NEW p \in Proc, NEW d \in Doc
    PROVE  /\ Sound(View(p, d))
           /\ Extends(View(p, d), store[d])
           /\ draft[p][d] = NoDraft => View(p, d) = store[d]
           /\ draft[p][d] # NoDraft => Len(store[d]) < Len(View(p, d))
  BY VersionsTyped DEF LawInv, View, Extends

\* Neither the rows nor the drafts change, and a new item is not yet looked up.
LEMMA LawFrame ==
    ASSUME LawInv, UNCHANGED <<store, draft, found>>,
           \A p \in Proc : found[p] # NoDoc => items'[p] = items[p]
    PROVE  LawInv'
  <1>1. \A p \in Proc : Reading(p)'
    BY DEF LawInv, Reading, View, Item, Ingesting
  <1>2. QED
    BY <1>1 DEF LawInv

\* p's draft is dropped.
LEMMA LawAbandoned ==
    ASSUME Shapes, LawInv, NEW p \in Proc, Abandon(p),
           \A q \in Proc \ {p} : /\ draft'[q] = draft[q] /\ items'[q] = items[q]
                                 /\ found'[q] = found[q]
    PROVE  LawInv'
  <1>1. store' = store /\ found'[p] = NoDoc /\ \A d \in Doc : draft'[p][d] = NoDraft
    BY DEF Abandon, Shapes
  <1>2. \A q \in Proc : Reading(q)'
    BY <1>1 DEF LawInv, Reading, View, Item, Ingesting
  <1>3. \A q, r \in Proc, d \in Doc : draft'[q][d] # NoDraft /\ draft'[r][d] # NoDraft => q = r
    BY <1>1 DEF LawInv
  <1>4. \A q \in Proc, d \in Doc : draft'[q][d] # NoDraft => draft'[q][d] = draft[q][d]
    BY <1>1
  <1>5. QED
    BY <1>1, <1>2, <1>3, <1>4 DEF LawInv

\* What was found is superseded by the item: the draft is longer and sound.
LEMMA LawWritten ==
    ASSUME Shapes, LawInv, NEW p \in Proc, ItemWritten(p)
    PROVE  LawInv'
  <1> DEFINE d == Item(p).doc
             old == View(p, d)
             new == Superseded(old, found[p], Item(p).content)
  <1>1. /\ found[p] # NoDoc /\ ~Held(p) /\ Len(old) = found[p]
        /\ draft' = [draft EXCEPT ![p][d] = new]
        /\ found' = [found EXCEPT ![p] = NoDoc]
        /\ items' = [items EXCEPT ![p] = Tail(@)]
        /\ store' = store
    BY DEF ItemWritten, LabelTaken
  <1>2. d \in Doc /\ Item(p).content \in Nat
    BY ItemTyped DEF ItemWritten
  <1>3. old \in Seq(Versions) /\ Len(old) \in Nat
    BY <1>2, ViewTyped
  <1>4. old # <<>> => Last(old).content # Item(p).content
    BY <1>1 DEF LawInv, Reading, Unchanged
  <1>5. Sound(old) /\ Extends(old, store[d])
    BY <1>2, ViewSound
  <1>6. Len(store[d]) \in Nat
    BY <1>2, VersionsTyped
  <1>7. /\ new \in Seq(Versions) /\ Len(new) = Len(old) + 1
        /\ \A i \in 1..Len(old) : new[i] = IF i = found[p] THEN Retired(old[i]) ELSE old[i]
        /\ new[Len(old) + 1] = Version(Item(p).content)
    BY <1>2, <1>3, SupersededTyped
  <1> HIDE DEF new, old
  <1>8. \A i \in 1..Len(old) : /\ new[i].content = old[i].content
                               /\ ~new[i].current /\ ~new[i].live
    <2> TAKE i \in 1..Len(old)
    <2>1. old[i] \in Versions
      BY <1>3, ElementOfSeq
    <2>2. CASE i = Len(old)
      <3>1. new[i] = Retired(old[i])
        BY <1>1, <1>7, <2>2
      <3>2. QED
        BY <2>1, <3>1 DEF Retired, Versions
    <2>3. CASE i # Len(old)
      <3>1. new[i] = old[i]
        BY <1>1, <1>7, <2>3
      <3>2. ~old[i].current /\ ~old[i].live
        BY <1>5, <2>3 DEF Sound
      <3>3. QED
        BY <3>1, <3>2
    <2>4. QED
      BY <2>2, <2>3
  <1>9. Sound(new)
    <2>1. \A i \in 1..Len(new) : /\ new[i].current <=> i = Len(new)
                                 /\ new[i].live <=> new[i].current
      <3>1. new[Len(new)].current /\ new[Len(new)].live
        BY <1>7 DEF Version
      <3>2. \A i \in 1..Len(new) : i = Len(new) \/ i \in 1..Len(old)
        BY <1>3, <1>7
      <3>3. \A i \in 1..Len(old) : i # Len(new)
        BY <1>3, <1>7
      <3>4. QED
        BY <1>8, <3>1, <3>2, <3>3
    <2>2. ASSUME NEW i \in 2..Len(new)
          PROVE  new[i].content # new[i - 1].content
      <3>1. i - 1 \in 1..Len(old)
        BY <1>3, <1>7
      <3>2. CASE i = Len(new)
        <4>1. i - 1 = Len(old) /\ old # <<>>
          BY <1>3, <1>7, <3>1, <3>2
        <4>2. Last(old) = old[i - 1]
          BY <4>1 DEF Last
        <4>3. new[i].content = Item(p).content
          BY <1>7, <3>2 DEF Version
        <4>4. QED
          BY <1>4, <1>8, <3>1, <4>1, <4>2, <4>3
      <3>3. CASE i # Len(new)
        <4>1. i \in 2..Len(old) /\ i \in 1..Len(old)
          BY <1>3, <1>7, <3>3
        <4>2. old[i].content # old[i - 1].content
          BY <1>5, <4>1 DEF Sound
        <4>3. QED
          BY <1>8, <3>1, <4>1, <4>2
      <3>4. QED
        BY <3>2, <3>3
    <2>3. QED
      BY <2>1, <2>2 DEF Sound
  <1>10. Extends(new, store[d]) /\ Len(store[d]) < Len(new)
    <2>1. Len(store[d]) <= Len(old)
      BY <1>5 DEF Extends
    <2>2. \A i \in 1..Len(store[d]) : i \in 1..Len(old)
      BY <1>3, <1>6, <2>1
    <2>3. QED
      BY <1>3, <1>5, <1>6, <1>7, <1>8, <2>1, <2>2 DEF Extends
  <1> HIDE DEF d
  <1>11. /\ draft'[p][d] = new
         /\ \A e \in Doc \ {d} : draft'[p][e] = draft[p][e]
         /\ \A q \in Proc \ {p} : draft'[q] = draft[q]
    BY <1>1, <1>2 DEF Shapes
  <1>12. \A q \in Proc, e \in Doc : draft'[q][e] # NoDraft =>
            /\ Sound(draft'[q][e])
            /\ Extends(draft'[q][e], store[e]) /\ Len(store[e]) < Len(draft'[q][e])
    BY <1>9, <1>10, <1>11 DEF LawInv
  <1>13. \A q, r \in Proc, e \in Doc : draft'[q][e] # NoDraft /\ draft'[r][e] # NoDraft => q = r
    <2>1. \A q \in Proc \ {p} : draft[q][d] = NoDraft
      BY <1>1 DEF Held, d
    <2>2. QED
      BY <1>11, <2>1 DEF LawInv
  <1>14. \A q \in Proc : Reading(q)'
    <2>1. found'[p] = NoDoc
      BY <1>1 DEF Shapes
    <2>2. \A q \in Proc \ {p} : /\ found'[q] = found[q] /\ items'[q] = items[q]
                                /\ draft'[q] = draft[q]
      BY <1>1, <1>11 DEF Shapes
    <2>3. QED
      BY <1>1, <2>1, <2>2 DEF LawInv, Reading, View, Item, Ingesting
  <1>15. QED
    BY <1>1, <1>12, <1>13, <1>14 DEF LawInv


\* p's draft becomes the committed rows.
LEMMA LawCommitted ==
    ASSUME Shapes, LawInv, NEW p \in Proc, store' = Committed(p),
           draft' = [draft EXCEPT ![p] = [d \in Doc |-> NoDraft]],
           UNCHANGED <<items, found>>, ~Ingesting(p)
    PROVE  /\ LawInv'
           /\ \A d \in Doc : Extends(store'[d], store[d])
  <1>1. \A d \in Doc : store'[d] = View(p, d)
    BY DEF Committed
  <1>2. /\ \A d \in Doc : draft'[p][d] = NoDraft
        /\ \A q \in Proc \ {p} : draft'[q] = draft[q]
    BY DEF Shapes
  <1>3. \A d \in Doc : /\ Sound(store'[d]) /\ Extends(store'[d], store[d])
                       /\ draft[p][d] = NoDraft => store'[d] = store[d]
                       /\ draft[p][d] # NoDraft => Len(store[d]) < Len(store'[d])
    BY <1>1, ViewSound
  <1>4. \A q \in Proc, d \in Doc : draft'[q][d] # NoDraft =>
           /\ q # p /\ draft[q][d] # NoDraft /\ draft'[q][d] = draft[q][d]
           /\ store'[d] = store[d]
    <2> TAKE q \in Proc, d \in Doc
    <2> HAVE draft'[q][d] # NoDraft
    <2>1. q # p /\ draft'[q][d] = draft[q][d]
      BY <1>2
    <2>2. draft[p][d] = NoDraft
      BY <2>1 DEF LawInv
    <2>3. QED
      BY <1>3, <2>1, <2>2
  <1>5. \A q \in Proc, d \in Doc : draft'[q][d] # NoDraft =>
           /\ Sound(draft'[q][d])
           /\ Extends(draft'[q][d], store'[d]) /\ Len(store'[d]) < Len(draft'[q][d])
    BY <1>4 DEF LawInv
  <1>6. \A q, r \in Proc, d \in Doc : draft'[q][d] # NoDraft /\ draft'[r][d] # NoDraft => q = r
    BY <1>4 DEF LawInv
  <1>7. ASSUME NEW q \in Proc
        PROVE  Reading(q)'
    <2> SUFFICES ASSUME found[q] # NoDoc
                 PROVE  LET versions == View(q, Item(q).doc)' IN
                        /\ Ingesting(q)'
                        /\ found[q] <= Len(versions)
                        /\ found[q] = Len(versions) => ~Unchanged(versions, Item(q).content)
      BY DEF Reading, Item
    <2> DEFINE d == Item(q).doc
    <2>1. /\ Ingesting(q) /\ found[q] <= Len(View(q, d)) /\ found[q] \in Nat
          /\ found[q] = Len(View(q, d)) => ~Unchanged(View(q, d), Item(q).content)
      BY VersionsTyped DEF LawInv, Reading
    <2>2. q # p /\ draft'[q] = draft[q] /\ d \in Doc
      BY <1>2, <2>1, ItemTyped
    <2>3. CASE View(q, d)' = View(q, d)
      BY <2>1, <2>3 DEF Ingesting, Item
    <2>4. CASE View(q, d)' # View(q, d)
      <3>1. draft[q][d] = NoDraft /\ View(q, d) = store[d] /\ View(q, d)' = store'[d]
            /\ store'[d] # store[d]
        BY <2>2, <2>4 DEF View, Item
      <3>2. Len(store[d]) < Len(store'[d])
        BY <1>3, <2>2, <3>1
      <3>3. Len(store[d]) \in Nat /\ Len(store'[d]) \in Nat
        BY <1>1, <2>2, VersionsTyped, ViewTyped
      <3>4. found[q] < Len(View(q, d)')
        BY <2>1, <3>1, <3>2, <3>3
      <3>5. QED
        BY <2>1, <3>1, <3>3, <3>4 DEF Ingesting, Item
    <2>5. QED
      BY <2>3, <2>4
  <1>8. QED
    BY <1>3, <1>5, <1>6, <1>7 DEF LawInv

\* Vectors are stored: nothing else of a version changes.
LEMMA LawStored ==
    ASSUME Shapes, LawInv, NEW p \in Proc, BatchStored(p)
    PROVE  /\ LawInv'
           /\ \A d \in Doc : Extends(store'[d], store[d])
  <1>1. \A d \in Doc : /\ Len(store'[d]) = Len(store[d])
                       /\ Len(store[d]) \in Nat
                       /\ \A i \in 1..Len(store[d]) :
                             /\ store'[d][i].content = store[d][i].content
                             /\ store'[d][i].current = store[d][i].current
                             /\ store'[d][i].live = store[d][i].live
    BY StoredShapes, VersionsTyped
  <1>2. UNCHANGED <<draft, items, found>>
    BY DEF BatchStored
  <1>3. \A d \in Doc : Sound(store'[d])
    <2> TAKE d \in Doc
    <2> DEFINE old == store[d]
               new == store'[d]
    <2>1. Sound(old)
      BY DEF LawInv
    <2>2. /\ Len(new) = Len(old) /\ Len(old) \in Nat
          /\ \A i \in 1..Len(old) : /\ new[i].content = old[i].content
                                     /\ new[i].current = old[i].current
                                     /\ new[i].live = old[i].live
      BY <1>1
    <2> HIDE DEF old, new
    <2>3. \A i \in 1..Len(new) : /\ new[i].current <=> i = Len(new)
                                 /\ new[i].live <=> new[i].current
      BY <2>1, <2>2 DEF Sound
    <2>4. \A i \in 2..Len(old) : i \in 1..Len(old) /\ i - 1 \in 1..Len(old)
      BY <2>2
    <2>5. \A i \in 2..Len(new) : new[i].content # new[i - 1].content
      BY <2>1, <2>2, <2>4 DEF Sound
    <2>6. Sound(new)
      BY <2>3, <2>5 DEF Sound
    <2>7. QED
      BY <2>6 DEF new
  <1>4. \A q \in Proc, d \in Doc : draft'[q][d] # NoDraft =>
           /\ Sound(draft'[q][d])
           /\ Extends(draft'[q][d], store'[d]) /\ Len(store'[d]) < Len(draft'[q][d])
    BY <1>1, <1>2 DEF LawInv, Extends
  <1>5. \A q, r \in Proc, d \in Doc : draft'[q][d] # NoDraft /\ draft'[r][d] # NoDraft => q = r
    BY <1>2 DEF LawInv
  <1>6. ASSUME NEW q \in Proc
        PROVE  Reading(q)'
    <2> SUFFICES ASSUME found[q] # NoDoc
                 PROVE  LET versions == View(q, Item(q).doc)' IN
                        /\ Ingesting(q)'
                        /\ found[q] <= Len(versions)
                        /\ found[q] = Len(versions) => ~Unchanged(versions, Item(q).content)
      BY <1>2 DEF Reading, Item
    <2> DEFINE d == Item(q).doc
    <2>1. /\ Ingesting(q) /\ found[q] <= Len(View(q, d))
          /\ found[q] = Len(View(q, d)) => ~Unchanged(View(q, d), Item(q).content)
      BY DEF LawInv, Reading
    <2>2. d \in Doc
      BY <2>1, ItemTyped
    <2>3. CASE draft[q][d] # NoDraft
      <3>1. View(q, d)' = View(q, d)
        BY <1>2, <2>3 DEF View, Item
      <3>2. QED
        BY <1>2, <2>1, <3>1 DEF Ingesting, Item
    <2>4. CASE draft[q][d] = NoDraft
      <3>1. View(q, d) = store[d] /\ View(q, d)' = store'[d]
        BY <1>2, <2>4 DEF View, Item
      <3>2. Unchanged(store'[d], Item(q).content) => Unchanged(store[d], Item(q).content)
        <4>1. store[d] \in Seq(Versions) /\ store'[d] \in Seq(Versions)
          BY <2>2, StoredShapes, VersionsTyped
        <4>2. Len(store'[d]) = Len(store[d]) /\ (store'[d] # <<>> => store[d] # <<>>)
          BY <1>1, <2>2, <4>1, EmptySeq
        <4>3. store[d] # <<>> => Last(store'[d]).content = Last(store[d]).content
          <5>1. store[d] # <<>> => Len(store[d]) \in 1..Len(store[d])
            BY <4>1
          <5>2. QED
            BY <1>1, <2>2, <5>1 DEF Last
        <4>4. QED
          BY <4>2, <4>3 DEF Unchanged
      <3>3. Len(store'[d]) = Len(store[d])
        BY <1>1, <2>2
      <3>4. QED
        BY <1>2, <2>1, <3>1, <3>2, <3>3 DEF Ingesting, Item
    <2>5. QED
      BY <2>3, <2>4
  <1>7. \A d \in Doc : Extends(store'[d], store[d])
    BY <1>1 DEF Extends
  <1>8. QED
    BY <1>3, <1>4, <1>5, <1>6, <1>7 DEF LawInv

LEMMA ExtendsSelf ==
    ASSUME Shapes, UNCHANGED store
    PROVE  \A d \in Doc : Extends(store'[d], store[d])
  BY VersionsTyped DEF Extends

LEMMA LawStep ==
    ASSUME Shapes, Places, LawInv, [Next]_vars
    PROVE  /\ LawInv'
           /\ \A d \in Doc : Extends(store'[d], store[d])
  <1>1. CASE UNCHANGED vars
    <2>1. UNCHANGED <<store, draft, found, items>>
      BY <1>1 DEF vars, procs
    <2>2. QED
      BY <2>1, LawFrame, ExtendsSelf
  <1>2. ASSUME NEW d \in Doc, Publish(d) \/ Issue(d) \/ Withdraw(d)
        PROVE  /\ LawInv'
               /\ \A e \in Doc : Extends(store'[e], store[e])
    <2>1. UNCHANGED <<store, draft, found, items>>
      BY <1>2 DEF Publish, Issue, Withdraw, procs
    <2>2. QED
      BY <2>1, LawFrame, ExtendsSelf
  <1>3. ASSUME NEW c \in Cadence, Elapse(c)
        PROVE  /\ LawInv'
               /\ \A e \in Doc : Extends(store'[e], store[e])
    <2>1. UNCHANGED <<store, draft, found, items>>
      BY <1>3 DEF Elapse, procs
    <2>2. QED
      BY <2>1, LawFrame, ExtendsSelf
  <1>4. ASSUME NEW p \in Proc, Step(p) \/ Crash(p)
        PROVE  /\ LawInv'
               /\ \A d \in Doc : Extends(store'[d], store[d])
    <2>1. CASE TickBegins(p) \/ CommandBegins(p) \/ FeedFails(p) \/ FeedFetched(p) \/ Plan(p)
                  \/ TargetDropped(p) \/ EmbedBatch(p) \/ EmbedAbandoned(p) \/ EmbedDone(p)
                  \/ Record(p)
      <3>1. UNCHANGED <<store, draft, found, items>>
        BY <2>1 DEF TickBegins, CommandBegins, FeedFails, FeedFetched, Plan, TargetDropped,
           EmbedBatch, EmbedAbandoned, EmbedDone, Record
      <3>2. QED
        BY <3>1, LawFrame, ExtendsSelf
    <2>2. CASE ItemUnchanged(p) \/ Fetch(p) \/ TargetFetched(p)
      <3>1. UNCHANGED <<store, draft, found>>
        BY <2>2 DEF ItemUnchanged, Fetch, TargetFetched
      <3>2. found[p] = NoDoc
        <4>1. CASE ItemUnchanged(p)
          BY <4>1 DEF ItemUnchanged
        <4>2. CASE Fetch(p) \/ TargetFetched(p)
          <5>1. ~Ingesting(p)
            BY <4>2 DEF Fetch, Unfetched, TargetFetched, AtTarget, Ingesting
          <5>2. QED
            BY <5>1 DEF LawInv, Reading
        <4>3. QED
          BY <2>2, <4>1, <4>2
      <3>3. \A q \in Proc : found[q] # NoDoc => items'[q] = items[q]
        BY <1>4, <3>2, OthersUntouched
      <3>4. QED
        BY <3>1, <3>3, LawFrame, ExtendsSelf
    <2>3. CASE ItemRead(p)
      <3>1. UNCHANGED <<store, draft, items>>
        BY <2>3 DEF ItemRead
      <3>2. found'[p] = Len(View(p, Item(p).doc)) /\ \A q \in Proc \ {p} : found'[q] = found[q]
        BY <2>3 DEF ItemRead, Shapes
      <3>3. Len(View(p, Item(p).doc)) \in Nat
        BY <2>3, ItemTyped, ViewTyped DEF ItemRead
      <3>4. Reading(p)'
        BY <2>3, <3>1, <3>2, <3>3 DEF ItemRead, Reading, View, Item, Ingesting
      <3>5. \A q \in Proc \ {p} : Reading(q)'
        BY <3>1, <3>2 DEF LawInv, Reading, View, Item, Ingesting
      <3>6. LawInv'
        BY <3>1, <3>4, <3>5 DEF LawInv
      <3>7. QED
        BY <3>1, <3>6, ExtendsSelf
    <2>4. CASE ItemWritten(p)
      <3>1. UNCHANGED store
        BY <2>4 DEF ItemWritten
      <3>2. QED
        BY <2>4, <3>1, LawWritten, ExtendsSelf
    <2>5. CASE ItemRefused(p) \/ PlanFails(p) \/ RecordTorn(p) \/ Crash(p)
      <3>1. Abandon(p)
        BY <2>5 DEF ItemRefused, PlanFails, RecordTorn, Crash
      <3>2. UNCHANGED store
        BY <3>1 DEF Abandon
      <3>3. QED
        BY <1>4, <3>1, <3>2, OthersUntouched, LawAbandoned, ExtendsSelf
    <2>6. CASE SourceDone(p) \/ DiscoveryDone(p)
      <3>1. /\ store' = Committed(p) /\ draft' = [draft EXCEPT ![p] = [d \in Doc |-> NoDraft]]
            /\ UNCHANGED <<items, found>> /\ ~Ingesting(p)
        BY <2>6 DEF SourceDone, DiscoveryDone
      <3>2. QED
        BY <3>1, LawCommitted
    <2>7. CASE BatchStored(p)
      BY <2>7, LawStored
    <2>8. QED
      BY <1>4, <2>1, <2>2, <2>3, <2>4, <2>5, <2>6, <2>7 DEF Step
  <1>5. QED
    BY <1>1, <1>2, <1>3, <1>4 DEF Next


-----------------------------------------------------------------------------
\* The refinement

\* The contents of a document's versions.
Contents(versions) == [i \in DOMAIN versions |-> versions[i].content]

LEMMA ContentsTyped ==
    ASSUME NEW versions \in Seq(Versions)
    PROVE  /\ Contents(versions) \in Seq(Nat)
           /\ Len(Contents(versions)) = Len(versions) /\ Len(versions) \in Nat
           /\ \A i \in 1..Len(versions) : Contents(versions)[i] = versions[i].content
  <1>1. DOMAIN versions = 1..Len(versions) /\ Len(versions) \in Nat
    BY LenProperties
  <1>2. \A i \in 1..Len(versions) : versions[i].content \in Nat
    <2>1. \A i \in 1..Len(versions) : versions[i] \in Versions
      BY ElementOfSeq
    <2>2. QED
      BY <2>1 DEF Versions
  <1>3. Contents(versions) = [i \in 1..Len(versions) |-> versions[i].content]
    BY <1>1 DEF Contents
  <1>4. QED
    BY <1>1, <1>2, <1>3

LEMMA ExtensionAmends ==
    ASSUME NEW shorter \in Seq(Versions), NEW longer \in Seq(Versions),
           Extends(longer, shorter), Sound(longer)
    PROVE  /\ Corpus!IsPrefix(Contents(shorter), Contents(longer))
           /\ Corpus!Progressive(Contents(longer))
  <1> DEFINE s == Contents(shorter)
             t == Contents(longer)
  <1>1. /\ s \in Seq(Nat) /\ Len(s) = Len(shorter) /\ Len(s) \in Nat
        /\ \A i \in 1..Len(s) : s[i] = shorter[i].content
        /\ t \in Seq(Nat) /\ Len(t) = Len(longer) /\ Len(t) \in Nat
        /\ \A i \in 1..Len(t) : t[i] = longer[i].content
    BY ContentsTyped
  <1> HIDE DEF s, t
  <1>2. Len(s) <= Len(t) /\ \A i \in 1..Len(s) : t[i] = s[i]
    BY <1>1 DEF Extends
  <1>3. \A i \in 1..Len(s) : s[i] \in Nat /\ t[i] \in Nat
    BY <1>1, <1>2, ElementOfSeq
  <1>4. /\ SubSeq(s, 1, Len(s)) \in Seq(Nat) /\ Len(SubSeq(s, 1, Len(s))) = Len(s)
        /\ SubSeq(t, 1, Len(s)) \in Seq(Nat) /\ Len(SubSeq(t, 1, Len(s))) = Len(s)
        /\ \A i \in 1..Len(s) : /\ SubSeq(s, 1, Len(s))[i] = s[i]
                                /\ SubSeq(t, 1, Len(s))[i] = t[i]
    BY <1>1, <1>3, SubSeqProperties
  <1>5. SubSeq(s, 1, Len(s)) = SubSeq(t, 1, Len(s))
    BY <1>2, <1>4, SeqEqual
  <1>6. Corpus!IsPrefix(s, t)
    BY <1>2, <1>5 DEF Corpus!IsPrefix
  <1>7. ASSUME NEW i \in 2..Len(t)
        PROVE  t[i] # t[i - 1]
    <2>1. i \in 1..Len(t) /\ i - 1 \in 1..Len(t)
      BY <1>1
    <2>2. longer[i].content # longer[i - 1].content
      BY <1>1 DEF Sound
    <2>3. QED
      BY <1>1, <2>1, <2>2
  <1>8. Corpus!Progressive(t)
    BY <1>7 DEF Corpus!Progressive
  <1>9. QED
    BY <1>6, <1>8 DEF s, t

CorpusInv == Shapes /\ Places /\ LawInv

LEMMA CorpusInductive == Spec => []CorpusInv
  <1>1. Init => CorpusInv
    <2> SUFFICES ASSUME Init PROVE CorpusInv
      OBVIOUS
    <2>1. Places
      BY DEF Init, Places, Place, Doing, NoSweep
    <2>2. QED
      BY <2>1, ShapesInit, LawInit DEF CorpusInv
  <1>2. CorpusInv /\ [Next]_vars => CorpusInv'
    BY ShapesStep, PlacesStep, LawStep DEF CorpusInv
  <1>3. QED
    BY <1>1, <1>2, PTL DEF Spec

\* LawIsVersioned: whatever sources publish and however the scheduler, commands
\* and crashes interleave, the versions of a document are only added to, each
\* different from the one it supersedes (ingest_corpus_item).
THEOREM LawVersioned == Spec => LawIsVersioned
  <1>1. Init => Corpus!Init
    <2> SUFFICES ASSUME Init PROVE Corpus!Init
      OBVIOUS
    <2>1. store = [d \in Doc |-> <<>>]
      BY DEF Init
    <2>2. \A d \in Doc : [i \in DOMAIN store[d] |-> store[d][i].content] = <<>>
      BY <2>1
    <2>3. QED
      BY <2>2 DEF Corpus!Init
  <1>2. ASSUME CorpusInv, CorpusInv', [Next]_vars
        PROVE  Corpus!Amend
    <2>1. \A d \in Doc : /\ store[d] \in Seq(Versions) /\ store'[d] \in Seq(Versions)
                         /\ Extends(store'[d], store[d]) /\ Sound(store'[d])
      BY <1>2, LawStep, VersionsTyped DEF CorpusInv, LawInv, Shapes
    <2>2. \A d \in Doc : /\ Corpus!IsPrefix(Contents(store[d]), Contents(store'[d]))
                         /\ Corpus!Progressive(Contents(store'[d]))
      BY <2>1, ExtensionAmends
    <2> DEFINE law == [d \in Doc |-> Contents(store[d])]
    <2>3. law' = [d \in Doc |-> Contents(store'[d])]
      BY DEF Contents
    <2>4. DOMAIN law' = Doc
      BY <2>3
    <2>5. \A d \in Doc : Corpus!IsPrefix(law[d], law'[d]) /\ Corpus!Progressive(law'[d])
      BY <2>2, <2>3
    <2>6. QED
      BY <2>4, <2>5 DEF Corpus!Amend, Contents
  <1>3. QED
    BY <1>1, <1>2, CorpusInductive, PTL DEF Spec, LawIsVersioned, Corpus!Spec

\* OneCurrent: one version of a document is in force, its last, and only its
\* chunks are in the current law.
THEOREM LawInForce == Spec => []OneCurrent
  <1>1. CorpusInv => OneCurrent
    <2> SUFFICES ASSUME CorpusInv PROVE OneCurrent
      OBVIOUS
    <2>1. \A d \in Doc : DOMAIN store[d] = 1..Len(store[d]) /\ Sound(store[d])
      BY VersionsTyped, LenProperties DEF CorpusInv, LawInv
    <2>2. QED
      BY <2>1 DEF OneCurrent, Sound
  <1>2. QED
    BY <1>1, CorpusInductive, PTL


-----------------------------------------------------------------------------
\* Clocks: the inductive invariant

\* The corpus, as p sees it, has a text of the document at least that recent.
Has(p, d, text) == \E i \in DOMAIN View(p, d) : View(p, d)[i].content >= text

\* The text p owes of a document is still to be fetched, is among its items or
\* is in.
Promised(p, d) ==
    \/ SweptAfter(todo[p], IF sweep[p].stage = "ingesting" THEN 1 ELSE 0, d)
    \/ \E i \in DOMAIN items[p] : items[p][i].doc = d /\ items[p][i].content >= owed[p][d]
    \/ Has(p, d, owed[p][d])

Debt(p) ==
    /\ RecordsLast(todo[p])
    /\ \A d \in Doc : owed[p][d] <= upstream[d]
    /\ \A c \in Cadence : ToRecord(todo[p], c) =>
          \A d \in DocsOf(c) : owed[p][d] > 0 => Promised(p, d)

EarnInv == ClockIsEarned /\ \A p \in Proc : Debt(p)

LEMMA DocsTyped == \A c \in Cadence : DocsOf(c) \subseteq Doc
  <1> SUFFICES ASSUME NEW c \in Cadence, NEW a \in Range(Sources(c))
               PROVE  Range(a.docs) \subseteq Doc
    BY DEF DocsOf
  <1>1. Sources(c) \in Seq(Sourced)
    BY SourcesTyped
  <1>2. a \in Sourced
    BY <1>1, RangeOfSeq
  <1>3. a.docs \in Seq(Doc)
    BY <1>2 DEF Sourced
  <1>4. QED
    BY <1>3, RangeOfSeq

LEMMA EarnInit == Init => EarnInv
  <1> SUFFICES ASSUME Init PROVE EarnInv
    OBVIOUS
  <1>1. ClockIsEarned
    BY DocsTyped DEF Init, ClockIsEarned
  <1>2. \A p \in Proc : Debt(p)
    BY DEF Init, Debt, RecordsLast, ToRecord
  <1>3. QED
    BY <1>1, <1>2 DEF EarnInv

\* What has been ingested stays, whoever commits.
LEMMA HasStays ==
    ASSUME Shapes, Shapes', NEW p \in Proc, NEW d \in Doc, NEW text \in Nat, Has(p, d, text),
           \/ draft'[p] = draft[p] /\ Extends(store'[d], store[d])
           \/ Extends(View(p, d)', View(p, d))
    PROVE  Has(p, d, text)'
  <1>1. /\ DOMAIN View(p, d) = 1..Len(View(p, d)) /\ Len(View(p, d)) \in Nat
        /\ DOMAIN View(p, d)' = 1..Len(View(p, d)') /\ Len(View(p, d)') \in Nat
    <2>1. View(p, d)' \in Seq(Versions)
      BY DEF Shapes, View
    <2>2. QED
      BY <2>1, ViewTyped, LenProperties
  <1>2. CASE Extends(View(p, d)', View(p, d))
    BY <1>1, <1>2 DEF Has, Extends
  <1>3. CASE draft'[p] = draft[p] /\ Extends(store'[d], store[d])
    <2>1. View(p, d)' = View(p, d) \/ Extends(View(p, d)', View(p, d))
      BY <1>3 DEF View
    <2>2. QED
      BY <1>2, <2>1 DEF Has
  <1>4. QED
    BY <1>2, <1>3

\* A recorded text is not lost.
LEMMA EarnedStays ==
    ASSUME Shapes, Shapes', ClockIsEarned, noted' = noted,
           \A d \in Doc : Extends(store'[d], store[d])
    PROVE  ClockIsEarned'
  <1> SUFFICES ASSUME NEW c \in Cadence, NEW d \in DocsOf(c), noted[c][d] > 0
               PROVE  \E i \in DOMAIN store'[d] : store'[d][i].content >= noted[c][d]
    BY DEF ClockIsEarned
  <1>1. d \in Doc
    BY DocsTyped
  <1>2. PICK i \in DOMAIN store[d] : store[d][i].content >= noted[c][d]
    BY DEF ClockIsEarned
  <1>3. /\ DOMAIN store[d] = 1..Len(store[d]) /\ Len(store[d]) \in Nat
        /\ DOMAIN store'[d] = 1..Len(store'[d]) /\ Len(store'[d]) \in Nat
    BY <1>1, LenProperties DEF Shapes
  <1>4. QED
    BY <1>1, <1>2, <1>3 DEF Extends

\* A debt does not depend on what other processes do.
LEMMA DebtFrame ==
    ASSUME Shapes, Shapes', NEW p \in Proc, Debt(p),
           todo'[p] = todo[p], draft'[p] = draft[p], items'[p] = items[p], owed'[p] = owed[p],
           sweep'[p].stage = "ingesting" <=> sweep[p].stage = "ingesting",
           \A d \in Doc : upstream[d] <= upstream'[d],
           \A d \in Doc : Extends(store'[d], store[d])
    PROVE  Debt(p)'
  <1>1. \A d \in Doc : owed[p][d] \in Nat /\ upstream[d] \in Nat /\ upstream'[d] \in Nat
    BY DEF Shapes
  <1>2. \A d \in Doc : owed'[p][d] <= upstream'[d]
    BY <1>1 DEF Debt
  <1>3. ASSUME NEW c \in Cadence, ToRecord(todo[p], c), NEW d \in DocsOf(c), owed[p][d] > 0
        PROVE  Promised(p, d)'
    <2>1. d \in Doc
      BY DocsTyped
    <2>2. Promised(p, d)
      BY <1>3 DEF Debt
    <2>3. CASE Has(p, d, owed[p][d])
      BY <1>1, <2>1, <2>3, HasStays DEF Promised
    <2>4. QED
      BY <2>2, <2>3 DEF Promised
  <1>4. QED
    BY <1>2, <1>3 DEF Debt

\* The tasks that remain.
LEMMA TailFacts ==
    ASSUME NEW tasks \in Seq(Tasks), tasks # <<>>
    PROVE  /\ RecordsLast(tasks) => RecordsLast(Tail(tasks))
           /\ \A c : ToRecord(Tail(tasks), c) => ToRecord(tasks, c)
           /\ \A d : SweptAfter(tasks, 1, d) => SweptAfter(Tail(tasks), 0, d)
           /\ \A d : SweptAfter(tasks, 0, d) /\ Head(tasks).do # "sync" => SweptAfter(Tail(tasks), 0, d)
           /\ Len(tasks) \in Nat /\ (Len(tasks) <= 1 => \A c : ~ToRecord(Tail(tasks), c))
  <1>1. DOMAIN tasks = 1..Len(tasks) /\ Len(tasks) \in Nat /\ Len(tasks) # 0
    BY LenProperties, EmptySeq
  <1>2. /\ Tail(tasks) \in Seq(Tasks)
        /\ Len(Tail(tasks)) = Len(tasks) - 1
        /\ \A i \in 1..Len(Tail(tasks)) : Tail(tasks)[i] = tasks[i + 1]
    BY HeadTailProperties
  <1>3. DOMAIN Tail(tasks) = 1..Len(tasks) - 1
    BY <1>2, LenProperties
  <1>4. \A i \in DOMAIN Tail(tasks) : i + 1 \in DOMAIN tasks /\ Tail(tasks)[i] = tasks[i + 1]
    BY <1>1, <1>2, <1>3
  <1>5. Head(tasks) = tasks[1]
    OBVIOUS
  <1>6. ASSUME RecordsLast(tasks)
        PROVE  RecordsLast(Tail(tasks))
    <2> SUFFICES ASSUME NEW i \in DOMAIN Tail(tasks), NEW j \in DOMAIN Tail(tasks), i < j,
                        Tail(tasks)[i].do = "record"
                 PROVE  Tail(tasks)[j].do = "record"
      BY DEF RecordsLast
    <2>1. i + 1 < j + 1
      BY <1>1, <1>3
    <2>2. QED
      BY <1>4, <1>6, <2>1 DEF RecordsLast
  <1>7. \A c : ToRecord(Tail(tasks), c) => ToRecord(tasks, c)
    BY <1>4 DEF ToRecord
  <1>8. ASSUME NEW i \in DOMAIN tasks, i > 1
        PROVE  i - 1 \in DOMAIN Tail(tasks) /\ i - 1 > 0 /\ Tail(tasks)[i - 1] = tasks[i]
    <2>1. i - 1 \in DOMAIN Tail(tasks) /\ i - 1 > 0 /\ (i - 1) + 1 = i
      BY <1>1, <1>3, <1>8
    <2>2. QED
      BY <1>4, <2>1
  <1>9. \A d : SweptAfter(tasks, 1, d) => SweptAfter(Tail(tasks), 0, d)
    BY <1>8 DEF SweptAfter
  <1>10. ASSUME NEW d, SweptAfter(tasks, 0, d), Head(tasks).do # "sync"
         PROVE  SweptAfter(Tail(tasks), 0, d)
    <2>1. PICK i \in DOMAIN tasks : i > 0 /\ tasks[i].do = "sync" /\ d \in Range(tasks[i].docs)
      BY <1>10 DEF SweptAfter
    <2>2. i > 1
      BY <1>1, <1>5, <1>10, <2>1
    <2>3. QED
      BY <1>9, <2>1, <2>2 DEF SweptAfter
  <1>11. Len(tasks) <= 1 => \A c : ~ToRecord(Tail(tasks), c)
    BY <1>1, <1>3 DEF ToRecord
  <1>12. QED
    BY <1>1, <1>6, <1>7, <1>9, <1>10, <1>11


\* An item is ingested: what it brought is in.
LEMMA DebtItem ==
    ASSUME Shapes, Shapes', NEW p \in Proc, Debt(p), ItemUnchanged(p) \/ ItemWritten(p)
    PROVE  Debt(p)'
  <1>1. UNCHANGED <<upstream, store, todo, sweep, owed>> /\ Ingesting(p)
    BY DEF ItemUnchanged, ItemWritten
  <1>2. PICK e \in Doc, content \in Nat : e = Item(p).doc /\ content = Item(p).content
    BY <1>1, ItemTyped
  <1>3. /\ items[p][1].doc = e /\ items[p][1].content = content
        /\ items[p] \in Seq(Items) /\ Tail(items[p]) \in Seq(Items)
        /\ Len(Tail(items[p])) = Len(items[p]) - 1
        /\ \A i \in 1..Len(Tail(items[p])) : Tail(items[p])[i] = items[p][i + 1]
    BY <1>1, <1>2, ItemTyped DEF Shapes
  <1>4. items'[p] = Tail(items[p])
    BY DEF ItemUnchanged, ItemWritten, Shapes
  <1>5. /\ View(p, e) \in Seq(Versions) /\ Len(View(p, e)) \in Nat
        /\ DOMAIN View(p, e) = 1..Len(View(p, e))
    BY ViewTyped
  <1>6. /\ \A d \in Doc, text \in Nat : Has(p, d, text) => Has(p, d, text)'
        /\ \A text \in Nat : content >= text => Has(p, e, text)'
    <2>1. CASE ItemUnchanged(p)
      <3>1. \A d \in Doc : View(p, d)' = View(p, d)
        BY <2>1 DEF ItemUnchanged, View
      <3>2. View(p, e) # <<>> /\ Last(View(p, e)).content = content
        BY <1>2, <2>1 DEF ItemUnchanged, Unchanged
      <3>3. Len(View(p, e)) \in DOMAIN View(p, e)
        BY <1>5, <3>2
      <3>4. \A text \in Nat : content >= text => Has(p, e, text)
        BY <3>2, <3>3 DEF Has, Last
      <3>5. \A d \in Doc, text \in Nat : Has(p, d, text)' <=> Has(p, d, text)
        BY <3>1 DEF Has
      <3>6. QED
        BY <3>4, <3>5
    <2>2. CASE ItemWritten(p)
      <3>1. PICK new : /\ new = Superseded(View(p, e), found[p], content)
                       /\ draft' = [draft EXCEPT ![p][e] = new] /\ store' = store
        BY <1>2, <2>2 DEF ItemWritten
      <3>2. /\ new \in Seq(Versions) /\ Len(new) = Len(View(p, e)) + 1
            /\ \A i \in 1..Len(View(p, e)) :
                  new[i] = IF i = found[p] THEN Retired(View(p, e)[i]) ELSE View(p, e)[i]
            /\ new[Len(View(p, e)) + 1] = Version(content)
        BY <1>5, <3>1, SupersededTyped
      <3>3. \A i \in 1..Len(View(p, e)) : new[i].content = View(p, e)[i].content
        <4>1. \A i \in 1..Len(View(p, e)) : View(p, e)[i] \in Versions
          BY <1>5, ElementOfSeq
        <4>2. \A v \in Versions : Retired(v).content = v.content
          BY DEF Retired, Versions
        <4>3. QED
          BY <3>2, <4>1, <4>2
      <3>4. new # NoDraft
        BY <3>2, CorpusAssumption
      <3>5. draft'[p] = [draft[p] EXCEPT ![e] = new] /\ DOMAIN draft[p] = Doc
        BY <3>1 DEF Shapes
      <3>6. /\ View(p, e)' = new
            /\ \A d \in Doc : d # e => View(p, d)' = View(p, d)
        BY <3>1, <3>4, <3>5 DEF View
      <3>7. DOMAIN new = 1..Len(View(p, e)) + 1
        BY <3>2, LenProperties
      <3>8. \A text \in Nat : Has(p, e, text) => \E i \in DOMAIN new : new[i].content >= text
        BY <1>5, <3>3, <3>7 DEF Has
      <3>9. \A text \in Nat : content >= text => \E i \in DOMAIN new : new[i].content >= text
        <4>1. Len(View(p, e)) + 1 \in DOMAIN new
          BY <1>5, <3>7
        <4>2. QED
          BY <3>2, <4>1 DEF Version
      <3>10. \A text \in Nat : (\E i \in DOMAIN new : new[i].content >= text) => Has(p, e, text)'
        BY <3>6 DEF Has
      <3>11. \A d \in Doc, text \in Nat : d # e /\ Has(p, d, text) => Has(p, d, text)'
        BY <3>6 DEF Has
      <3>12. QED
        BY <3>8, <3>9, <3>10, <3>11
    <2>3. QED
      BY <2>1, <2>2
  <1>7. ASSUME NEW c \in Cadence, ToRecord(todo[p], c), NEW d \in DocsOf(c), owed[p][d] > 0
        PROVE  Promised(p, d)'
    <2>1. d \in Doc /\ owed[p][d] \in Nat
      BY DocsTyped DEF Shapes
    <2>2. Promised(p, d)
      BY <1>7 DEF Debt
    <2>3. CASE Has(p, d, owed[p][d])
      BY <1>1, <1>6, <2>1, <2>3 DEF Promised
    <2>4. ASSUME NEW i \in DOMAIN items[p], items[p][i].doc = d, items[p][i].content >= owed[p][d]
          PROVE  Promised(p, d)'
      <3>1. DOMAIN items[p] = 1..Len(items[p]) /\ Len(items[p]) \in Nat
            /\ DOMAIN Tail(items[p]) = 1..Len(Tail(items[p]))
        BY <1>3, LenProperties
      <3>2. CASE i = 1
        <4>1. d = e /\ content >= owed[p][d]
          BY <1>3, <2>4, <3>2
        <4>2. QED
          BY <1>1, <1>6, <2>1, <4>1 DEF Promised
      <3>3. CASE i # 1
        <4>1. i - 1 \in DOMAIN Tail(items[p]) /\ (i - 1) + 1 = i
          BY <1>3, <3>1, <3>3
        <4>2. Tail(items[p])[i - 1] = items[p][i]
          BY <1>3, <3>1, <4>1
        <4>3. QED
          BY <1>1, <1>4, <2>4, <4>1, <4>2 DEF Promised
      <3>4. QED
        BY <3>2, <3>3
    <2>5. QED
      BY <1>1, <2>2, <2>3, <2>4 DEF Promised
  <1>8. QED
    BY <1>1, <1>7 DEF Debt

\* A source has answered: what it delivered is among the items, what it left
\* out is no longer owed.
LEMMA DebtFetch ==
    ASSUME Shapes, Shapes', NEW p \in Proc, Debt(p), Fetch(p)
    PROVE  Debt(p)'
  <1> DEFINE wanted == Head(todo[p]).docs
  <1>1. /\ UNCHANGED <<upstream, store, todo, draft>>
        /\ Doing(p, "sync") /\ sweep[p].stage = "none" /\ items[p] = <<>>
    BY DEF Fetch, Unfetched
  <1>2. wanted \in Seq(Doc)
    BY <1>1, TaskTyped DEF Doing
  <1>3. PICK got : /\ items' = [items EXCEPT ![p] = Fetched(Delivered(wanted, got))]
                   /\ owed' = [owed EXCEPT ![p] = [d \in Doc |->
                                 IF d \in Range(wanted) \ got THEN 0 ELSE @[d]]]
    BY DEF Fetch
  <1>4. sweep'[p].stage = "ingesting"
    <2>1. sweep[p] \in Runs /\ p \in DOMAIN sweep
      BY DEF Shapes
    <2>2. QED
      BY <2>1 DEF Fetch, Runs
  <1>5. /\ items'[p] = Fetched(Delivered(wanted, got))
        /\ \A d \in Doc : owed'[p][d] = IF d \in Range(wanted) \ got THEN 0 ELSE owed[p][d]
    BY <1>3 DEF Shapes
  <1> HIDE DEF wanted
  <1>6. \A d \in got \cap Range(wanted) :
           \E i \in DOMAIN items'[p] : items'[p][i] = [doc |-> d, content |-> upstream[d]]
    BY <1>2, <1>5, DeliveredTyped
  <1>7. \A d \in Doc : owed[p][d] \in Nat /\ upstream[d] \in Nat /\ owed[p][d] <= upstream[d]
    BY DEF Shapes, Debt
  <1>8. \A d \in Doc : owed'[p][d] <= upstream'[d]
    BY <1>1, <1>5, <1>7
  <1>9. ASSUME NEW c \in Cadence, ToRecord(todo[p], c), NEW d \in DocsOf(c), owed'[p][d] > 0
        PROVE  Promised(p, d)'
    <2>1. d \in Doc
      BY DocsTyped
    <2>2. d \notin Range(wanted) \ got /\ owed'[p][d] = owed[p][d]
      BY <1>5, <1>9, <2>1
    <2>3. Promised(p, d)
      BY <1>9, <2>2 DEF Debt
    <2>4. CASE d \in Range(wanted)
      <3>1. PICK i \in DOMAIN items'[p] : items'[p][i] = [doc |-> d, content |-> upstream[d]]
        BY <1>6, <2>2, <2>4
      <3>2. items'[p][i].doc = d /\ items'[p][i].content >= owed'[p][d]
        BY <1>7, <2>1, <2>2, <3>1
      <3>3. QED
        BY <3>2 DEF Promised
    <2>5. CASE d \notin Range(wanted)
      <3>1. SweptAfter(todo[p], 0, d) \/ Has(p, d, owed[p][d])
        BY <1>1, <2>3 DEF Promised
      <3>2. CASE SweptAfter(todo[p], 0, d)
        <4>1. todo[p] \in Seq(Tasks) /\ todo[p][1] = Head(todo[p])
          BY <1>1 DEF Shapes, Doing
        <4>2. DOMAIN todo[p] = 1..Len(todo[p]) /\ Len(todo[p]) \in Nat
          BY <4>1, LenProperties
        <4>3. SweptAfter(todo[p], 1, d)
          BY <2>5, <3>2, <4>1, <4>2 DEF SweptAfter, wanted
        <4>4. QED
          BY <1>1, <1>4, <4>3 DEF Promised
      <3>3. CASE Has(p, d, owed[p][d])
        <4>1. View(p, d)' = View(p, d)
          BY <1>1 DEF View
        <4>2. QED
          BY <2>2, <3>3, <4>1 DEF Promised, Has
      <3>4. QED
        BY <3>1, <3>2, <3>3
    <2>6. QED
      BY <2>4, <2>5
  <1>10. QED
    BY <1>1, <1>8, <1>9 DEF Debt

\* A task is over: what is owed for it is in.
LEMMA DebtNextTask ==
    ASSUME Shapes, Shapes', NEW p \in Proc, Debt(p), todo[p] # <<>>, NextTask(p),
           \A d \in Doc : View(p, d)' = View(p, d),
           UNCHANGED <<items, upstream>>,
           owed'[p] = owed[p] \/ (Len(todo[p]) <= 1 /\ \A d \in Doc : owed'[p][d] = 0),
           sweep'[p].stage # "ingesting",
           sweep[p].stage = "ingesting" \/ Head(todo[p]).do # "sync"
    PROVE  Debt(p)'
  <1>1. todo'[p] = Tail(todo[p]) /\ todo[p] \in Seq(Tasks)
    BY DEF NextTask, Shapes
  <1>2. /\ RecordsLast(todo'[p])
        /\ \A c : ToRecord(todo'[p], c) => ToRecord(todo[p], c)
        /\ \A d : SweptAfter(todo[p], 1, d) => SweptAfter(todo'[p], 0, d)
        /\ \A d : SweptAfter(todo[p], 0, d) /\ Head(todo[p]).do # "sync" => SweptAfter(todo'[p], 0, d)
        /\ Len(todo[p]) <= 1 => \A c : ~ToRecord(todo'[p], c)
    BY <1>1, TailFacts DEF Debt
  <1>3. \A d \in Doc : owed'[p][d] <= upstream'[d]
    BY DEF Shapes, Debt
  <1>4. ASSUME NEW c \in Cadence, ToRecord(todo'[p], c), NEW d \in DocsOf(c), owed'[p][d] > 0
        PROVE  Promised(p, d)'
    <2>1. d \in Doc
      BY DocsTyped
    <2>2. ToRecord(todo[p], c) /\ owed'[p] = owed[p]
      BY <1>2, <1>4
    <2>3. Promised(p, d)
      BY <1>4, <2>2 DEF Debt
    <2>4. CASE SweptAfter(todo[p], IF sweep[p].stage = "ingesting" THEN 1 ELSE 0, d)
      <3>1. SweptAfter(todo'[p], 0, d)
        <4>1. \A e : SweptAfter(todo[p], 1, e) => SweptAfter(todo[p], 0, e)
          <5>1. \A i \in DOMAIN todo[p] : i \in Nat
            BY <1>1, LenProperties
          <5>2. QED
            BY <5>1 DEF SweptAfter
        <4>2. QED
          BY <1>2, <2>4, <4>1
      <3>2. QED
        BY <3>1 DEF Promised
    <2>5. CASE Has(p, d, owed[p][d])
      BY <2>1, <2>2, <2>5 DEF Promised, Has
    <2>6. QED
      BY <2>2, <2>3, <2>4, <2>5 DEF Promised
  <1>5. QED
    BY <1>2, <1>3, <1>4 DEF Debt

\* Recording a cadence: its documents have been swept, so what is owed is in.
LEMMA RecordEarned ==
    ASSUME Shapes, Shapes', Places, NEW p \in Proc, Debt(p), ClockIsEarned, Record(p)
    PROVE  ClockIsEarned'
  <1>1. /\ Doing(p, "record") /\ store' = store
        /\ noted' = [noted EXCEPT ![Head(todo[p]).cadence] =
              [d \in Doc |-> IF d \in DocsOf(Head(todo[p]).cadence) THEN owed[p][d] ELSE 0]]
    BY DEF Record
  <1>2. PICK c \in Cadence : c = Head(todo[p]).cadence
    BY <1>1, TaskTyped DEF Doing
  <1>3. /\ noted'[c] = [d \in Doc |-> IF d \in DocsOf(c) THEN owed[p][d] ELSE 0]
        /\ \A b \in Cadence \ {c} : noted'[b] = noted[b]
    BY <1>1, <1>2 DEF Shapes
  <1>4. /\ todo[p] \in Seq(Tasks) /\ Len(todo[p]) \in Nat /\ DOMAIN todo[p] = 1..Len(todo[p])
        /\ todo[p] # <<>> /\ todo[p][1] = Head(todo[p]) /\ Head(todo[p]).do = "record"
    BY <1>1, LenProperties DEF Doing, Shapes
  <1>5. ToRecord(todo[p], c)
    <2>1. 1 \in DOMAIN todo[p]
      BY <1>4, EmptySeq
    <2>2. QED
      BY <1>2, <1>4, <2>1 DEF ToRecord
  <1>6. \A i \in DOMAIN todo[p] : todo[p][i].do = "record"
    BY <1>4 DEF Debt, RecordsLast
  <1>7. items[p] = <<>> /\ \A d \in Doc : draft[p][d] = NoDraft
    <2>1. sweep[p].stage \in Stages
      BY DEF Shapes, Runs
    <2>2. sweep[p].stage = "none"
      BY <1>4, <2>1 DEF Places, Place, Doing, Stages
    <2>3. QED
      BY <2>2 DEF Places, Place
  <1>8. ASSUME NEW d \in DocsOf(c), noted'[c][d] > 0
        PROVE  \E i \in DOMAIN store'[d] : store'[d][i].content >= noted'[c][d]
    <2>1. d \in Doc
      BY DocsTyped
    <2>2. noted'[c][d] = owed[p][d]
      BY <1>3, <2>1
    <2>3. Promised(p, d)
      BY <1>5, <1>8, <2>2 DEF Debt
    <2>4. \A n : ~SweptAfter(todo[p], n, d)
      BY <1>6 DEF SweptAfter
    <2>5. Has(p, d, owed[p][d])
      BY <1>7, <2>3, <2>4 DEF Promised
    <2>6. View(p, d) = store[d]
      BY <1>7, <2>1 DEF View
    <2>7. QED
      BY <1>1, <2>2, <2>5, <2>6 DEF Has
  <1>9. ASSUME NEW b \in Cadence, b # c, NEW d \in DocsOf(b), noted'[b][d] > 0
        PROVE  \E i \in DOMAIN store'[d] : store'[d][i].content >= noted'[b][d]
    BY <1>1, <1>3, <1>9 DEF ClockIsEarned
  <1>10. QED
    BY <1>8, <1>9 DEF ClockIsEarned


LEMMA EarnStep ==
    ASSUME Shapes, Shapes', Places, Places', LawInv, EarnInv, [Next]_vars
    PROVE  EarnInv'
  <1>0. /\ \A d \in Doc : Extends(store'[d], store[d])
        /\ ClockIsEarned /\ \A p \in Proc : Debt(p)
        /\ \A d \in Doc : upstream[d] \in Nat
    BY LawStep DEF EarnInv, Shapes
  <1>1. CASE UNCHANGED vars
    <2>1. UNCHANGED <<upstream, noted, todo, draft, items, owed, sweep>>
      BY <1>1 DEF vars, procs
    <2>2. QED
      BY <1>0, <2>1, EarnedStays, DebtFrame DEF EarnInv
  <1>2. ASSUME NEW d \in Doc, Publish(d) \/ Issue(d) \/ Withdraw(d)
        PROVE  EarnInv'
    <2>1. UNCHANGED <<noted, todo, draft, items, owed, sweep>>
      BY <1>2, WorldSteps DEF procs
    <2>2. \A e \in Doc : upstream[e] <= upstream'[e]
      BY <1>2, WorldSteps
    <2>3. QED
      BY <1>0, <2>1, <2>2, EarnedStays, DebtFrame DEF EarnInv
  <1>3. ASSUME NEW c \in Cadence, Elapse(c)
        PROVE  EarnInv'
    <2>1. UNCHANGED <<upstream, noted, todo, draft, items, owed, sweep>>
      BY <1>3 DEF Elapse, procs
    <2>2. QED
      BY <1>0, <2>1, EarnedStays, DebtFrame DEF EarnInv
  <1>4. ASSUME NEW p \in Proc, Step(p) \/ Crash(p)
        PROVE  EarnInv'
    <2>a. upstream' = upstream
      BY <1>4 DEF Step, TickBegins, CommandBegins, ItemUnchanged, ItemRead, ItemWritten, ItemRefused,
         Fetch, SourceDone, FeedFails, FeedFetched, Plan, PlanFails, TargetDropped, TargetFetched,
         DiscoveryDone, EmbedBatch, BatchStored, EmbedAbandoned, EmbedDone, Record, RecordTorn, Crash,
         Abandon
    <2>b. \A q \in Proc \ {p} : Debt(q)'
      <3>1. \A q \in Proc \ {p} : /\ todo'[q] = todo[q] /\ draft'[q] = draft[q]
                                  /\ items'[q] = items[q] /\ owed'[q] = owed[q]
                                  /\ sweep'[q] = sweep[q]
        BY <1>4, OthersUntouched
      <3>2. QED
        BY <1>0, <2>a, <3>1, DebtFrame
    <2>c. ASSUME noted' = noted
          PROVE  ClockIsEarned'
      BY <1>0, <2>c, EarnedStays
    <2>d. Debt(p) /\ Place(p) /\ p \in DOMAIN sweep /\ sweep[p] \in Runs
          /\ p \in DOMAIN todo /\ p \in DOMAIN owed /\ p \in DOMAIN draft
      BY <1>0 DEF Places, Shapes
    <2>1. CASE TickBegins(p)
      <3>1. PICK due \in SUBSET Cadence : todo' = [todo EXCEPT ![p] = TickTasks(due)]
        BY <2>1 DEF TickBegins
      <3>2. todo'[p] = TickTasks(due) /\ owed'[p] = upstream
        BY <2>1, <2>d, <3>1 DEF TickBegins
      <3>3. sweep'[p].stage # "ingesting"
        BY <2>1, <2>d DEF TickBegins, Place, Doing
      <3>4. /\ RecordsLast(todo'[p])
            /\ \A c \in Cadence : ToRecord(todo'[p], c) => \A d \in DocsOf(c) : SweptAfter(todo'[p], 0, d)
        BY <3>2, TickShape
      <3>5. Debt(p)'
        BY <1>0, <2>a, <3>2, <3>3, <3>4 DEF Debt, Promised
      <3>6. QED
        BY <2>1, <2>b, <2>c, <3>5 DEF EarnInv, TickBegins
    <2>2. CASE CommandBegins(p)
      <3>1. PICK command \in Command[p] : todo' = [todo EXCEPT ![p] = CommandTasks[command]]
        BY <2>2 DEF CommandBegins
      <3>2. command \in {"sync", "discover", "embed"}
        BY <2>2, CorpusAssumption DEF CommandBegins, Shapes, Operator
      <3>3. RecordsLast(todo'[p]) /\ \A c : ~ToRecord(todo'[p], c)
        BY <2>d, <3>1, <3>2, CommandTyped
      <3>4. Debt(p)'
        BY <2>2, <2>a, <2>d, <3>3 DEF Debt, CommandBegins
      <3>5. QED
        BY <2>2, <2>b, <2>c, <3>4 DEF EarnInv, CommandBegins
    <2>3. CASE ItemUnchanged(p) \/ ItemWritten(p)
      <3>1. Debt(p)'
        BY <2>3, <2>d, DebtItem
      <3>2. noted' = noted
        BY <2>3 DEF ItemUnchanged, ItemWritten
      <3>3. QED
        BY <2>b, <2>c, <3>1, <3>2 DEF EarnInv
    <2>4. CASE ItemRead(p) \/ FeedFetched(p) \/ Plan(p) \/ TargetDropped(p) \/ EmbedBatch(p)
                  \/ BatchStored(p)
      <3>1. UNCHANGED <<todo, draft, items, owed, noted>>
        BY <2>4 DEF ItemRead, FeedFetched, Plan, TargetDropped, EmbedBatch, BatchStored
      <3>2. sweep'[p].stage = "ingesting" <=> sweep[p].stage = "ingesting"
        <4>1. CASE ItemRead(p) \/ EmbedBatch(p) \/ BatchStored(p)
          BY <4>1 DEF ItemRead, EmbedBatch, BatchStored
        <4>2. CASE FeedFetched(p) \/ Plan(p) \/ TargetDropped(p)
          <5>1. Doing(p, "discover") /\ todo' = todo
            BY <4>2 DEF FeedFetched, Plan, TargetDropped, AtTarget
          <5>2. ~Doing(p, "sync") /\ ~Doing(p, "sync")'
            BY <5>1 DEF Doing
          <5>3. QED
            BY <5>2 DEF Places, Place
        <4>3. QED
          BY <2>4, <4>1, <4>2
      <3>3. Debt(p)'
        BY <1>0, <2>a, <2>d, <3>1, <3>2, DebtFrame
      <3>4. QED
        BY <2>b, <2>c, <3>1, <3>3 DEF EarnInv
    <2>5. CASE ItemRefused(p) \/ PlanFails(p) \/ RecordTorn(p) \/ Crash(p)
      <3>1. Abandon(p)
        BY <2>5 DEF ItemRefused, PlanFails, RecordTorn, Crash
      <3>2. todo'[p] = <<>> /\ noted' = noted /\ \A d \in Doc : owed'[p][d] = 0
        BY <2>d, <3>1 DEF Abandon
      <3>3. Debt(p)'
        BY <1>0, <2>a, <3>2 DEF Debt, RecordsLast, ToRecord
      <3>4. QED
        BY <2>b, <2>c, <3>2, <3>3 DEF EarnInv
    <2>6. CASE Fetch(p)
      <3>1. Debt(p)' /\ noted' = noted
        BY <2>6, <2>d, DebtFetch DEF Fetch
      <3>2. QED
        BY <2>b, <2>c, <3>1 DEF EarnInv
    <2>7. CASE SourceDone(p) \/ DiscoveryDone(p)
      <3>1. /\ store' = Committed(p) /\ draft' = [draft EXCEPT ![p] = [d \in Doc |-> NoDraft]]
            /\ sweep' = [sweep EXCEPT ![p] = NoSweep]
            /\ NextTask(p) /\ todo[p] # <<>>
            /\ UNCHANGED <<items, owed, noted>>
        BY <2>7 DEF SourceDone, DiscoveryDone, Doing
      <3>2. \A d \in Doc : View(p, d)' = View(p, d)
        <4>1. \A d \in Doc : draft'[p][d] = NoDraft /\ store'[d] = View(p, d)
          BY <2>d, <3>1 DEF Committed
        <4>2. \A d \in Doc : View(p, d)' = store'[d]
          BY <4>1 DEF View
        <4>3. QED
          BY <4>1, <4>2
      <3>3. sweep'[p].stage # "ingesting"
        BY <2>d, <3>1 DEF NoSweep
      <3>4. sweep[p].stage = "ingesting" \/ Head(todo[p]).do # "sync"
        BY <2>7 DEF SourceDone, DiscoveryDone, Doing
      <3>5. Debt(p)'
        BY <2>a, <2>d, <3>1, <3>2, <3>3, <3>4, DebtNextTask
      <3>6. QED
        BY <2>b, <2>c, <3>1, <3>5 DEF EarnInv
    <2>8. CASE FeedFails(p) \/ EmbedAbandoned(p) \/ EmbedDone(p) \/ Record(p)
      <3>1. /\ NextTask(p) /\ UNCHANGED <<store, draft, items, sweep>>
            /\ owed'[p] = owed[p] \/ (Len(todo[p]) <= 1 /\ \A d \in Doc : owed'[p][d] = 0)
        <4>1. CASE FeedFails(p) \/ EmbedAbandoned(p) \/ EmbedDone(p)
          BY <4>1 DEF FeedFails, EmbedAbandoned, EmbedDone
        <4>2. CASE Record(p)
          <5>1. Len(todo[p]) \in Nat
            BY LenProperties DEF Shapes
          <5>2. QED
            BY <2>d, <4>2, <5>1 DEF Record
        <4>3. QED
          BY <2>8, <4>1, <4>2
      <3>2. todo[p] # <<>> /\ Head(todo[p]).do # "sync"
        <4>1. CASE FeedFails(p)
          BY <4>1 DEF FeedFails, Doing
        <4>2. CASE EmbedAbandoned(p) \/ EmbedDone(p)
          BY <2>d, <4>2 DEF EmbedAbandoned, EmbedDone, Place, Doing
        <4>3. CASE Record(p)
          BY <4>3 DEF Record, Doing
        <4>4. QED
          BY <2>8, <4>1, <4>2, <4>3
      <3>3. sweep'[p].stage # "ingesting"
        BY <2>d, <3>1, <3>2 DEF Place, Doing
      <3>4. \A d \in Doc : View(p, d)' = View(p, d)
        BY <3>1 DEF View
      <3>5. Debt(p)'
        BY <2>a, <2>d, <3>1, <3>2, <3>3, <3>4, DebtNextTask
      <3>6. ClockIsEarned'
        <4>1. CASE FeedFails(p) \/ EmbedAbandoned(p) \/ EmbedDone(p)
          BY <2>c, <4>1 DEF FeedFails, EmbedAbandoned, EmbedDone
        <4>2. CASE Record(p)
          BY <1>0, <2>d, <4>2, RecordEarned
        <4>3. QED
          BY <2>8, <4>1, <4>2
      <3>7. QED
        BY <2>b, <3>5, <3>6 DEF EarnInv
    <2>9. CASE TargetFetched(p)
      <3>1. /\ UNCHANGED <<store, draft, todo, owed, noted>> /\ items[p] = <<>>
            /\ Doing(p, "discover")
        BY <2>9 DEF TargetFetched, AtTarget, Ingesting
      <3>2. sweep[p].stage # "ingesting" /\ sweep'[p].stage # "ingesting"
        <4>1. ~Doing(p, "sync") /\ ~Doing(p, "sync")'
          BY <3>1 DEF Doing
        <4>2. QED
          BY <4>1 DEF Places, Place
      <3>3. \A d \in Doc : View(p, d)' = View(p, d)
        BY <3>1 DEF View
      <3>4. ASSUME NEW c \in Cadence, ToRecord(todo[p], c), NEW d \in DocsOf(c), owed[p][d] > 0
            PROVE  Promised(p, d)'
        <4>1. Promised(p, d) /\ d \in Doc
          BY <2>d, <3>4, DocsTyped DEF Debt
        <4>2. SweptAfter(todo[p], 0, d) \/ Has(p, d, owed[p][d])
          BY <3>1, <3>2, <4>1 DEF Promised
        <4>3. QED
          BY <3>1, <3>2, <3>3, <4>1, <4>2 DEF Promised, Has
      <3>5. Debt(p)'
        BY <2>a, <2>d, <3>1, <3>4 DEF Debt
      <3>6. QED
        BY <2>b, <2>c, <3>1, <3>5 DEF EarnInv
    <2>10. QED
      BY <1>4, <2>1, <2>2, <2>3, <2>4, <2>5, <2>6, <2>7, <2>8, <2>9 DEF Step
  <1>5. QED
    BY <1>1, <1>2, <1>3, <1>4 DEF Next

\* ClockIsEarned: whenever the clock of a cadence was advanced, all that its
\* sources had published when the tick began is in the corpus, but for what a
\* source failed to deliver (run_due_sync records after the sweeps), however
\* discovery, commands and crashes interleave with the tick.
THEOREM ClocksEarned == Spec => []ClockIsEarned
  <1>1. Init => EarnInv
    BY EarnInit
  <1>2. CorpusInv /\ CorpusInv' /\ EarnInv /\ [Next]_vars => EarnInv'
    BY EarnStep DEF CorpusInv
  <1>3. EarnInv => ClockIsEarned
    BY DEF EarnInv
  <1>4. QED
    BY <1>1, <1>2, <1>3, CorpusInductive, PTL DEF Spec


-----------------------------------------------------------------------------
\* Types

RangeInv ==
    /\ \A d \in Doc : upstream[d] \in 0..MaxPublished[d]
    /\ offered \subseteq Doc
    /\ \A p \in Proc : batch[p] \subseteq Chunks

LEMMA RangeStep ==
    ASSUME CorpusInv, CorpusInv', RangeInv, [Next]_vars
    PROVE  RangeInv'
  <1>1. \A d \in Doc : Extends(store'[d], store[d])
    BY LawStep DEF CorpusInv
  <1>2. \A d \in Doc : DOMAIN store[d] \subseteq DOMAIN store'[d]
    <2>1. \A d \in Doc : /\ DOMAIN store[d] = 1..Len(store[d]) /\ Len(store[d]) \in Nat
                         /\ DOMAIN store'[d] = 1..Len(store'[d]) /\ Len(store'[d]) \in Nat
      BY LenProperties DEF CorpusInv, Shapes
    <2>2. QED
      BY <1>1, <2>1 DEF Extends
  <1>3. Chunks \subseteq Chunks'
    BY <1>2 DEF Chunks
  <1>4. \A p \in Proc : batch'[p] = batch[p] \/ batch'[p] \subseteq Chunks
    <2>1. CASE UNCHANGED batch
      BY <2>1
    <2>2. ASSUME NEW p \in Proc, Step(p) \/ Crash(p)
          PROVE  \A q \in Proc : batch'[q] = batch[q] \/ batch'[q] \subseteq Chunks
      <3>1. \A q \in Proc \ {p} : batch'[q] = batch[q]
        BY <2>2, OthersUntouched DEF CorpusInv
      <3>2. batch'[p] = batch[p] \/ batch'[p] \subseteq Chunks
        <4>1. p \in DOMAIN batch
          BY DEF CorpusInv, Shapes
        <4>2. CASE EmbedBatch(p)
          BY <4>1, <4>2 DEF EmbedBatch, Pending
        <4>3. CASE ~EmbedBatch(p)
          <5>1. UNCHANGED batch \/ batch' = [batch EXCEPT ![p] = {}]
            BY <2>2, <4>3 DEF Step, TickBegins, CommandBegins, ItemUnchanged, ItemRead, ItemWritten,
               ItemRefused, Fetch, SourceDone, FeedFails, FeedFetched, Plan, PlanFails, TargetDropped,
               TargetFetched, DiscoveryDone, BatchStored, EmbedAbandoned, EmbedDone, Record,
               RecordTorn, Crash, Abandon
          <5>2. QED
            BY <4>1, <5>1
        <4>4. QED
          BY <4>2, <4>3
      <3>3. QED
        BY <3>1, <3>2
    <2>3. CASE (\E d \in Doc : Publish(d) \/ Issue(d) \/ Withdraw(d)) \/ (\E c \in Cadence : Elapse(c)) \/ UNCHANGED vars
      <3>1. UNCHANGED batch
        BY <2>3 DEF Publish, Issue, Withdraw, Elapse, procs, vars
      <3>2. QED
        BY <3>1
    <2>4. QED
      BY <2>2, <2>3 DEF Next
  <1>5. (\A d \in Doc : upstream'[d] \in 0..MaxPublished[d]) /\ offered' \subseteq Doc
    <2>0. upstream \in [Doc -> Nat] /\ MaxPublished \in [Doc -> Nat \ {0}]
      BY CorpusAssumption DEF CorpusInv, Shapes
    <2>1. ASSUME NEW d \in Doc, Publish(d) \/ Issue(d) \/ Withdraw(d)
          PROVE  (\A e \in Doc : upstream'[e] \in 0..MaxPublished[e]) /\ offered' \subseteq Doc
      <3>1. CASE Publish(d)
        BY <2>0, <3>1 DEF Publish, RangeInv
      <3>2. CASE Issue(d)
        <4>1. upstream' = [upstream EXCEPT ![d] = 1]
          BY <3>2 DEF Issue
        <4>2. \A issued : Page(issued) \subseteq Feed
          BY DEF Page, Feed, Range
        <4>3. offered' \subseteq Doc
          BY <3>2, <4>2, FeedInDoc DEF Issue, RangeInv
        <4>4. QED
          BY <2>0, <4>1, <4>3 DEF RangeInv
      <3>3. CASE Withdraw(d)
        BY <2>0, <3>3 DEF Withdraw, RangeInv
      <3>4. QED
        BY <2>1, <3>1, <3>2, <3>3
    <2>2. ASSUME NEW p \in Proc, Step(p) \/ Crash(p)
          PROVE  UNCHANGED <<upstream, offered>>
      BY <2>2 DEF Step, TickBegins, CommandBegins, ItemUnchanged, ItemRead, ItemWritten, ItemRefused,
         Fetch, SourceDone, FeedFails, FeedFetched, Plan, PlanFails, TargetDropped, TargetFetched,
         DiscoveryDone, EmbedBatch, BatchStored, EmbedAbandoned, EmbedDone, Record, RecordTorn, Crash,
         Abandon
    <2>3. CASE (\E c \in Cadence : Elapse(c)) \/ UNCHANGED vars
      BY <2>3 DEF Elapse, vars, RangeInv
    <2>4. QED
      BY <2>1, <2>2, <2>3 DEF Next, RangeInv
  <1>6. QED
    BY <1>3, <1>4, <1>5 DEF RangeInv

\* TypeOK: in particular a draft is always ahead of the committed versions of
\* its document, and a batch is of chunks that exist.
THEOREM TypeCorrect == Spec => []TypeOK
  <1>1. Init => RangeInv
    <2> SUFFICES ASSUME Init PROVE RangeInv
      OBVIOUS
    <2>1. MaxPublished \in [Doc -> Nat \ {0}]
      BY CorpusAssumption
    <2>2. \A d \in Doc : upstream[d] \in 0..MaxPublished[d]
      BY <2>1 DEF Init
    <2>3. OldRules \subseteq Feed
      BY DEF OldRules, Feed, Range
    <2>4. QED
      BY <2>2, <2>3, FeedInDoc DEF Init, RangeInv
  <1>2. CorpusInv /\ CorpusInv' /\ RangeInv /\ [Next]_vars => RangeInv'
    BY RangeStep
  <1>3. CorpusInv /\ RangeInv => TypeOK
    <2> SUFFICES ASSUME CorpusInv, RangeInv PROVE TypeOK
      OBVIOUS
    <2>1. /\ \A d \in Doc : store[d] \in Seq(Versions)
          /\ clock \in [Cadence -> {"due", "fresh"}]
          /\ coming \subseteq Operator \cup Doc /\ faults \in 0..MaxFaults
          /\ \A p \in Proc : items[p] \in Seq([doc : Doc, content : Nat])
      BY DEF CorpusInv, Shapes, Items
    <2>2. \A p \in Proc, d \in Doc :
             draft[p][d] # NoDraft => /\ draft[p][d] \in Seq(Versions)
                                      /\ Len(draft[p][d]) > Len(store[d])
      BY VersionsTyped DEF CorpusInv, LawInv
    <2>3. \A p \in Proc : found[p] # NoDoc => found[p] \in Nat /\ Ingesting(p)
      BY VersionsTyped DEF CorpusInv, LawInv, Reading
    <2>4. QED
      BY <2>1, <2>2, <2>3 DEF RangeInv, TypeOK
  <1>4. QED
    BY <1>1, <1>2, <1>3, CorpusInductive, PTL DEF Spec


===============================================================================
