--------------------------- MODULE RunResumeProofs ---------------------------
(***************************************************************************)
(* Proofs about a run whose process may die at any step, any number of     *)
(* times, and be started again with --resume (RunResume).                  *)
(*                                                                         *)
(* The invariants of SearchLoopProofs that speak of history do not survive *)
(* a resume: a death between two writes leaves history and records at odds *)
(* for good.  What survives is on disk.  ResumeInv says what the records   *)
(* and diff files of the iterations so far hold (WrittenInv), what the     *)
(* running iteration has scored (ScoredInv), and how everything the        *)
(* process keeps in memory can be read back from them: which designs were  *)
(* measured (OnceInv), the parent (ParentFiled) unless it has just moved   *)
(* (MovedInv), the reference point (BaseInv), the admitted designs         *)
(* (AdmittedInv), what a proposer is told (InfoInv) and shown (ToldInv).   *)
(***************************************************************************)
EXTENDS RunResume, SearchLoopProofs, FiniteSetTheorems, WellFoundedInduction

-----------------------------------------------------------------------------
(***************************************************************************)
(* The inductive invariant                                                 *)
(***************************************************************************)

(* The identity the running iteration's record names.                      *)
RecName == <<rec.cfg, rec.rtl>>

File == [cfg: Config \union {None}, rtl: Rtl \union {None},
         net: NetId \union {None}, scored: BOOLEAN, diff: Tree \union {None}]

DiskTypeOK == filed \in [1..Iters -> File] /\ restarts \in Nat

(* Every iteration that is over has a record, no later one has, and the    *)
(* running one has, under its own name, if its failure was written down.   *)
WrittenInv ==
    /\ \A i \in 1..Iters : /\ i < it => records[i] # None
                           /\ i > it => records[i] = None
    /\ pc = "done" => it = Iters /\ records[it] # None
    /\ records[it] # None =>
          /\ pc \in {"remember", "record", "raised", "aborted", "done"}
          /\ pc # "done" => NameOf(it) = RecName
    /\ FailureFiled
    /\ \A i \in Replayed : Over(i)

(* A score is of the design the ladder passed, under the name its record   *)
(* has.                                                                    *)
ScoredInv ==
    score # None =>
        /\ pc \in {"scored", "published", "record", "raised", "aborted"}
        /\ records[it] = None
        /\ res.at.clean /\ RecName = IdentOf(res.at) /\ IdentOf(res.at) \in seen

(* A measured record names a design of `seen` and restores it from its     *)
(* diff; the design being measured is none of them.                        *)
OnceInv ==
    /\ \A i \in Replayed :
          /\ NameOf(i) \in seen
          /\ filed[i].diff \in Tree /\ filed[i].diff.clean
          /\ IdentOf(filed[i].diff) = NameOf(i)
          /\ records[i] \in Scores \union {"INFRA_FAILURE"}
          /\ pc \in Unmeasured => NameOf(i) # IdentOf(tree)
          /\ score # None => NameOf(i) # RecName
    /\ RecordsMeasureOnce

(* The parent has moved if the record to come says so, and only to the     *)
(* design it will name.                                                    *)
MovedInv ==
    /\ pc \in {"scored", "published"} => ~Moved
    /\ pc = "record" /\ score \in Admits => Moved
    /\ Moved => score \in Admits /\ parentTree = res.at

(* Every measured iteration has the record of its score: no raise fell     *)
(* between the two.                                                        *)
ScoresStand == \A i \in Replayed : records[i] \in Scores

(* The parent is a design that was measured, if it is not the baseline;    *)
(* and the last admission on disk, unless a raise took a record's place.   *)
ParentFiled ==
    /\ ParentDiff
    /\ ~Moved => \/ parentRtl = None
                 \/ \E i \in Replayed : NameOf(i) = <<parent, parentRtl>>
    /\ ~Moved /\ ScoresStand =>
          \A m \in ReplayedAdmissions :
             (\A k \in ReplayedAdmissions : k <= m) =>
                /\ parent = filed[m].cfg
                /\ parentRtl = filed[m].rtl
                /\ parentTree = filed[m].diff

(* The reference point is the first measurement on disk, or the running    *)
(* iteration's.                                                            *)
BaseInv ==
    /\ score # None => base # None
    /\ Replayed = {} /\ base # None => score # None /\ base = RecName
    /\ \A m \in Replayed : (\A k \in Replayed : m <= k) => base = NameOf(m)

(* A design is admitted by its record, or before a raise that overwrote    *)
(* it, or in the running iteration.                                        *)
AdmittedInv ==
    /\ \A d \in admitted :
          \/ \E i \in Replayed : /\ d = NameOf(i)
                                 /\ records[i] \in Admits \union {"INFRA_FAILURE"}
          \/ score \in Admits /\ d = RecName
    /\ score \in Admits => RecName \in admitted
    /\ \A i \in ReplayedAdmissions : NameOf(i) \in admitted

(* The records reconstruct_run reads about a design.                       *)
About(d) == {i \in Named \cap (Replayed \union FailedDesigns) : NameOf(i) = d}

Past(d) == {i \in About(d) : Over(i)}

(* The running iteration has told of its design, or is about to.           *)
Tells == /\ pc # "done"
         /\ score # None \/ (records[it] # None /\ HasDesign)

(* What a proposer is told about a design is what its last record says,    *)
(* but for a raise, a later repair out of scope under its name, or what    *)
(* the running iteration told.                                             *)
InfoInv ==
    /\ \A d \in Ident :
          seenInfo[d] # None =>
             \/ \E m \in Past(d) :
                   /\ \A k \in Past(d) : k <= m
                   /\ records[m] \in {seenInfo[d], "SCOPE_VIOLATION", "INFRA_FAILURE"}
             \/ \E i \in 1..Iters : Over(i) /\ Forgotten(i) /\ NameOf(i) = d
             \/ Tells /\ d = RecName
    /\ pc = "record" /\ Tells /\ RecName \in Ident => seenInfo[RecName] = Verdict

(* The history has no entry of a later iteration, and before the first     *)
(* death none of the running one but its measurement's or its failure's,   *)
(* which is there when only its record is left to be written.              *)
ToldInv ==
    /\ EveryDesignIsTold
    /\ \A n \in DOMAIN history :
          /\ history[n].it <= it
          /\ restarts = 0 /\ pc # "done" /\ history[n].it = it =>
                \/ score # None
                \/ records[it] # None /\ history[n].state = rec.cfg
    /\ pc = "record" /\ score = None /\ HasDesign =>
          \E n \in DOMAIN history : history[n].it = it /\ history[n].state = rec.cfg

ResumeInv ==
    /\ SearchTypeOK /\ DiskTypeOK
    /\ RoundInv /\ PassedInv /\ PublishedInv
    /\ pc # "aborted" => ScoreInv
    /\ WrittenInv /\ ScoredInv /\ OnceInv
    /\ MovedInv /\ ParentFiled /\ RestInv
    /\ BaseInv /\ AdmittedInv /\ InfoInv /\ ToldInv

-----------------------------------------------------------------------------
(***************************************************************************)
(* The first and the last of a set of iterations                           *)
(***************************************************************************)

LEMMA LeastNumber ==
    ASSUME NEW S, S \subseteq Nat, S # {}
    PROVE  \E m \in S : \A k \in S : m <= k
<1>1. \E m \in S : \A k \in S : <<k, m>> \notin OpToRel(<, Nat)
  BY NatLessThanWellFounded, WFMin
<1>2. \A m, k \in S : <<k, m>> \notin OpToRel(<, Nat) => m <= k
  BY DEF OpToRel
<1> QED
  BY <1>1, <1>2

LEMMA FirstOf ==
    ASSUME NEW S, S \subseteq 1..Iters, S # {}
    PROVE  Min(S) \in S /\ \A k \in S : Min(S) <= k
<1>1. S \subseteq Nat
  OBVIOUS
<1>2. \E m \in S : \A k \in S : m <= k
  BY <1>1, LeastNumber
<1> QED
  BY <1>2 DEF Min

LEMMA LastOf ==
    ASSUME NEW S, S \subseteq 1..Iters, S # {}
    PROVE  Max(S) \in S /\ \A k \in S : k <= Max(S)
<1> DEFINE T == {Iters - i : i \in S}
<1>1. Iters \in Nat /\ \A i \in S : i \in 1..Iters /\ i \in Nat /\ Iters - i \in Nat
  BY SearchAssumption
<1>2. T \subseteq Nat /\ T # {}
  BY <1>1
<1>3. \E m \in T : \A k \in T : m <= k
  <2> HIDE DEF T
  <2> QED
    BY <1>2, LeastNumber
<1>4. \E n \in S : \A k \in S : n >= k
  <2>1. PICK n \in S : \A k \in T : Iters - n <= k
    BY <1>3
  <2>2. \A k \in S : Iters - n <= Iters - k
    BY <2>1
  <2> QED
    BY <1>1, <2>2
<1>5. Max(S) \in S /\ \A k \in S : Max(S) >= k
  BY <1>4 DEF Max
<1> QED
  BY <1>1, <1>5

(* A nonempty set of iterations has one first and one last element.        *)
LEMMA OneLast ==
    ASSUME NEW S, S \subseteq 1..Iters, NEW m \in S, \A k \in S : k <= m
    PROVE  Max(S) = m
<1>1. Max(S) \in S /\ m <= Max(S) /\ Max(S) <= m
  BY LastOf
<1>2. Max(S) \in Nat /\ m \in Nat
  <2>1. S \subseteq Nat
    OBVIOUS
  <2> QED
    BY <1>1, <2>1
<1> QED
  BY <1>1, <1>2

LEMMA OneFirst ==
    ASSUME NEW S, S \subseteq 1..Iters, NEW m \in S, \A k \in S : m <= k
    PROVE  Min(S) = m
<1>1. Min(S) \in S /\ m <= Min(S) /\ Min(S) <= m
  BY FirstOf
<1>2. Min(S) \in Nat /\ m \in Nat
  <2>1. S \subseteq Nat
    OBVIOUS
  <2> QED
    BY <1>1, <2>1
<1> QED
  BY <1>1, <1>2

-----------------------------------------------------------------------------
(***************************************************************************)
(* Sorting by iteration                                                    *)
(***************************************************************************)

LEMMA IntervalSize ==
    ASSUME NEW n \in Nat
    PROVE  IsFiniteSet(1..n) /\ Cardinality(1..n) = n
<1>1. 1 \in Int /\ n \in Int
  OBVIOUS
<1>2. IsFiniteSet(1..n) /\ Cardinality(1..n) = IF 1 > n THEN 0 ELSE n - 1 + 1
  BY <1>1, FS_Interval
<1> QED
  BY <1>2

LEMMA DomainSize ==
    ASSUME NEW h \in Seq(Entry)
    PROVE  IsFiniteSet(DOMAIN h) /\ Cardinality(DOMAIN h) = Len(h)
<1>1. DOMAIN h = 1..Len(h) /\ Len(h) \in Nat
  BY LenProperties
<1> DEFINE l == Len(h)
<1>2. IsFiniteSet(1..l) /\ Cardinality(1..l) = l
  <2>1. l \in Nat
    BY <1>1
  <2> HIDE DEF l
  <2> QED
    BY <2>1, IntervalSize
<1> QED
  BY <1>1, <1>2

(* A finite set, put in some order, is all there.                          *)
LEMMA SetToSeqProperties ==
    ASSUME NEW S, IsFiniteSet(S)
    PROVE  /\ SetToSeq(S) \in Seq(S)
           /\ \A x \in S : \E k \in DOMAIN SetToSeq(S) : SetToSeq(S)[k] = x
<1> DEFINE n == Cardinality(S)
<1>1. n \in Nat /\ ExistsBijection(1..n, S)
  BY FS_CardinalityType
<1>2. \E f \in [1..n -> S] : IsInjective(f)
  BY <1>1 DEF ExistsBijection, Bijection, Injection
<1>3. SetToSeq(S) \in [1..n -> S] /\ IsInjective(SetToSeq(S))
  BY <1>2 DEF SetToSeq
<1>4. SetToSeq(S) \in Injection(1..n, S)
  BY <1>3 DEF Injection
<1>5. Cardinality(1..n) = n
  BY <1>1, IntervalSize
<1>6. SetToSeq(S) \in Surjection(1..n, S)
  <2> HIDE DEF n
  <2> QED
    BY <1>4, <1>5, FS_Injection DEF n
<1> QED
  BY <1>1, <1>3, <1>6 DEF Surjection

(* Positions are a permutation: an entry stands before every entry of a    *)
(* later iteration and every later entry of its own.                       *)
LEMMA PositionType ==
    ASSUME NEW h \in Seq(Entry), NEW k \in DOMAIN h
    PROVE  Position(h, k) \in DOMAIN h
<1> DEFINE before(j) == {m \in DOMAIN h : \/ h[m].it < h[j].it
                                          \/ h[m].it = h[j].it /\ m <= j}
<1>1. DOMAIN h = 1..Len(h) /\ Len(h) \in Nat
  BY LenProperties
<1>2. IsFiniteSet(DOMAIN h) /\ Cardinality(DOMAIN h) = Len(h)
  BY DomainSize
<1>3. before(k) \in SUBSET (DOMAIN h) /\ k \in before(k)
  BY <1>1
<1>4. IsFiniteSet(before(k)) /\ Cardinality(before(k)) <= Len(h)
  BY <1>2, <1>3, FS_Subset
<1>5. Cardinality(before(k)) \in Nat /\ Cardinality(before(k)) # 0
  <2> HIDE DEF before
  <2> QED
    BY <1>3, <1>4, FS_CardinalityType, FS_EmptySet
<1> QED
  BY <1>1, <1>4, <1>5 DEF Position

LEMMA PositionsDiffer ==
    ASSUME NEW h \in Seq(Entry), NEW j \in DOMAIN h, NEW k \in DOMAIN h,
           \/ h[j].it < h[k].it
           \/ h[j].it = h[k].it /\ j < k
    PROVE  Position(h, j) < Position(h, k)
<1> DEFINE before(i) == {m \in DOMAIN h : \/ h[m].it < h[i].it
                                          \/ h[m].it = h[i].it /\ m <= i}
<1>1. DOMAIN h = 1..Len(h) /\ Len(h) \in Nat /\ \A n \in DOMAIN h : h[n].it \in Nat
  BY LenProperties, HistoryEntries
<1>2. before(j) \in SUBSET before(k)
  BY <1>1
<1>3. k \in before(k) /\ k \notin before(j)
  BY <1>1
<1>4. IsFiniteSet(DOMAIN h)
  BY DomainSize
<1>5. IsFiniteSet(before(k))
  BY <1>4, FS_Subset
<1>6. /\ Cardinality(before(j)) \in Nat /\ Cardinality(before(k)) \in Nat
      /\ Cardinality(before(j)) <= Cardinality(before(k))
      /\ Cardinality(before(k)) = Cardinality(before(j)) => before(k) = before(j)
  <2> HIDE DEF before
  <2> QED
    BY <1>2, <1>5, FS_Subset, FS_CardinalityType
<1>7. before(j) # before(k)
  BY <1>3
<1>8. Cardinality(before(j)) < Cardinality(before(k))
  BY <1>6, <1>7
<1> QED
  BY <1>8 DEF Position

LEMMA OnePerPosition ==
    ASSUME NEW h \in Seq(Entry), NEW j \in DOMAIN h, NEW k \in DOMAIN h,
           Position(h, j) = Position(h, k)
    PROVE  j = k
<1>1. /\ Position(h, j) \in Nat /\ h[j].it \in Nat /\ h[k].it \in Nat
      /\ j \in Nat /\ k \in Nat
  BY LenProperties, HistoryEntries, PositionType
<1>2. ~(h[j].it < h[k].it) /\ ~(h[k].it < h[j].it)
  BY <1>1, PositionsDiffer
<1>3. ~(j < k) /\ ~(k < j)
  BY <1>1, <1>2, PositionsDiffer
<1> QED
  BY <1>1, <1>3

LEMMA EveryPositionIsTaken ==
    ASSUME NEW h \in Seq(Entry), NEW n \in DOMAIN h
    PROVE  \E k \in DOMAIN h : Position(h, k) = n
<1> DEFINE pos == [k \in DOMAIN h |-> Position(h, k)]
<1>1. DOMAIN h = 1..Len(h) /\ Len(h) \in Nat /\ \A m \in DOMAIN h : h[m].it \in Nat
  BY LenProperties, HistoryEntries
<1>2. pos \in [DOMAIN h -> DOMAIN h]
  BY PositionType
<1>3. IsFiniteSet(DOMAIN h)
  BY DomainSize
<1>4. pos \in Injection(DOMAIN h, DOMAIN h)
  BY <1>2, OnePerPosition DEF Injection, IsInjective
<1>5. pos \in Surjection(DOMAIN h, DOMAIN h)
  <2> HIDE DEF pos
  <2> QED
    BY <1>3, <1>4, FS_Injection
<1> QED
  BY <1>5 DEF Surjection

(* A sorted history has the entries it had before and no other.            *)
LEMMA SortingKeepsEntries ==
    ASSUME NEW h \in Seq(Entry)
    PROVE  /\ ByIteration(h) \in Seq(Entry)
           /\ DOMAIN ByIteration(h) = DOMAIN h
           /\ \A n \in DOMAIN h : \E k \in DOMAIN h : ByIteration(h)[k] = h[n]
           /\ \A k \in DOMAIN h : \E n \in DOMAIN h : ByIteration(h)[k] = h[n]
<1> DEFINE at(n) == CHOOSE k \in DOMAIN h : Position(h, k) = n
<1>1. DOMAIN h = 1..Len(h) /\ Len(h) \in Nat /\ \A m \in DOMAIN h : h[m] \in Entry
  BY LenProperties, HistoryEntries
<1>2. \A n \in DOMAIN h : at(n) \in DOMAIN h /\ Position(h, at(n)) = n
  BY EveryPositionIsTaken
<1>3. \A n \in DOMAIN h : at(Position(h, n)) = n
  <2> TAKE n \in DOMAIN h
  <2>1. Position(h, n) \in DOMAIN h
    BY PositionType
  <2>2. at(Position(h, n)) \in DOMAIN h /\ Position(h, at(Position(h, n))) = Position(h, n)
    BY <1>2, <2>1
  <2> HIDE DEF at
  <2> QED
    BY <2>2, OnePerPosition
<1>4. \A n \in DOMAIN h : ByIteration(h)[n] = h[at(n)]
  BY DEF ByIteration
<1>5. DOMAIN ByIteration(h) = DOMAIN h
  BY DEF ByIteration
<1>6. ByIteration(h) \in Seq(Entry)
  BY <1>1, <1>2 DEF ByIteration
<1> HIDE DEF at
<1> QED
  BY <1>2, <1>3, <1>4, <1>5, <1>6, PositionType

-----------------------------------------------------------------------------
(***************************************************************************)
(* What a step of the run leaves on disk                                   *)
(***************************************************************************)

(* The part of the invariant the run's own steps keep without looking at   *)
(* the disk.                                                               *)
LoopInv == SearchTypeOK /\ RoundInv /\ PassedInv /\ ScoreInv /\ PublishedInv

(* A record and its file change together, and only in the running          *)
(* iteration.                                                              *)
LEMMA StepFiles ==
    ASSUME SearchTypeOK, DiskTypeOK, Next, FilesRecords
    PROVE  /\ pc # "done" /\ it \in 1..Iters
           /\ filed' \in [1..Iters -> File]
           /\ \A i \in 1..Iters : i # it => records'[i] = records[i] /\ filed'[i] = filed[i]
           /\ records'[it] = records[it] => filed'[it] = filed[it]
           /\ records'[it] # records[it] => filed'[it] = Filing
<1>1. pc # "done" /\ it \in 1..Iters
  BY NextSorts, WithinLeaves, EndsLeave DEF SearchTypeOK
<1>2. \A i \in 1..Iters : i # it => records'[i] = records[i]
  BY NextSorts, WithinLeaves, EndsLeave
<1>3. Filing \in File
  BY DEF Filing, File, SearchTypeOK, IterationTypeOK, OutcomeSet, RecordType
<1>4. filed' \in [1..Iters -> File]
  BY <1>3 DEF FilesRecords, DiskTypeOK
<1>5. \A i \in 1..Iters :
         filed'[i] = IF records'[i] # records[i] THEN Filing ELSE filed[i]
  BY DEF FilesRecords
<1> QED
  BY <1>1, <1>2, <1>4, <1>5 DEF DiskTypeOK

(* The run's own steps leave an aborted run alone.                         *)
LEMMA StepsGoOn ==
    ASSUME SearchTypeOK, Next
    PROVE  pc # "aborted"
<1>1. ~Begins \/ pc # "aborted"
  BY BeginLeaves
<1>2. ~Evaluate \/ pc # "aborted"
  BY EvaluateLeaves DEF SearchTypeOK, InRounds, Gates
<1>3. ~Ends \/ pc # "aborted"
  BY EndsLeave
<1> QED
  BY <1>1, <1>2, <1>3, StepsOfARun
     DEF AbortRun, RecordFailure, RememberFailure, ScorePoint, Publish, AdoptParent,
         RollBackRejected, EndingRaises

(* What is left of an ending once the ladder has returned, but for the     *)
(* step that scores and the one that ends.                                 *)
Concludes == RememberFailure \/ Publish \/ AdoptParent \/ RollBackRejected \/ EndingRaises

LEMMA ConcludeLeaves ==
    ASSUME Concludes
    PROVE  /\ pc \in {"passed", "scored", "published", "remember", "record"}
           /\ pc' \in {"published", "record", "raised"}
           /\ UNCHANGED <<it, ladderVars, repairVars, score, base, admitted, records, seen>>
BY DEF Concludes, RememberFailure, Publish, AdoptParent, RollBackRejected, EndingRaises,
       endVars, givenVars, builtVars

LEMMA StepsSort ==
    Next <=> \/ Begins \/ Evaluate \/ AbortRun \/ RecordFailure \/ ScorePoint
             \/ Concludes \/ Ends
BY StepsOfARun DEF Concludes

(* Only a step that has a score, or makes it, leaves one behind.           *)
LEMMA StepsWithScore ==
    ASSUME SearchTypeOK, ScoredInv, Next, score' # None
    PROVE  /\ UNCHANGED <<it, rec, records>> /\ seen \subseteq seen'
           /\ \/ /\ ScorePoint /\ pc = "passed" /\ score = None /\ pc' = "scored"
                 /\ UNCHANGED <<tree, res>>
              \/ /\ Concludes
                 /\ UNCHANGED <<score, base, admitted, res>> /\ score # None
                 /\ pc' \in {"published", "record", "raised"}
<1>1. ~Begins
  BY BeginLeaves DEF ScoredInv, endVars
<1>2. ~Evaluate
  BY EvaluateLeaves DEF SearchTypeOK, ScoredInv, InRounds, Gates, endVars
<1>3. ~Ends
  BY EndsLeave, EndingMovesOn, ResetType
<1>4. ~AbortRun /\ ~RecordFailure
  BY DEF AbortRun, RecordFailure, ScoredInv, endVars
<1>5. CASE ScorePoint
  BY <1>5 DEF ScorePoint, ScoredInv, ladderVars, builtVars, givenVars
<1>6. CASE Concludes
  BY <1>6, ConcludeLeaves DEF ladderVars
<1> QED
  BY <1>1, <1>2, <1>3, <1>4, <1>5, <1>6, StepsSort

(* A score stays until the iteration ends.                                 *)
LEMMA StepsFromScore ==
    ASSUME SearchTypeOK, ScoredInv, Next, score # None, ~Ends
    PROVE  /\ Concludes
           /\ UNCHANGED <<it, rec, res, score, base, admitted, records>>
<1>1. ~Begins
  BY BeginLeaves DEF ScoredInv
<1>2. ~Evaluate
  BY EvaluateLeaves DEF SearchTypeOK, ScoredInv, InRounds, Gates
<1>3. ~AbortRun /\ ~RecordFailure /\ ~ScorePoint
  BY DEF AbortRun, RecordFailure, ScorePoint, ScoredInv
<1> QED
  BY <1>1, <1>2, <1>3, StepsSort, ConcludeLeaves DEF ladderVars

(* A measurement reaches the disk at the end of the iteration that scored  *)
(* it; no step touches one that is there.                                  *)
LEMMA StepReplays ==
    ASSUME LoopInv, DiskTypeOK, WrittenInv, ScoredInv, Next, FilesRecords
    PROVE  /\ \A i \in Replayed : i \in 1..Iters /\ i < it
           /\ \A i \in Replayed : records'[i] = records[i] /\ filed'[i] = filed[i]
           /\ Ends /\ score # None =>
                 /\ Replayed' = Replayed \union {it}
                 /\ filed'[it] = Filing
                 /\ records'[it] \in {score, "INFRA_FAILURE"}
           /\ ~(Ends /\ score # None) => Replayed' = Replayed
<1> USE DEF LoopInv
<1>1. /\ pc # "done" /\ it \in 1..Iters
      /\ \A i \in 1..Iters : i # it => records'[i] = records[i] /\ filed'[i] = filed[i]
      /\ records'[it] = records[it] => filed'[it] = filed[it]
      /\ records'[it] # records[it] => filed'[it] = Filing
  BY StepFiles
<1>2. \A i \in Replayed : i \in 1..Iters /\ i < it /\ i # it
  BY <1>1, SearchAssumption DEF WrittenInv, Replayed, Written, Over
<1>3. CASE Ends /\ score # None
  <2>1. records[it] = None
    BY <1>3 DEF ScoredInv
  <2>2. records'[it] \in RunVerdict /\ records'[it] \in {score, "INFRA_FAILURE"}
    BY <1>3, EndsWrite DEF Ends, Verdict
  <2>3. filed'[it] = Filing /\ records'[it] # None /\ Filing.scored
    BY <1>1, <1>3, <2>1, <2>2, NoVerdictAssumption DEF Filing
  <2> QED
    BY <1>1, <1>2, <1>3, <2>2, <2>3 DEF Replayed, Written
<1>4. CASE ~(Ends /\ score # None)
  <2>1. records'[it] # records[it] => score = None
    <3>1. CASE Ends
      BY <1>4, <3>1
    <3>2. CASE RecordFailure
      BY <3>2 DEF RecordFailure, ScoredInv
    <3>3. CASE ~Ends /\ ~RecordFailure
      BY <3>3, StepsSort, BeginLeaves, EvaluateLeaves, ConcludeLeaves
         DEF AbortRun, ScorePoint, SearchTypeOK, endVars
    <3> QED
      BY <3>1, <3>2, <3>3
  <2>2. records'[it] # records[it] => ~filed'[it].scored
    <3>1. score = None => ~Filing.scored
      BY DEF Filing
    <3> QED
      BY <1>1, <2>1, <3>1
  <2>3. it \notin Replayed' /\ it \notin Replayed
    BY <1>1, <1>2, <2>2 DEF Replayed, Written
  <2> QED
    BY <1>1, <1>2, <1>4, <2>3 DEF Replayed, Written
<1> QED
  BY <1>1, <1>2, <1>3, <1>4

-----------------------------------------------------------------------------
(***************************************************************************)
(* The run's own steps                                                     *)
(***************************************************************************)

LEMMA WithinKeepsWritten ==
    ASSUME LoopInv, DiskTypeOK, WrittenInv, ScoredInv, Next, FilesRecords, Within
    PROVE  WrittenInv'
<1> USE DEF LoopInv
<1>1. /\ pc # "done" /\ it \in 1..Iters
      /\ \A i \in 1..Iters : i # it => records'[i] = records[i]
      /\ records'[it] # records[it] => filed'[it] = Filing
      /\ records'[it] = records[it] => filed'[it] = filed[it]
  BY StepFiles
<1>2. pc' \notin Resting /\ UNCHANGED it
  BY WithinLeaves
<1>3. \A i \in 1..Iters : /\ i < it' => records'[i] # None
                          /\ i > it' => records'[i] = None
  BY <1>1, <1>2, SearchAssumption DEF WrittenInv
<1>4. records'[it] # None =>
         /\ pc' \in {"remember", "record", "raised", "aborted", "done"}
         /\ filed'[it].cfg = rec'.cfg /\ filed'[it].rtl = rec'.rtl
  <2>1. CASE RecordFailure
    <3>1. pc = "failed" /\ pc' \in {"remember", "raised"} /\ rec' = rec
      BY <2>1 DEF RecordFailure, ladderVars
    <3>2. records[it] = None
      BY <3>1 DEF WrittenInv
    <3> QED
      BY <1>1, <3>1, <3>2 DEF Filing
  <2>2. CASE Concludes
    <3>1. records' = records /\ rec' = rec /\ pc \notin {"done"}
          /\ pc' \in {"published", "record", "raised"}
      BY <2>2, ConcludeLeaves DEF ladderVars
    <3>2. pc' = "published" => records[it] = None
      BY <2>2 DEF Concludes, RememberFailure, Publish, AdoptParent, RollBackRejected,
         EndingRaises, WrittenInv
    <3> QED
      BY <1>1, <3>1, <3>2 DEF WrittenInv, NameOf, RecName
  <2>3. CASE Begins \/ Evaluate \/ AbortRun \/ ScorePoint
    <3>1. records' = records
      BY <2>3, BeginLeaves, EvaluateLeaves DEF AbortRun, ScorePoint, SearchTypeOK, endVars
    <3>2. pc \notin {"remember", "record", "raised", "aborted", "done"}
      BY <2>3, BeginLeaves, EvaluateLeaves
         DEF AbortRun, ScorePoint, SearchTypeOK, InRounds, Gates
    <3> QED
      BY <3>1, <3>2 DEF WrittenInv
  <2>4. ~Ends \/ Concludes
    BY <1>2, EndsLeave, EndingMovesOn
  <2> QED
    BY <2>1, <2>2, <2>3, <2>4, StepsSort
<1>5. FailureFiled'
  BY StepKeepsFiled DEF WrittenInv
<1>6. \A i \in Replayed' : Over(i)'
  <2>1. Replayed' = Replayed
    BY <1>2, StepReplays, EndsLeave, EndingMovesOn
  <2> QED
    BY <2>1, OverWithin DEF WrittenInv, Replayed, Written
<1>7. pc' # "done"
  BY <1>2 DEF Resting
<1>8. records'[it'] # None => NameOf(it)' = RecName'
  BY <1>2, <1>4 DEF NameOf, RecName
<1> QED
  BY <1>2, <1>3, <1>4, <1>5, <1>6, <1>7, <1>8 DEF WrittenInv

LEMMA EndsKeepWritten ==
    ASSUME LoopInv, DiskTypeOK, WrittenInv, ScoredInv, Next, FilesRecords, Ends
    PROVE  WrittenInv'
<1> USE DEF LoopInv
<1>1. /\ pc # "done" /\ it \in 1..Iters /\ Iters \in Nat
      /\ \A i \in 1..Iters : i # it => records'[i] = records[i]
  BY StepFiles, SearchAssumption
<1>2. /\ EndIteration /\ pc' \in Resting
      /\ pc' = "start" => it' = it + 1
      /\ pc' = "done" => it' = it /\ it = Iters
  BY EndsLeave, EndingMovesOn
<1>3. records'[it] # None
  BY EndsWrite, NoVerdictAssumption
<1>4. \A i \in 1..Iters : /\ i < it' => records'[i] # None
                          /\ i > it' => records'[i] = None
  BY <1>1, <1>2, <1>3 DEF WrittenInv, Resting
<1>5. /\ pc' = "done" => it' = Iters /\ records'[it'] # None
      /\ pc' = "start" => records'[it'] = None
  <2>1. it' \in 1..Iters
    BY <1>2, EndingMovesOn
  <2> QED
    BY <1>1, <1>2, <1>3, <2>1 DEF WrittenInv
<1>6. \A i \in Replayed' : Over(i)'
  <2>1. \A i \in Replayed' : i \in 1..Iters /\ i <= it
    BY <1>1, StepReplays
  <2> QED
    BY <1>1, <1>2, <2>1, OverAtEnd
<1> QED
  BY <1>2, <1>4, <1>5, <1>6 DEF WrittenInv, FailureFiled, Resting

LEMMA StepKeepsScored ==
    ASSUME LoopInv, WrittenInv, ScoredInv, Next
    PROVE  ScoredInv'
<1> USE DEF LoopInv
<1> SUFFICES ASSUME score' # None
             PROVE  /\ pc' \in {"scored", "published", "record", "raised", "aborted"}
                    /\ records'[it'] = None
                    /\ res'.at.clean /\ RecName' = IdentOf(res'.at)
                    /\ IdentOf(res'.at) \in seen'
  BY DEF ScoredInv, IdentOf
<1>1. UNCHANGED <<it, rec, records>> /\ seen \subseteq seen'
  BY StepsWithScore
<1>2. CASE ScorePoint
  <2>1. PassIsAdmissible /\ pc = "passed" /\ pc' = "scored"
    BY <1>2, LadderMeansAdmissible DEF ScorePoint, RoundInv, InRounds, SearchTypeOK
  <2>2. records[it] = None
    BY <2>1 DEF WrittenInv
  <2>3. res.at = tree /\ res' = res
    BY <1>2, <2>1 DEF PassedInv, HasPassed, ScorePoint, ladderVars
  <2> QED
    BY <1>1, <2>1, <2>2, <2>3 DEF PassIsAdmissible, RecName, IdentOf
<1>3. CASE ~ScorePoint
  <2>1. score # None /\ pc' \in {"published", "record", "raised"} /\ res' = res
    BY <1>3, StepsWithScore
  <2> QED
    BY <1>1, <2>1 DEF ScoredInv, RecName, IdentOf
<1> QED
  BY <1>2, <1>3

(* A measurement that reaches the disk is none that is there.              *)
LEMMA StepKeepsOnce ==
    ASSUME LoopInv, DiskTypeOK, WrittenInv, ScoredInv, OnceInv, Next, FilesRecords
    PROVE  OnceInv'
<1> USE DEF LoopInv
<1>1. seen \subseteq seen'
  BY NextSorts, WithinLeaves, EndsLeave DEF builtVars
<1>2. ASSUME NEW i \in Replayed
      PROVE  /\ i \in Replayed' /\ records'[i] = records[i] /\ filed'[i] = filed[i]
             /\ NameOf(i)' = NameOf(i)
             /\ NameOf(i)' \in seen'
             /\ filed'[i].diff \in Tree /\ filed'[i].diff.clean
             /\ IdentOf(filed[i].diff)' = NameOf(i)'
             /\ records'[i] \in Scores \union {"INFRA_FAILURE"}
             /\ pc' \in Unmeasured => NameOf(i)' # IdentOf(tree)'
             /\ score' # None => NameOf(i)' # RecName'
  <2>1. i \in Replayed' /\ records'[i] = records[i] /\ filed'[i] = filed[i]
    BY StepReplays
  <2>2. NameOf(i)' = NameOf(i)
    BY <2>1 DEF NameOf
  <2>3. pc' \in Unmeasured => NameOf(i) # IdentOf(tree)'
    <3>1. pc' \in Unmeasured => UNCHANGED tree /\ (pc \in Unmeasured \/ IdentOf(tree) \notin seen)
      BY StepsToUnmeasured
    <3> QED
      BY <3>1 DEF OnceInv, IdentOf
  <2>4. score' # None => NameOf(i) # RecName'
    <3>1. CASE ScorePoint
      <4>1. PassIsAdmissible /\ pc = "passed" /\ pc \in Unmeasured
        BY <3>1, LadderMeansAdmissible
           DEF ScorePoint, RoundInv, InRounds, SearchTypeOK, Unmeasured, PastIdentity,
               PastLegality, PastScope
      <4>2. RecName' = RecName /\ RecName = IdentOf(tree)
        BY <3>1, <4>1 DEF ScorePoint, ladderVars, PassIsAdmissible, RecName
      <4> QED
        BY <4>1, <4>2 DEF OnceInv
    <3>2. CASE ~ScorePoint
      BY <3>2, StepsWithScore DEF OnceInv, RecName
    <3> QED
      BY <3>1, <3>2
  <2> QED
    BY <1>1, <2>1, <2>2, <2>3, <2>4 DEF OnceInv, IdentOf
<1>3. CASE ~(Ends /\ score # None)
  <2>1. Replayed' = Replayed
    BY <1>3, StepReplays
  <2> QED
    BY <1>2, <2>1 DEF OnceInv, RecordsMeasureOnce
<1>4. CASE Ends /\ score # None
  <2>1. /\ Replayed' = Replayed \union {it} /\ filed'[it] = Filing
        /\ records'[it] \in {score, "INFRA_FAILURE"}
    BY <1>4, StepReplays
  <2>2. /\ res.at \in Tree /\ res.at.clean /\ RecName = IdentOf(res.at)
        /\ IdentOf(res.at) \in seen /\ score \in Scores
    BY <1>4 DEF ScoredInv, SearchTypeOK, IterationTypeOK, OutcomeSet
  <2>3. pc' \notin Unmeasured /\ score' = None
    BY <1>4, EndsLeave, EndingMovesOn, ResetType
       DEF Resting, Unmeasured, PastIdentity, PastLegality, PastScope
  <2>4. /\ \A j \in {it} : NameOf(j)' = RecName
        /\ filed'[it].diff = res.at
    BY <1>4, <2>1 DEF NameOf, RecName, Filing
  <2>5. \A i \in Replayed : NameOf(i)' # RecName
    BY <1>2, <1>4 DEF OnceInv
  <2>6. RecordsMeasureOnce'
    BY <1>2, <2>1, <2>4, <2>5 DEF RecordsMeasureOnce, OnceInv
  <2>7. \A i \in Replayed' : i \in Replayed \/ i \in {it}
    BY <2>1
  <2>8. \A j \in {it} :
           /\ NameOf(j)' \in seen'
           /\ filed'[j].diff \in Tree /\ filed'[j].diff.clean
           /\ IdentOf(filed[j].diff)' = NameOf(j)'
           /\ records'[j] \in Scores \union {"INFRA_FAILURE"}
    BY <1>1, <2>1, <2>2, <2>4 DEF IdentOf
  <2> QED
    BY <1>2, <2>3, <2>6, <2>7, <2>8 DEF OnceInv
<1> QED
  BY <1>3, <1>4

(* N60 makes the score of the design the record names.                     *)
LEMMA ScorePointMakes ==
    ASSUME LoopInv, ScoredInv, ScorePoint
    PROVE  /\ score = None /\ score' \in Scores
           /\ RecName' = IdentOf(tree) /\ IdentOf(res'.at) = IdentOf(tree)
           /\ base # None => base' = base
           /\ base = None => base' = IdentOf(tree)
           /\ base' # None
           /\ admitted' = IF score' \in Admits
                          THEN admitted \union {IdentOf(tree)} ELSE admitted
<1> USE DEF LoopInv
<1>1. PassIsAdmissible /\ pc = "passed"
  BY LadderMeansAdmissible DEF ScorePoint, RoundInv, InRounds, SearchTypeOK
<1>2. RecName' = RecName /\ RecName = IdentOf(tree) /\ res' = res /\ res.at = tree
  BY <1>1 DEF ScorePoint, ladderVars, PassIsAdmissible, RecName, PassedInv, HasPassed
<1>3. IdentOf(tree) # None
  BY IdentOfType, NoneAssumption DEF SearchTypeOK, IterationTypeOK
<1> QED
  BY <1>1, <1>2, <1>3 DEF ScorePoint, ScoredInv, Scores, Admits

(* What the end of an iteration with a score puts on disk.                 *)
LEMMA ScoredFiles ==
    ASSUME LoopInv, DiskTypeOK, WrittenInv, ScoredInv, Next, FilesRecords,
           Ends, score # None
    PROVE  /\ it \in Replayed' /\ Replayed' = Replayed \union {it}
           /\ \A i \in Replayed : i < it
           /\ \A j \in {it} : NameOf(j)' = RecName
           /\ RecName = IdentOf(res.at)
           /\ filed'[it].cfg = res.at.cfg /\ filed'[it].rtl = res.at.rtl
           /\ filed'[it].diff = res.at
           /\ records'[it] \in {score, "INFRA_FAILURE"}
           /\ records'[it] = score => pc = "record"
           /\ UNCHANGED <<base, admitted, parent, parentRtl, parentTree>>
<1>1. /\ Replayed' = Replayed \union {it} /\ filed'[it] = Filing
      /\ records'[it] \in {score, "INFRA_FAILURE"}
      /\ \A i \in Replayed : i < it
  BY StepReplays
<1>2. RecName = IdentOf(res.at)
  BY DEF ScoredInv
<1>3. records'[it] = score => pc = "record"
  BY EndsWrite, VerdictsAreApart DEF LoopInv, Ends, SearchTypeOK
<1> QED
  BY <1>1, <1>2, <1>3, EndsLeave DEF LoopInv, Filing, NameOf, RecName, IdentOf

LEMMA OthersKeepParent ==
    ASSUME SearchTypeOK, Next, ~AdoptParent
    PROVE  UNCHANGED <<parent, parentRtl, parentTree>>
BY NextSorts, InsideLeaves, PublishLeaves, RememberLeaves, EndsLeave DEF Within

(* The parent has moved until the end of the iteration that moved it.      *)
LEMMA StepMoves ==
    ASSUME SearchTypeOK, ScoredInv, Next, ~AdoptParent
    PROVE  /\ Moved' => Moved \/ ScorePoint
           /\ Moved => Ends \/ Moved'
           /\ Moved /\ ~Ends => UNCHANGED <<score, res, parentTree>>
<1>1. UNCHANGED <<parent, parentRtl, parentTree>>
  BY OthersKeepParent
<1>2. CASE ~Moved
  <2>1. Moved' /\ ~ScorePoint => score # None /\ UNCHANGED <<score, res>>
    BY StepsWithScore DEF Moved
  <2> QED
    BY <1>1, <1>2, <2>1 DEF Moved, IdentOf
<1>3. CASE Moved
  BY <1>1, <1>3, StepsFromScore DEF Moved, IdentOf
<1> QED
  BY <1>2, <1>3

(* A design that was not measured before is not the parent.                *)
LEMMA NewIsNoParent ==
    ASSUME LoopInv, ScoredInv, OnceInv, ParentFiled, ScorePoint
    PROVE  ~Moved /\ ~Moved'
<1> USE DEF LoopInv
<1>1. ~Moved /\ IdentOf(res'.at) = IdentOf(tree)
  BY ScorePointMakes DEF Moved
<1>2. pc \in Unmeasured /\ UNCHANGED <<parent, parentRtl>>
  BY DEF ScorePoint, Unmeasured, PastIdentity, PastLegality, PastScope, givenVars
<1>3. tree.rtl \in Rtl /\ tree.rtl # None
  BY NoneAssumption DEF SearchTypeOK, IterationTypeOK, Tree
<1>4. IdentOf(tree) # <<parent, parentRtl>>
  <2>1. parentRtl = None => IdentOf(tree) # <<parent, parentRtl>>
    BY <1>3 DEF IdentOf
  <2> QED
    BY <1>1, <1>2, <2>1 DEF ParentFiled, OnceInv
<1> QED
  BY <1>1, <1>2, <1>4 DEF Moved, IdentOf

LEMMA StepKeepsMoved ==
    ASSUME LoopInv, ScoreInv', ScoredInv, OnceInv, MovedInv, ParentFiled, Next
    PROVE  MovedInv'
<1> USE DEF LoopInv
<1>1. CASE AdoptParent
  <2>1. /\ pc = "published" /\ pc' = "record" /\ score \in Admits
        /\ parent' = tree.cfg /\ parentRtl' = tree.rtl /\ parentTree' = tree
        /\ UNCHANGED <<score, res>>
    BY <1>1, AdoptLeaves
  <2>2. res.at = tree /\ score # None
    BY <2>1, VerdictsAreApart DEF PassedInv, HasPassed
  <2> QED
    BY <2>1, <2>2 DEF MovedInv, Moved, IdentOf
<1>2. CASE ScorePoint
  <2>1. pc' = "scored" /\ ~Moved'
    BY <1>2, NewIsNoParent DEF ScorePoint
  <2> QED
    BY <2>1 DEF MovedInv
<1>3. CASE Ends
  <2>1. score' = None /\ pc' \in Resting /\ None \notin Admits
    BY <1>3, EndsLeave, EndingMovesOn, ResetType, VerdictsAreApart
  <2> QED
    BY <2>1 DEF MovedInv, Moved, Resting
<1>4. CASE ~AdoptParent /\ ~ScorePoint /\ ~Ends
  <2>1. /\ Moved' => Moved /\ UNCHANGED <<score, res, parentTree>>
        /\ Moved => Moved'
    BY <1>4, StepMoves
  <2>2. pc' \in {"scored", "published"} => ~Moved
    <3>1. pc' \in {"scored", "published"} => pc = "scored"
      BY <1>4, StepsToAScore DEF HasPassed
    <3> QED
      BY <3>1 DEF MovedInv
  <2>3. pc' = "record" /\ score' \in Admits => Moved
    <3>1. score' \in Admits => score' # None
      BY VerdictsAreApart
    <3>2. pc' = "record" /\ score' # None => Concludes /\ score' = score /\ score # None
      BY <1>4, StepsWithScore
    <3>3. Concludes /\ pc' = "record" /\ score # None => score \notin Admits
      BY <1>4
         DEF Concludes, RememberFailure, Publish, RollBackRejected, EndingRaises, ScoredInv
    <3> QED
      BY <3>1, <3>2, <3>3
  <2> QED
    BY <2>1, <2>2, <2>3 DEF MovedInv
<1> QED
  BY <1>1, <1>2, <1>3, <1>4

LEMMA StepKeepsParentFiled ==
    ASSUME LoopInv, DiskTypeOK, WrittenInv, ScoredInv, OnceInv, MovedInv, ParentFiled,
           Next, FilesRecords
    PROVE  ParentFiled'
<1> USE DEF LoopInv
<1>1. \A i \in Replayed : /\ records'[i] = records[i] /\ filed'[i] = filed[i]
                          /\ NameOf(i)' = NameOf(i) /\ i \in Replayed'
  BY StepReplays DEF NameOf
<1>2. CASE AdoptParent
  <2>1. /\ pc = "published" /\ score \in Admits /\ UNCHANGED <<score, res>>
        /\ parent' = tree.cfg /\ parentRtl' = tree.rtl /\ parentTree' = tree
    BY <1>2, AdoptLeaves
  <2>2. res.at = tree /\ score # None /\ tree.clean
    BY <2>1, VerdictsAreApart DEF PassedInv, HasPassed
  <2>3. Moved'
    BY <2>1, <2>2 DEF Moved, IdentOf
  <2> QED
    BY <2>1, <2>2, <2>3 DEF ParentFiled, ParentDiff
<1>3. CASE ~AdoptParent
  <2>1. UNCHANGED <<parent, parentRtl, parentTree>>
    BY <1>3, OthersKeepParent
  <2>2. CASE Ends /\ score # None
    <3>1. /\ Replayed' = Replayed \union {it}
          /\ \A j \in {it} : j \in Replayed' /\ NameOf(j)' = RecName
          /\ RecName = IdentOf(res.at)
          /\ filed'[it].cfg = res.at.cfg /\ filed'[it].rtl = res.at.rtl
          /\ filed'[it].diff = res.at
          /\ records'[it] \in {score, "INFRA_FAILURE"}
          /\ records'[it] = score => pc = "record"
          /\ \A i \in Replayed : i \in Nat /\ it \in Nat /\ i < it
      BY <2>2, ScoredFiles, SearchAssumption DEF Replayed, Written, SearchTypeOK
    <3>2. \/ parentRtl' = None
          \/ \E i \in Replayed' : NameOf(i)' = <<parent', parentRtl'>>
      <4>1. CASE Moved
        <5>1. \A j \in {it} : NameOf(j)' = <<parent, parentRtl>>
          BY <3>1, <4>1 DEF Moved
        <5> QED
          BY <2>1, <3>1, <5>1
      <4>2. CASE ~Moved
        BY <1>1, <2>1, <4>2 DEF ParentFiled
      <4> QED
        BY <4>1, <4>2
    <3>3. ASSUME ScoresStand', NEW m \in ReplayedAdmissions',
                 \A k \in ReplayedAdmissions' : k <= m
          PROVE  /\ parent' = filed'[m].cfg /\ parentRtl' = filed'[m].rtl
                 /\ parentTree' = filed'[m].diff
      <4>1. ScoresStand /\ pc = "record" /\ records'[it] = score
        <5>1. records'[it] \in Scores
          BY <3>1, <3>3 DEF ScoresStand
        <5> QED
          BY <1>1, <3>1, <3>3, <5>1, VerdictsAreApart DEF ScoresStand
      <4>2. CASE score \in Admits
        <5>1. Moved /\ parentTree = res.at
          BY <4>1, <4>2 DEF MovedInv
        <5>2. it \in ReplayedAdmissions'
          BY <3>1, <4>1, <4>2 DEF ReplayedAdmissions
        <5>3. m \in Replayed \/ m = it
          BY <3>1 DEF ReplayedAdmissions
        <5>4. m = it
          BY <3>1, <3>3, <5>2, <5>3
        <5> QED
          BY <2>1, <3>1, <5>1, <5>4 DEF Moved, IdentOf
      <4>3. CASE score \notin Admits
        <5>1. ~Moved
          BY <4>3 DEF MovedInv
        <5>2. ReplayedAdmissions' = ReplayedAdmissions
          BY <1>1, <3>1, <4>1, <4>3 DEF ReplayedAdmissions
        <5>3. filed'[m] = filed[m]
          BY <1>1, <5>2 DEF ReplayedAdmissions
        <5> QED
          BY <2>1, <3>3, <4>1, <5>1, <5>2, <5>3 DEF ParentFiled
      <4> QED
        BY <4>2, <4>3
    <3> QED
      BY <2>1, <3>2, <3>3 DEF ParentFiled, ParentDiff
  <2>3. CASE ~(Ends /\ score # None)
    <3>1. ~Moved' => ~Moved
      BY <1>3, <2>3, StepMoves DEF Moved
    <3>2. Replayed' = Replayed
      BY <2>3, StepReplays
    <3>3. ReplayedAdmissions' = ReplayedAdmissions /\ (ScoresStand' => ScoresStand)
      BY <1>1, <3>2 DEF ReplayedAdmissions, ScoresStand
    <3>4. \A m \in ReplayedAdmissions : filed'[m] = filed[m]
      BY <1>1 DEF ReplayedAdmissions
    <3> QED
      BY <1>1, <2>1, <3>1, <3>2, <3>3, <3>4 DEF ParentFiled, ParentDiff
  <2> QED
    BY <2>2, <2>3
<1> QED
  BY <1>2, <1>3

LEMMA StepKeepsBase ==
    ASSUME LoopInv, DiskTypeOK, WrittenInv, ScoredInv, OnceInv, BaseInv, Next, FilesRecords
    PROVE  BaseInv'
<1> USE DEF LoopInv
<1>1. \A i \in Replayed : NameOf(i)' = NameOf(i)
  BY StepReplays DEF NameOf
<1>2. CASE ScorePoint
  <2>1. Replayed' = Replayed
    BY <1>2, StepReplays, EndsLeave DEF ScorePoint
  <2>2. \A i \in Replayed : NameOf(i) # None
    BY NoneAssumption DEF OnceInv, SearchTypeOK, IterationTypeOK
  <2>3. score' # None
    BY <1>2, ScorePointMakes, VerdictsAreApart
  <2>4. IdentOf(tree) = RecName'
    BY <1>2, ScorePointMakes
  <2> QED
    BY <1>1, <1>2, <2>1, <2>2, <2>3, <2>4, ScorePointMakes DEF BaseInv
<1>3. CASE Ends /\ score # None
  <2>1. /\ Replayed' = Replayed \union {it} /\ base' = base /\ score' = None
        /\ \A i \in Replayed : i \in Nat /\ it \in Nat /\ i < it
        /\ \A j \in {it} : NameOf(j)' = RecName
    BY <1>3, ScoredFiles, EndsLeave, EndingMovesOn, ResetType, SearchAssumption
       DEF SearchTypeOK, Replayed, Written
  <2>2. ASSUME NEW m \in Replayed', \A k \in Replayed' : m <= k
        PROVE  base' = NameOf(m)'
    <3>1. CASE Replayed = {}
      BY <1>3, <2>1, <2>2, <3>1 DEF BaseInv
    <3>2. CASE Replayed # {}
      <4>1. m \in Replayed
        BY <2>1, <2>2, <3>2
      <4> QED
        BY <1>1, <2>1, <2>2, <4>1 DEF BaseInv
    <3> QED
      BY <3>1, <3>2
  <2> QED
    BY <2>1, <2>2 DEF BaseInv
<1>4. CASE ~ScorePoint /\ ~(Ends /\ score # None)
  <2>1. Replayed' = Replayed
    BY <1>4, StepReplays
  <2>2. base' = base
    BY <1>4, StepsSort, BeginLeaves, EvaluateLeaves, ConcludeLeaves, EndsLeave
       DEF AbortRun, RecordFailure, SearchTypeOK, endVars
  <2>3. score # None => score' = score /\ RecName' = RecName
    BY <1>4, StepsFromScore DEF RecName
  <2>4. score' # None => score # None
    BY <1>4, StepsWithScore
  <2> QED
    BY <1>1, <2>1, <2>2, <2>3, <2>4 DEF BaseInv
<1> QED
  BY <1>2, <1>3, <1>4

LEMMA StepKeepsAdmitted ==
    ASSUME LoopInv, DiskTypeOK, WrittenInv, ScoredInv, AdmittedInv, Next, FilesRecords
    PROVE  AdmittedInv'
<1> USE DEF LoopInv
<1>1. \A i \in Replayed : /\ NameOf(i)' = NameOf(i) /\ records'[i] = records[i]
                          /\ i \in Replayed'
  BY StepReplays DEF NameOf
<1>2. admitted \subseteq admitted'
  BY NextSorts, WithinLeaves, EndsLeave
<1>3. \A i \in ReplayedAdmissions' : NameOf(i)' \in admitted'
  <2>1. CASE Ends /\ score # None
    <3>1. records'[it] \in Admits => score \in Admits
      BY <2>1, ScoredFiles, VerdictsAreApart
    <3> QED
      BY <1>1, <1>2, <2>1, <3>1, ScoredFiles DEF ReplayedAdmissions, AdmittedInv
  <2>2. CASE ~(Ends /\ score # None)
    BY <1>1, <1>2, <2>2, StepReplays DEF ReplayedAdmissions, AdmittedInv
  <2> QED
    BY <2>1, <2>2
<1>4. ASSUME NEW d \in admitted'
      PROVE  \/ \E i \in Replayed' : /\ d = NameOf(i)'
                                     /\ records'[i] \in Admits \union {"INFRA_FAILURE"}
             \/ score' \in Admits /\ d = RecName'
  <2>1. CASE ScorePoint
    <3>1. \/ d \in admitted
          \/ score' \in Admits /\ d = RecName'
      BY <1>4, <2>1, ScorePointMakes
    <3>2. score \notin Admits
      BY <2>1, ScorePointMakes, VerdictsAreApart
    <3> QED
      BY <1>1, <3>1, <3>2 DEF AdmittedInv
  <2>2. CASE ~ScorePoint
    <3>1. d \in admitted
      BY <1>4, <2>2, StepsSort, BeginLeaves, EvaluateLeaves, ConcludeLeaves, EndsLeave
         DEF AbortRun, RecordFailure, SearchTypeOK, endVars
    <3>2. CASE \E i \in Replayed : /\ d = NameOf(i)
                                   /\ records[i] \in Admits \union {"INFRA_FAILURE"}
      BY <1>1, <3>2
    <3>3. CASE score \in Admits /\ d = RecName
      <4>1. score # None
        BY <3>3, VerdictsAreApart
      <4>2. CASE Ends
        <5>1. PICK j \in {it} : TRUE
          OBVIOUS
        <5>2. /\ j \in Replayed' /\ NameOf(j)' = d
              /\ records'[j] \in Admits \union {"INFRA_FAILURE"}
          BY <3>3, <4>1, <4>2, ScoredFiles
        <5> QED
          BY <5>2
      <4>3. CASE ~Ends
        BY <3>3, <4>1, <4>3, StepsFromScore DEF RecName
      <4> QED
        BY <4>2, <4>3
    <3> QED
      BY <3>1, <3>2, <3>3 DEF AdmittedInv
  <2> QED
    BY <2>1, <2>2
<1>5. score' \in Admits => RecName' \in admitted'
  <2>1. CASE ScorePoint
    BY <2>1, ScorePointMakes
  <2>2. CASE ~ScorePoint
    BY <1>2, <2>2, StepsWithScore, VerdictsAreApart DEF AdmittedInv, RecName
  <2> QED
    BY <2>1, <2>2
<1> QED
  BY <1>3, <1>4, <1>5 DEF AdmittedInv

(* The history grows at its end, by entries of the running iteration.      *)
LEMMA HistoryOnlyGrows ==
    ASSUME LoopInv, Next
    PROVE  /\ \A n \in DOMAIN history : n \in DOMAIN history' /\ history'[n] = history[n]
           /\ \A n \in DOMAIN history' : n \in DOMAIN history \/ history'[n].it = it
           /\ ~Publish /\ ~RememberFailure => UNCHANGED history
<1> USE DEF LoopInv
<1>1. CASE UNCHANGED history
  BY <1>1
<1>2. CASE ~UNCHANGED history
  <2>1. PICK e : Appends(e) /\ (Publish \/ RememberFailure)
    BY <1>2, HistorySteps
  <2>2. /\ Len(history) \in Nat
        /\ DOMAIN history = 1..Len(history)
        /\ DOMAIN history' = 1..(Len(history) + 1)
        /\ \A n \in DOMAIN history : history'[n] = history[n]
        /\ history'[Len(history) + 1] = e
    BY <2>1, AppendedHistory
  <2>3. \A n \in DOMAIN history' : n \in DOMAIN history \/ n = Len(history) + 1
    BY <2>2
  <2>4. e.it = it
    BY <2>1 DEF Appends
  <2> QED
    BY <2>1, <2>2, <2>3, <2>4
<1> QED
  BY <1>1, <1>2

(* What the records say about a design changes when an iteration ends, and *)
(* only by its own record.                                                 *)
LEMMA PastGrows ==
    ASSUME LoopInv, DiskTypeOK, WrittenInv, ScoredInv, Next, FilesRecords,
           NEW d \in Ident
    PROVE  /\ \A k \in Past(d) : /\ k \in 1..Iters /\ k < it /\ k \in Past(d)'
                                 /\ records'[k] = records[k]
           /\ \A k \in Past(d)' : k \in Past(d) \/ k = it
           /\ it \in Past(d)' <=> Ends /\ it \in About(d)'
<1> USE DEF LoopInv
<1>1. /\ pc # "done" /\ it \in 1..Iters /\ it \in Nat /\ Iters \in Nat
      /\ \A i \in 1..Iters : i # it => records'[i] = records[i] /\ filed'[i] = filed[i]
  BY StepFiles, SearchAssumption
<1>2. \A i \in 1..Iters : i # it => (i \in About(d)' <=> i \in About(d))
  BY <1>1 DEF About, Named, Replayed, FailedDesigns, Written, NameOf
<1>3. About(d) \subseteq 1..Iters /\ About(d)' \subseteq 1..Iters
  BY DEF About, Named, Written
<1>4. \A i \in 1..Iters : Over(i) <=> i < it
  BY <1>1 DEF Over
<1>5. CASE Ends
  <2>1. \A i \in 1..Iters : Over(i)' <=> i <= it
    BY <1>1, <1>5, EndsLeave, OverAtEnd
  <2> QED
    BY <1>1, <1>2, <1>3, <1>4, <1>5, <2>1 DEF Past
<1>6. CASE ~Ends
  <2>1. \A i \in 1..Iters : Over(i)' <=> i < it
    BY <1>1, <1>4, <1>6, NextSorts, OverWithin
  <2> QED
    BY <1>1, <1>2, <1>3, <1>4, <1>6, <2>1 DEF Past
<1> QED
  BY <1>5, <1>6

(* The name the running iteration's record has when it ends.               *)
LEMMA EndNames ==
    ASSUME LoopInv, DiskTypeOK, WrittenInv, Next, FilesRecords, Ends
    PROVE  /\ \A j \in {it} : NameOf(j)' = RecName /\ Over(j)'
           /\ filed'[it].cfg = rec.cfg /\ filed'[it].rtl = rec.rtl
           /\ it \in 1..Iters /\ it \in Written'
<1> USE DEF LoopInv
<1>1. /\ pc # "done" /\ it \in 1..Iters
      /\ records'[it] = records[it] => filed'[it] = filed[it]
      /\ records'[it] # records[it] => filed'[it] = Filing
  BY StepFiles
<1>2. records'[it] # None
  BY EndsWrite, NoVerdictAssumption
<1>3. filed'[it].cfg = rec.cfg /\ filed'[it].rtl = rec.rtl
  BY <1>1, <1>2 DEF Filing, WrittenInv, NameOf, RecName
<1>4. \A j \in {it} : Over(j)'
  <2>1. \A i \in 1..Iters : Over(i)' <=> i <= it
    BY <1>1, EndsLeave, OverAtEnd
  <2> QED
    BY <1>1, <2>1, SearchAssumption
<1> QED
  BY <1>1, <1>2, <1>3, <1>4 DEF NameOf, RecName, Written

(* The record an iteration ends with agrees with what a proposer is told   *)
(* of the design it names.                                                 *)
LEMMA EndTellsTheRecord ==
    ASSUME LoopInv, DiskTypeOK, WrittenInv, ScoredInv, InfoInv, Next, FilesRecords, Ends,
           NEW d \in Ident, it \in About(d)', seenInfo'[d] # None
    PROVE  records'[it] \in {seenInfo'[d], "SCOPE_VIOLATION", "INFRA_FAILURE"}
<1> USE DEF LoopInv
<1>1. CASE ContainRaise
  BY <1>1, EndsWrite
<1>2. CASE WriteRecord
  <2>1. pc = "record" /\ records'[it] = Verdict /\ seenInfo' = seenInfo
    BY <1>2, EndsWrite, EndsLeave
  <2>2. \A j \in {it} : /\ NameOf(j)' = d
                        /\ j \in Named' /\ j \in Replayed' \union FailedDesigns'
    BY DEF About
  <2>3. d = RecName /\ pc # "done" /\ rec.cfg # None
    BY <2>1, <2>2, EndNames DEF Named
  <2>4. CASE score # None
    BY <2>1, <2>3, <2>4 DEF InfoInv, Tells
  <2>5. CASE score = None
    <3>1. records[it] = res.verdict /\ res.verdict \in FailVerdict /\ Verdict = res.verdict
      BY <2>1, <2>5 DEF WrittenInv, FailureFiled, RoundInv, Verdict
    <3>2. it \notin Replayed'
      <4>1. Replayed' = Replayed /\ \A i \in Replayed : i < it
        BY <2>5, StepReplays
      <4> QED
        BY <4>1, SearchAssumption DEF SearchTypeOK
    <3>3. res.verdict \notin NoDesign
      BY <2>1, <2>2, <3>1, <3>2 DEF FailedDesigns
    <3>4. CASE res.verdict = "SCOPE_VIOLATION"
      BY <2>1, <3>1, <3>4
    <3>5. CASE res.verdict # "SCOPE_VIOLATION"
      <4>1. HasDesign /\ records[it] # None
        BY <2>3, <3>1, <3>3, <3>5, VerdictsAreApart DEF HasDesign
      <4> QED
        BY <2>1, <2>3, <4>1 DEF InfoInv, Tells
    <3> QED
      BY <3>4, <3>5
  <2> QED
    BY <2>4, <2>5
<1> QED
  BY <1>1, <1>2 DEF Ends

(* An iteration that told of its design, and ends without a record about   *)
(* it, raised.                                                             *)
LEMMA EndForgets ==
    ASSUME LoopInv, DiskTypeOK, WrittenInv, ScoredInv, Next, FilesRecords, Ends,
           NEW d \in Ident, it \notin About(d)', Tells, d = RecName
    PROVE  \A j \in {it} : Forgotten(j)'
<1> USE DEF LoopInv
<1>1. d[1] # None /\ d[2] # None
  BY NoneAssumption DEF Ident
<1>2. \A j \in {it} : NameOf(j)' = d /\ j \in Named'
  BY <1>1, EndNames DEF Named, RecName
<1>3. score = None
  <2>1. score # None => \A j \in {it} : j \in Replayed'
    BY ScoredFiles
  <2> QED
    BY <1>2, <2>1 DEF About
<1>4. records[it] # None /\ HasDesign
  BY <1>3 DEF Tells
<1>5. CASE WriteRecord
  <2>1. records'[it] = res.verdict
    BY <1>3, <1>5, EndsWrite DEF Verdict
  <2>2. it \notin Replayed'
    <3>1. Replayed' = Replayed /\ \A i \in Replayed : i < it
      BY <1>3, StepReplays
    <3> QED
      BY <3>1, SearchAssumption DEF SearchTypeOK
  <2>3. \A j \in {it} : j \in FailedDesigns'
    BY <1>2, <1>4, <2>1, <2>2, EndNames DEF FailedDesigns, HasDesign
  <2> QED
    BY <1>2, <2>3 DEF About
<1>6. CASE ContainRaise
  BY <1>6, EndsWrite DEF Forgotten
<1> QED
  BY <1>5, <1>6 DEF Ends

(* A step that tells of a design tells of the running one.                 *)
LEMMA StepTells ==
    ASSUME LoopInv, WrittenInv, ScoredInv, Next, ~Ends,
           NEW d \in Ident, seenInfo'[d] # seenInfo[d]
    PROVE  Tells' /\ d = RecName'
<1> USE DEF LoopInv
<1>1. RememberFailure \/ AdoptParent \/ RollBackRejected
  BY StepsSort, BeginLeaves, EvaluateLeaves
     DEF Concludes, AbortRun, RecordFailure, ScorePoint, Publish, EndingRaises,
         SearchTypeOK, endVars
<1>2. UNCHANGED <<it, rec, res, score, records>> /\ pc' # "done"
  BY <1>1, ConcludeLeaves DEF Concludes, ladderVars
<1>3. CASE RememberFailure
  <2>1. HasDesign /\ seenInfo' = [seenInfo EXCEPT ![RecName] = res.verdict]
    BY <1>3 DEF RememberFailure, RecName
  <2>2. records[it] # None
    BY <1>3, VerdictsAreApart DEF RememberFailure, WrittenInv, FailureFiled, RoundInv
  <2>3. d = RecName
    BY <2>1 DEF SearchTypeOK
  <2> QED
    BY <1>2, <2>1, <2>2, <2>3 DEF Tells, HasDesign, RecName
<1>4. CASE AdoptParent \/ RollBackRejected
  <2>1. pc = "published" /\ seenInfo' = [seenInfo EXCEPT ![IdentOf(tree)] = score]
    BY <1>4 DEF AdoptParent, RollBackRejected, InformsOfScore
  <2>2. score # None /\ res.at = tree
    BY <2>1, VerdictsAreApart DEF ScoreInv, PassedInv, HasPassed
  <2>3. d = RecName
    BY <2>1, <2>2 DEF SearchTypeOK, ScoredInv
  <2> QED
    BY <1>2, <2>2, <2>3 DEF Tells, RecName
<1> QED
  BY <1>1, <1>3, <1>4

(* What the running iteration has told it tells to its end.                *)
LEMMA StepKeepsTelling ==
    ASSUME LoopInv, WrittenInv, ScoredInv, Next, ~Ends, Tells
    PROVE  Tells' /\ RecName' = RecName
<1> USE DEF LoopInv
<1>1. CASE score # None
  <2>1. UNCHANGED <<it, rec, score>> /\ pc' # "done"
    BY <1>1, StepsFromScore, NextSorts, WithinLeaves DEF Resting
  <2> QED
    BY <1>1, <2>1 DEF Tells, RecName
<1>2. CASE score = None
  <2>1. records[it] # None /\ HasDesign /\ pc \in {"remember", "record", "raised"}
    BY <1>2, StepsGoOn DEF Tells, WrittenInv
  <2>2. Concludes
    BY <2>1, StepsSort, BeginLeaves, EvaluateLeaves
       DEF AbortRun, RecordFailure, ScorePoint, SearchTypeOK, InRounds, Gates
  <2>3. UNCHANGED <<it, rec, res, records>> /\ pc' # "done"
    BY <2>2, ConcludeLeaves DEF ladderVars
  <2> QED
    BY <2>1, <2>3 DEF Tells, HasDesign, RecName
<1> QED
  BY <1>1, <1>2

(* When only its record is left to be written, it has told.                *)
LEMMA RecordTells ==
    ASSUME LoopInv, WrittenInv, ScoredInv, Next, pc' = "record", Tells', RecName' \in Ident
    PROVE  seenInfo'[RecName'] = Verdict'
<1> USE DEF LoopInv
<1>1. RememberFailure \/ AdoptParent \/ RollBackRejected
  BY StepsSort, BeginLeaves, EvaluateLeaves, EndsLeave, EndingMovesOn
     DEF Concludes, AbortRun, RecordFailure, ScorePoint, Publish, EndingRaises,
         SearchTypeOK, InRounds, Gates, Resting
<1>2. UNCHANGED <<it, rec, res, score, records>>
  BY <1>1, ConcludeLeaves DEF Concludes, ladderVars
<1>3. RecName' = RecName /\ Verdict' = Verdict
  BY <1>2 DEF RecName, Verdict
<1>4. CASE RememberFailure
  <2>1. score = None /\ pc = "remember"
    BY <1>4 DEF RememberFailure, ScoredInv
  <2>2. HasDesign /\ rec.rtl # None
    BY <1>2, <2>1, <1>3, NoneAssumption DEF Tells, HasDesign, RecName, Ident
  <2>3. seenInfo' = [seenInfo EXCEPT ![RecName] = res.verdict]
    BY <1>4, <2>2 DEF RememberFailure, RecName
  <2> QED
    BY <1>3, <2>1, <2>3 DEF SearchTypeOK, Verdict
<1>5. CASE AdoptParent \/ RollBackRejected
  <2>1. pc = "published" /\ seenInfo' = [seenInfo EXCEPT ![IdentOf(tree)] = score]
    BY <1>5 DEF AdoptParent, RollBackRejected, InformsOfScore
  <2>2. score # None /\ IdentOf(tree) = RecName
    BY <2>1, VerdictsAreApart DEF ScoreInv, PassedInv, HasPassed, ScoredInv
  <2> QED
    BY <1>3, <2>1, <2>2 DEF SearchTypeOK, Verdict
<1> QED
  BY <1>1, <1>4, <1>5

LEMMA StepKeepsInfo ==
    ASSUME LoopInv, DiskTypeOK, WrittenInv, ScoredInv, InfoInv, Next, FilesRecords
    PROVE  InfoInv'
<1> USE DEF LoopInv
<1>1. ASSUME NEW d \in Ident, seenInfo'[d] # None
      PROVE  \/ \E m \in Past(d)' :
                   /\ \A k \in Past(d)' : k <= m
                   /\ records'[m] \in {seenInfo'[d], "SCOPE_VIOLATION", "INFRA_FAILURE"}
             \/ \E i \in 1..Iters : Over(i)' /\ Forgotten(i)' /\ NameOf(i)' = d
             \/ Tells' /\ d = RecName'
  <2>1. /\ \A k \in Past(d) : /\ k \in 1..Iters /\ k < it /\ k \in Past(d)'
                              /\ records'[k] = records[k]
        /\ \A k \in Past(d)' : k \in Past(d) \/ k = it
        /\ it \in Past(d)' <=> Ends /\ it \in About(d)'
    BY PastGrows
  <2>2. it \in Nat /\ \A k \in Past(d) : k \in Nat
    BY <2>1, SearchAssumption DEF SearchTypeOK
  <2>3. CASE it \in Past(d)'
    <3>1. records'[it] \in {seenInfo'[d], "SCOPE_VIOLATION", "INFRA_FAILURE"}
      BY <1>1, <2>1, <2>3, EndTellsTheRecord
    <3>2. \A k \in Past(d)' : k <= it
      BY <2>1, <2>2
    <3> QED
      BY <2>3, <3>1, <3>2
  <2>4. CASE it \notin Past(d)' /\ seenInfo'[d] # seenInfo[d]
    BY <2>4, StepTells, EndsLeave
  <2>5. CASE it \notin Past(d)' /\ seenInfo'[d] = seenInfo[d]
    <3>1. CASE \E m \in Past(d) :
                  /\ \A k \in Past(d) : k <= m
                  /\ records[m] \in {seenInfo[d], "SCOPE_VIOLATION", "INFRA_FAILURE"}
      BY <2>1, <2>5, <3>1
    <3>2. CASE \E i \in 1..Iters : Over(i) /\ Forgotten(i) /\ NameOf(i) = d
      <4>1. PICK i \in 1..Iters : Over(i) /\ Forgotten(i) /\ NameOf(i) = d
        BY <3>2
      <4>2. i # it /\ Over(i)'
        <5>1. CASE Ends
          <6>1. pc # "done" /\ (Over(i)' <=> i <= it) /\ (Over(i) <=> i < it)
            BY <5>1, EndsLeave, OverAtEnd
          <6> QED
            BY <2>2, <4>1, <6>1, SearchAssumption
        <5>2. CASE ~Ends
          BY <4>1, <5>2, NextSorts, OverWithin
        <5> QED
          BY <5>1, <5>2
      <4>3. records'[i] = records[i] /\ filed'[i] = filed[i]
        BY <4>2, StepFiles
      <4> QED
        BY <4>1, <4>2, <4>3 DEF Forgotten, NameOf
    <3>3. CASE Tells /\ d = RecName
      <4>1. CASE Ends
        <5>1. \A j \in {it} : Forgotten(j)'
          BY <2>1, <2>5, <3>3, <4>1, EndForgets
        <5> QED
          BY <3>3, <4>1, <5>1, EndNames
      <4>2. CASE ~Ends
        BY <3>3, <4>2, StepKeepsTelling
      <4> QED
        BY <4>1, <4>2
    <3> QED
      BY <1>1, <2>5, <3>1, <3>2, <3>3 DEF InfoInv
  <2> QED
    BY <2>3, <2>4, <2>5
<1>2. pc' = "record" /\ Tells' /\ RecName' \in Ident => seenInfo'[RecName'] = Verdict'
  BY RecordTells
<1> QED
  BY <1>1, <1>2 DEF InfoInv

(* An iteration that ends with a record about a design leaves its entry.   *)
LEMMA EndsLeaveAnEntry ==
    ASSUME LoopInv, DiskTypeOK, WrittenInv, ScoredInv, ToldInv, Next, FilesRecords, Ends,
           records'[it] \notin NoDesign \union {"SCOPE_VIOLATION"},
           filed'[it].cfg # None
    PROVE  \E n \in DOMAIN history' :
              history'[n].it = it /\ history'[n].state = filed'[it].cfg
<1> USE DEF LoopInv
<1>1. pc = "record" /\ records'[it] = Verdict /\ history' = history
  BY EndsWrite, EndsLeave DEF Ends, NoDesign
<1>2. filed'[it].cfg = rec.cfg
  BY EndNames
<1>3. CASE score # None
  <2>1. /\ Len(history) \in DOMAIN history
        /\ history[Len(history)].it = it /\ history[Len(history)].state = res.at.cfg
    BY <1>1, <1>3, LenProperties DEF PublishedInv, SearchTypeOK
  <2> QED
    BY <1>1, <1>3, <2>1, ScoredFiles
<1>4. CASE score = None
  <2>1. HasDesign
    BY <1>1, <1>2, <1>4 DEF HasDesign, Verdict
  <2> QED
    BY <1>1, <1>2, <1>4, <2>1 DEF ToldInv
<1> QED
  BY <1>3, <1>4

(* Remembering a failure leaves its entry.                                 *)
LEMMA RememberLeavesAnEntry ==
    ASSUME SearchTypeOK, RememberFailure, HasDesign
    PROVE  \E n \in DOMAIN history' : history'[n].it = it /\ history'[n].state = rec.cfg
<1> DEFINE e == [it |-> it, state |-> rec.cfg, child |-> IdentOf(res.at),
                 verdict |-> res.verdict]
<1>1. history' = Append(history, e)
  BY DEF RememberFailure
<1>2. history \in Seq(Entry) /\ Len(history) \in Nat
  BY LenProperties DEF SearchTypeOK
<1>3. Len(history) + 1 \in DOMAIN history' /\ history'[Len(history) + 1] = e
  BY <1>1, <1>2
<1> QED
  BY <1>3

(* An entry of the running iteration, before the first death.              *)
LEMMA StepKeepsEntries ==
    ASSUME LoopInv, SearchTypeOK', DiskTypeOK, WrittenInv, ScoredInv, ToldInv, Next,
           FilesRecords, UNCHANGED restarts,
           NEW n \in DOMAIN history'
    PROVE  /\ history'[n].it <= it'
           /\ restarts' = 0 /\ pc' # "done" /\ history'[n].it = it' =>
                 \/ score' # None
                 \/ records'[it'] # None /\ history'[n].state = rec'.cfg
<1> USE DEF LoopInv
<1>1. /\ pc # "done" /\ it \in 1..Iters /\ it \in Nat /\ Iters \in Nat
  BY StepFiles, SearchAssumption
<1>2. /\ \A k \in DOMAIN history : k \in DOMAIN history' /\ history'[k] = history[k]
      /\ \A k \in DOMAIN history' : k \in DOMAIN history \/ history'[k].it = it
      /\ ~Publish /\ ~RememberFailure => UNCHANGED history
  BY HistoryOnlyGrows
<1>3. history'[n].it \in Nat /\ history'[n].it <= it
  <2>1. history' \in Seq(Entry)
    BY DEF SearchTypeOK
  <2>2. history'[n].it \in Nat
    BY <2>1, HistoryEntries
  <2>3. \A k \in DOMAIN history : history'[k].it <= it
    BY <1>2 DEF ToldInv
  <2> QED
    BY <1>1, <1>2, <2>2, <2>3
<1>4. CASE Ends
  <2>1. /\ pc' \in Resting
        /\ pc' = "start" => it' = it + 1
        /\ pc' = "done" => it' = it
    BY <1>4, EndsLeave, EndingMovesOn
  <2> QED
    BY <1>1, <1>3, <2>1 DEF Resting
<1>5. CASE Publish
  <2>1. it' = it /\ score' \in Scores
    BY <1>5, PublishLeaves DEF ScoreInv
  <2> QED
    BY <1>3, <2>1, VerdictsAreApart
<1>6. CASE RememberFailure
  <2>1. /\ pc = "remember" /\ UNCHANGED <<it, rec, records, score>>
    BY <1>6, ConcludeLeaves DEF Concludes, ladderVars, RememberFailure
  <2>2. records[it] # None /\ score = None
    BY <2>1, VerdictsAreApart DEF WrittenInv, FailureFiled, RoundInv, ScoredInv
  <2>3. n \in DOMAIN history \/ history'[n].state = rec.cfg
    <3> DEFINE e == [it |-> it, state |-> rec.cfg, child |-> IdentOf(res.at),
                     verdict |-> res.verdict]
    <3>1. history' = history \/ history' = Append(history, e)
      BY <1>6 DEF RememberFailure
    <3>2. history \in Seq(Entry) /\ Len(history) \in Nat
      BY LenProperties DEF SearchTypeOK
    <3>3. n \in DOMAIN history \/ history'[n] = e
      BY <3>1, <3>2
    <3> QED
      BY <3>3
  <2>4. n \in DOMAIN history /\ restarts = 0 /\ history[n].it = it =>
           history[n].state = rec.cfg
    BY <1>1, <2>2 DEF ToldInv
  <2> QED
    BY <1>2, <1>3, <2>1, <2>2, <2>3, <2>4
<1>7. CASE ~Ends /\ ~Publish /\ ~RememberFailure
  <2>1. it' = it /\ history' = history
    BY <1>2, <1>7, NextSorts, WithinLeaves
  <2>2. score # None => score' # None
    BY <1>7, StepsFromScore
  <2>3. records[it] # None => UNCHANGED <<records, rec>>
    <3> SUFFICES ASSUME records[it] # None
                 PROVE  UNCHANGED <<records, rec>>
      OBVIOUS
    <3>1. pc \in {"remember", "record", "raised"}
      BY <1>1, StepsGoOn DEF WrittenInv
    <3>2. Concludes
      BY <1>7, <3>1, StepsSort, BeginLeaves, EvaluateLeaves
         DEF AbortRun, RecordFailure, ScorePoint, SearchTypeOK, InRounds, Gates
    <3> QED
      BY <3>2, ConcludeLeaves DEF ladderVars
  <2> QED
    BY <1>1, <1>3, <2>1, <2>2, <2>3 DEF ToldInv
<1> QED
  BY <1>4, <1>5, <1>6, <1>7

LEMMA StepKeepsTold ==
    ASSUME LoopInv, SearchTypeOK', DiskTypeOK, WrittenInv, ScoredInv, ToldInv, Next,
           FilesRecords, UNCHANGED restarts
    PROVE  ToldInv'
<1> USE DEF LoopInv
<1>1. /\ pc # "done" /\ it \in 1..Iters /\ it \in Nat /\ Iters \in Nat
      /\ \A i \in 1..Iters : i # it => records'[i] = records[i] /\ filed'[i] = filed[i]
  BY StepFiles, SearchAssumption
<1>2. \A n \in DOMAIN history : n \in DOMAIN history' /\ history'[n] = history[n]
  BY HistoryOnlyGrows
<1>3. ASSUME NEW i \in 1..Iters, i # it, Over(i), i \in Written',
             records'[i] \notin NoDesign \union {"SCOPE_VIOLATION"},
             filed'[i].cfg # None
      PROVE  \E n \in DOMAIN history' :
                /\ history'[n].it = i
                /\ restarts' <= 1 => history'[n].state = filed'[i].cfg
  <2>1. records'[i] = records[i] /\ filed'[i] = filed[i]
    BY <1>1, <1>3
  <2>2. \E n \in DOMAIN history :
           /\ history[n].it = i
           /\ restarts <= 1 => history[n].state = filed[i].cfg
    BY <1>3, <2>1 DEF ToldInv, EveryDesignIsTold, Written
  <2> QED
    BY <1>2, <2>1, <2>2
<1>4. EveryDesignIsTold'
  <2> SUFFICES ASSUME NEW i \in Written', Over(i)',
                      records'[i] \notin NoDesign \union {"SCOPE_VIOLATION"},
                      filed'[i].cfg # None
               PROVE  \E n \in DOMAIN history' :
                         /\ history'[n].it = i
                         /\ restarts' <= 1 => history'[n].state = filed'[i].cfg
    BY DEF EveryDesignIsTold
  <2>1. i \in 1..Iters
    BY DEF Written
  <2>2. CASE Ends
    <3>1. (Over(i)' <=> i <= it) /\ (Over(i) <=> i < it)
      BY <1>1, <2>1, <2>2, EndsLeave, OverAtEnd
    <3>2. CASE i = it
      BY <2>2, <3>2, EndsLeaveAnEntry
    <3>3. CASE i # it
      BY <1>1, <1>3, <2>1, <3>1, <3>3
    <3> QED
      BY <3>2, <3>3
  <2>3. CASE ~Ends
    <3>1. Over(i) /\ i # it
      BY <2>1, <2>3, NextSorts, OverWithin
    <3> QED
      BY <1>3, <2>1, <3>1
  <2> QED
    BY <2>2, <2>3
<1>5. pc' = "record" /\ score' = None /\ HasDesign' =>
         \E n \in DOMAIN history' : history'[n].it = it' /\ history'[n].state = rec'.cfg
  <2> SUFFICES ASSUME pc' = "record", score' = None, HasDesign'
               PROVE  \E n \in DOMAIN history' :
                         history'[n].it = it' /\ history'[n].state = rec'.cfg
    OBVIOUS
  <2>1. RememberFailure \/ AdoptParent \/ RollBackRejected
    BY StepsSort, BeginLeaves, EvaluateLeaves, EndsLeave, EndingMovesOn
       DEF Concludes, AbortRun, RecordFailure, ScorePoint, Publish, EndingRaises,
           SearchTypeOK, InRounds, Gates, Resting
  <2>2. UNCHANGED <<it, rec, res, score>>
    BY <2>1, ConcludeLeaves DEF Concludes, ladderVars
  <2>3. RememberFailure
    BY <2>1, <2>2, VerdictsAreApart DEF AdoptParent, RollBackRejected, ScoreInv
  <2>4. HasDesign
    BY <2>2 DEF HasDesign
  <2> QED
    BY <2>2, <2>3, <2>4, RememberLeavesAnEntry
<1> QED
  BY <1>4, <1>5, StepKeepsEntries DEF ToldInv

(* A step of the run, between two deaths.                                  *)
LEMMA StepKeepsResumeInv == ResumeInv /\ RunStep => ResumeInv'
<1> SUFFICES ASSUME ResumeInv, Next, FilesRecords, UNCHANGED restarts
             PROVE  ResumeInv'
  BY DEF RunStep
<1> USE DEF ResumeInv
<1>1. LoopInv /\ FailureFiled /\ ParentDiff
  BY StepsGoOn DEF LoopInv, WrittenInv, ParentFiled
<1>2. SearchTypeOK'
  BY <1>1, StepKeepsType DEF LoopInv
<1>3. RoundInv'
  BY <1>1, <1>2, StepKeepsRounds DEF LoopInv
<1>4. PassedInv' /\ ScoreInv' /\ PublishedInv'
  BY <1>1, <1>2, <1>3, StepKeepsPassed, StepKeepsScore, StepKeepsPublished DEF LoopInv
<1>5. DiskTypeOK'
  BY StepFiles DEF DiskTypeOK
<1>6. WrittenInv'
  BY <1>1, NextSorts, WithinKeepsWritten, EndsKeepWritten
<1>7. RestInv'
  BY <1>1, <1>2, StepKeepsRest DEF LoopInv
<1>8. MovedInv'
  BY <1>1, <1>4, StepKeepsMoved
<1> QED
  BY <1>1, <1>2, <1>3, <1>4, <1>5, <1>6, <1>7, <1>8, StepKeepsScored, StepKeepsOnce,
     StepKeepsParentFiled, StepKeepsBase, StepKeepsAdmitted, StepKeepsInfo, StepKeepsTold

-----------------------------------------------------------------------------
(***************************************************************************)
(* Death, and a resume that is refused                                     *)
(***************************************************************************)

LEMMA RefusalKeepsResumeInv ==
    ASSUME ResumeInv, RefusesToResume, pc # "done", restarts' = restarts + 1,
           UNCHANGED filed
    PROVE  ResumeInv'
<1> USE DEF ResumeInv
<1>1. /\ pc' = "aborted"
      /\ UNCHANGED <<it, parent, parentRtl, llmOk, tree, toggles, seen, prevNet, prevRtl>>
      /\ UNCHANGED <<ladderVars, repairVars, endVars, filed>>
  BY DEF RefusesToResume, givenVars, builtVars
<1>2. (\A i : Over(i)' <=> Over(i)) /\ restarts \in Nat
  BY <1>1, OverInside DEF DiskTypeOK
<1> USE DEF ladderVars, repairVars, endVars
<1>3. SearchTypeOK' /\ DiskTypeOK'
  BY <1>1, <1>2 DEF SearchTypeOK, DiskTypeOK, IterationTypeOK, Place
<1>4. RoundInv' /\ PassedInv' /\ PublishedInv'
  BY <1>1 DEF RoundInv, PassedInv, PublishedInv, InRounds, Gates, HasPassed
<1>5. /\ Replayed' = Replayed /\ ReplayedAdmissions' = ReplayedAdmissions
      /\ \A i \in 1..Iters : NameOf(i)' = NameOf(i)
      /\ \A d \in Ident : Past(d)' = Past(d)
  BY <1>1, <1>2 DEF Replayed, ReplayedAdmissions, Written, NameOf, Past, About, Named,
     FailedDesigns
<1>6. WrittenInv' /\ ScoredInv'
  BY <1>1, <1>2, <1>5
     DEF WrittenInv, ScoredInv, FailureFiled, RecName, IdentOf, NameOf, SearchTypeOK
<1>7. OnceInv'
  <2>1. pc' \notin Unmeasured /\ RecName' = RecName
    BY <1>1 DEF Unmeasured, PastIdentity, PastLegality, PastScope, RecName
  <2>2. Replayed \subseteq 1..Iters
    BY DEF Replayed, Written
  <2>3. RecordsMeasureOnce'
    BY <1>5, <2>2 DEF OnceInv, RecordsMeasureOnce
  <2> QED
    BY <1>1, <1>5, <2>1, <2>2, <2>3 DEF OnceInv, IdentOf
<1>8. MovedInv' /\ (Moved' <=> Moved)
  BY <1>1 DEF MovedInv, Moved, IdentOf
<1>9. ParentFiled' /\ RestInv'
  <2>1. \A i \in Replayed : i \in 1..Iters
    BY DEF Replayed, Written
  <2>2. RestInv'
    BY <1>1 DEF RestInv, TreeIsParentAtRest, Resting
  <2>4. ParentDiff' /\ (ScoresStand' <=> ScoresStand)
    BY <1>1, <1>5 DEF ParentFiled, ParentDiff, ScoresStand
  <2> QED
    BY <1>1, <1>5, <1>8, <2>1, <2>2, <2>4 DEF ParentFiled
<1>10. BaseInv' /\ AdmittedInv'
  <2>1. Replayed \subseteq 1..Iters /\ ReplayedAdmissions \subseteq 1..Iters
        /\ RecName' = RecName
    BY <1>1 DEF Replayed, ReplayedAdmissions, Written, RecName
  <2> QED
    BY <1>1, <1>5, <2>1 DEF BaseInv, AdmittedInv
<1>11. InfoInv'
  <2>1. RecName' = RecName /\ (Tells' <=> Tells)
    BY <1>1 DEF RecName, Tells, HasDesign
  <2>2. \A i \in 1..Iters : Forgotten(i)' <=> Forgotten(i)
    BY <1>1 DEF Forgotten
  <2> QED
    BY <1>1, <1>2, <1>5, <2>1, <2>2 DEF InfoInv
<1>12. ToldInv'
  <2>1. restarts' # 0 /\ (restarts' <= 1 => restarts <= 1)
    BY <1>2
  <2> QED
    BY <1>1, <1>2, <2>1 DEF ToldInv, EveryDesignIsTold, Written
<1> QED
  BY <1>1, <1>3, <1>4, <1>6, <1>7, <1>8, <1>9, <1>10, <1>11, <1>12

-----------------------------------------------------------------------------
(***************************************************************************)
(* What a resume reads back                                                *)
(***************************************************************************)

(* The failed designs a history has no entry of.                           *)
Missing(h) == {i \in FailedDesigns : \A n \in DOMAIN h : h[n].it # i}

LEMMA DiskProperties ==
    ASSUME SearchTypeOK, DiskTypeOK
    PROVE  /\ Iters \in Nat /\ it \in 1..Iters
           /\ Written \subseteq 1..Iters /\ Replayed \subseteq Written
           /\ FailedDesigns \subseteq Written /\ ReplayedAdmissions \subseteq Replayed
           /\ \A i \in Written : records[i] \in RunVerdict
           /\ \A i \in 1..Iters : filed[i] \in File
           /\ \A i \in Named : NameOf(i) \in Ident
BY SearchAssumption
   DEF SearchTypeOK, DiskTypeOK, Written, Replayed, FailedDesigns, ReplayedAdmissions,
       Named, NameOf, Ident, File

(* history.json has what memory has, but for entries beside a raise.       *)
LEMMA OnDiskProperties ==
    ASSUME SearchTypeOK, NEW h \in OnDisk
    PROVE  /\ h \in Seq(Entry)
           /\ \A n \in DOMAIN h : n \in DOMAIN history /\ h[n] = history[n]
           /\ \A n \in DOMAIN history : n \in DOMAIN h \/ Forgotten(history[n].it)
<1>1. history \in Seq(Entry) /\ Len(history) \in Nat /\ DOMAIN history = 1..Len(history)
  BY LenProperties DEF SearchTypeOK
<1>2. PICK k \in 0..Len(history) :
         /\ h = SubSeq(history, 1, k)
         /\ \A n \in (k + 1)..Len(history) : Forgotten(history[n].it)
  BY DEF OnDisk, Forgotten
<1>3. /\ h \in Seq(Entry) /\ DOMAIN h = 1..k
      /\ \A n \in 1..k : h[n] = history[n]
  BY <1>1, <1>2
<1>4. \A n \in DOMAIN history : n \in 1..k \/ n \in (k + 1)..Len(history)
  BY <1>1
<1> QED
  BY <1>1, <1>2, <1>3, <1>4

(* The restored history has every entry it had, and one for every failed   *)
(* design that had none.                                                   *)
LEMMA RestoredHistoryProperties ==
    ASSUME SearchTypeOK, DiskTypeOK, NEW old \in Seq(Entry)
    PROVE  /\ RestoredHistory(old) \in Seq(Entry)
           /\ \A n \in DOMAIN old :
                 \E m \in DOMAIN RestoredHistory(old) : RestoredHistory(old)[m] = old[n]
           /\ \A i \in Missing(old) :
                 \E m \in DOMAIN RestoredHistory(old) : RestoredHistory(old)[m] = EntryFor(i)
           /\ \A m \in DOMAIN RestoredHistory(old) :
                 \/ \E n \in DOMAIN old : RestoredHistory(old)[m] = old[n]
                 \/ \E i \in Missing(old) : RestoredHistory(old)[m] = EntryFor(i)
<1> DEFINE new == {EntryFor(i) : i \in Missing(old)}
<1>1. old \in Seq(Entry)
  OBVIOUS
<1>2. CASE Missing(old) = {}
  BY <1>1, <1>2 DEF RestoredHistory, Missing
<1>3. CASE Missing(old) # {}
  <2>1. new \subseteq Entry
    <3>1. \A i \in Missing(old) : /\ i \in 1..Iters /\ records[i] \in RunVerdict
                             /\ filed[i] \in File /\ filed[i].cfg # None
      BY DiskProperties DEF Missing, FailedDesigns
    <3> QED
      BY <3>1 DEF EntryFor, Entry, NameOf, File
  <2>2. IsFiniteSet(new)
    <3>1. IsFiniteSet(1..Iters)
      BY DiskProperties, IntervalSize
    <3>2. Missing(old) \in SUBSET (1..Iters)
      BY DiskProperties DEF Missing
    <3>3. IsFiniteSet(Missing(old))
      BY <3>1, <3>2, FS_Subset
    <3> DEFINE f == [i \in Missing(old) |-> EntryFor(i)]
    <3>4. f \in Surjection(Missing(old), new)
      BY DEF Surjection
    <3> QED
      BY <3>3, <3>4, FS_Surjection
  <2> HIDE DEF new
  <2> DEFINE s == SetToSeq(new)
  <2>3. s \in Seq(new) /\ \A x \in new : \E k \in DOMAIN s : s[k] = x
    BY <2>2, SetToSeqProperties
  <2> HIDE DEF s
  <2>4. s \in Seq(Entry) /\ DOMAIN s = 1..Len(s) /\ \A k \in DOMAIN s : s[k] \in new
    BY <2>1, <2>3
  <2> DEFINE both == old \o s
  <2>5. /\ both \in Seq(Entry)
        /\ Len(old) \in Nat /\ Len(s) \in Nat
        /\ DOMAIN old = 1..Len(old)
        /\ DOMAIN both = 1..(Len(old) + Len(s))
        /\ \A n \in DOMAIN old : both[n] = old[n]
        /\ \A k \in DOMAIN s : both[Len(old) + k] = s[k]
    BY <1>1, <2>4
  <2> HIDE DEF both
  <2>6. \A n \in DOMAIN old : n \in DOMAIN both
    BY <2>5
  <2>7. \A k \in DOMAIN s : Len(old) + k \in DOMAIN both
    BY <2>4, <2>5
  <2>8. \A n \in DOMAIN both : n \in DOMAIN old \/ n - Len(old) \in DOMAIN s
    BY <2>4, <2>5
  <2>9. \A n \in DOMAIN both : (\E k \in DOMAIN old : both[n] = old[k]) \/ both[n] \in new
    <3> SUFFICES ASSUME NEW n \in DOMAIN both, n \notin DOMAIN old
                 PROVE  both[n] \in new
      BY <2>5
    <3>1. n - Len(old) \in DOMAIN s /\ Len(old) + (n - Len(old)) = n
      BY <2>5, <2>8
    <3> QED
      BY <2>4, <2>5, <3>1
  <2>10. RestoredHistory(old) = ByIteration(both)
    BY <1>3 DEF RestoredHistory, Missing, both, s, new
  <2>11. \A i \in Missing(old) : EntryFor(i) \in new
    BY DEF new
  <2>12. \A x \in new : \E i \in Missing(old) : x = EntryFor(i)
    BY DEF new
  <2>13. \A x \in new : \E n \in DOMAIN both : both[n] = x
    BY <2>3, <2>5, <2>7
  <2>14. /\ ByIteration(both) \in Seq(Entry) /\ DOMAIN ByIteration(both) = DOMAIN both
         /\ \A n \in DOMAIN both : \E k \in DOMAIN both : ByIteration(both)[k] = both[n]
         /\ \A k \in DOMAIN both : \E n \in DOMAIN both : ByIteration(both)[k] = both[n]
    BY <2>5, SortingKeepsEntries
  <2>15. \A n \in DOMAIN old :
            \E m \in DOMAIN ByIteration(both) : ByIteration(both)[m] = old[n]
    BY <2>5, <2>6, <2>14
  <2>16. \A i \in Missing(old) : \E m \in DOMAIN ByIteration(both) : ByIteration(both)[m] = EntryFor(i)
    BY <2>11, <2>13, <2>14
  <2>17. \A m \in DOMAIN ByIteration(both) :
            \/ \E n \in DOMAIN old : ByIteration(both)[m] = old[n]
            \/ \E i \in Missing(old) : ByIteration(both)[m] = EntryFor(i)
    BY <2>9, <2>12, <2>14
  <2> QED
    BY <2>10, <2>14, <2>15, <2>16, <2>17
<1> QED
  BY <1>2, <1>3

(* The iterations with a record are those that are over, and the running   *)
(* one if its failure was written down; reconstruct_run goes on behind     *)
(* them.                                                                   *)
LEMMA ResumeGoesOn ==
    ASSUME ResumeInv, Resumes, pc # "done"
    PROVE  /\ records' = records
           /\ pc' \in Resting /\ it' \in 1..Iters /\ it <= it'
           /\ records[it] = None => it' = it /\ pc' = "start"
           /\ pc' = "start" => records[it'] = None
           /\ pc' = "done" => it' = Iters /\ records[it'] # None
           /\ \A i \in 1..Iters : /\ i < it' => records[i] # None
                                  /\ i > it' => records[i] = None
           /\ \A i \in Written : Over(i)'
<1> USE DEF ResumeInv
<1>1. /\ Iters \in Nat /\ it \in 1..Iters /\ it \in Nat /\ Written \subseteq 1..Iters
      /\ \A i \in 1..Iters : /\ i < it => records[i] # None
                             /\ i > it => records[i] = None
  BY DiskProperties DEF WrittenInv
<1>2. records' = records
  BY DEF Resumes
<1>3. CASE records[it] = None
  <2>1. Written = 1..(it - 1)
    BY <1>1, <1>3 DEF Written
  <2>2. Cardinality(Written) = it - 1
    BY <1>1, <2>1, IntervalSize
  <2>3. it' = it /\ pc' = "start"
    BY <1>1, <2>2 DEF Resumes
  <2> QED
    BY <1>1, <1>2, <1>3, <2>1, <2>3 DEF Resting, Over
<1>4. CASE records[it] # None
  <2>1. Written = 1..it
    BY <1>1, <1>4 DEF Written
  <2>2. Cardinality(Written) = it
    BY <1>1, <2>1, IntervalSize
  <2>3. CASE it < Iters
    <3>1. it' = it + 1 /\ pc' = "start"
      BY <1>1, <2>2, <2>3 DEF Resumes
    <3> QED
      BY <1>1, <1>2, <1>4, <2>1, <2>3, <3>1 DEF Resting, Over
  <2>4. CASE it = Iters
    <3>1. it' = it /\ pc' = "done"
      BY <1>1, <2>2, <2>4 DEF Resumes
    <3> QED
      BY <1>1, <1>2, <1>4, <2>1, <2>4, <3>1 DEF Resting, Over
  <2> QED
    BY <1>1, <2>3, <2>4
<1> QED
  BY <1>3, <1>4

(* The parent, read back, is the one that was in memory, unless that one   *)
(* had just moved.                                                         *)
LEMMA ResumeKeepsParent ==
    ASSUME ResumeInv, Resumes
    PROVE  /\ ~Moved => UNCHANGED <<parent, parentRtl, parentTree>>
           /\ \E m \in ReplayedAdmissions :
                 /\ \A k \in ReplayedAdmissions : k <= m
                 /\ parent' = filed[m].cfg /\ parentRtl' = filed[m].rtl
                 /\ parentTree' = filed[m].diff
           /\ parentTree' \in Tree /\ parentTree'.cfg = parent' /\ parentTree'.clean
           /\ parent' \in Config /\ parentRtl' \in Rtl
<1> USE DEF ResumeInv
<1>1. ReplayedAdmissions \subseteq 1..Iters /\ Replayed \subseteq 1..Iters
  BY DiskProperties
<1>2. Replayed # {} /\ records[Min(Replayed)] = "ADMIT_FRONT" /\ ScoresStand
  BY DEF Resumes, Replays, ScoresStand
<1>3. Min(Replayed) \in Replayed
  BY <1>1, <1>2, FirstOf
<1>4. ReplayedAdmissions # {}
  BY <1>2, <1>3 DEF ReplayedAdmissions, Admits
<1>5. PICK m \in ReplayedAdmissions :
         /\ m = Max(ReplayedAdmissions)
         /\ \A k \in ReplayedAdmissions : k <= m
  BY <1>1, <1>4, LastOf
<1>6. /\ parent' = filed[m].cfg /\ parentRtl' = filed[m].rtl
      /\ parentTree' = filed[m].diff
  BY <1>5 DEF Resumes, RestoresParent
<1>7. /\ filed[m].diff \in Tree /\ filed[m].diff.clean
      /\ IdentOf(filed[m].diff) = NameOf(m)
  BY DEF OnceInv, ReplayedAdmissions
<1>8. /\ filed[m].diff.cfg = filed[m].cfg /\ filed[m].diff.rtl = filed[m].rtl
      /\ filed[m].cfg \in Config /\ filed[m].rtl \in Rtl
  BY <1>7 DEF IdentOf, NameOf, Tree
<1>9. ~Moved => UNCHANGED <<parent, parentRtl, parentTree>>
  BY <1>2, <1>5, <1>6 DEF ParentFiled
<1> QED
  BY <1>5, <1>6, <1>7, <1>8, <1>9

(* What the restored dedup set and seen_info are read from.                *)
LEMMA RestoredNames ==
    ASSUME ResumeInv, Replays
    PROVE  /\ Replayed \subseteq Named /\ Replayed \subseteq 1..Iters
           /\ \A i \in Replayed : /\ NameOf(i) \in Ident /\ NameOf(i) \in RestoredSeen
                                  /\ records[i] \in Scores
           /\ RestoredSeen \subseteq Ident
           /\ \A d \in Ident :
                 /\ About(d) \subseteq 1..Iters
                 /\ About(d) = {} => RestoredInfo[d] = None
                 /\ About(d) # {} => /\ Max(About(d)) \in About(d)
                                     /\ \A k \in About(d) : k <= Max(About(d))
                                     /\ RestoredInfo[d] = records[Max(About(d))]
           /\ RestoredInfo \in [Ident -> RunVerdict \union {None}]
<1> USE DEF ResumeInv
<1>1. /\ Replayed \subseteq Written /\ Written \subseteq 1..Iters
      /\ \A i \in Named : NameOf(i) \in Ident
      /\ \A i \in Written : records[i] \in RunVerdict
  BY DiskProperties
<1>2. ASSUME NEW i \in Replayed
      PROVE  i \in Named /\ records[i] \in Scores /\ NameOf(i) \in RestoredSeen
  <2>1. NameOf(i) \in Ident
    BY DEF OnceInv, SearchTypeOK, IterationTypeOK
  <2>2. filed[i].cfg # None /\ filed[i].rtl # None
    BY <2>1, NoneAssumption DEF NameOf, Ident
  <2>3. i \in Named
    BY <1>1, <2>2 DEF Named
  <2>4. records[i] \in Scores
    BY DEF Replays
  <2>5. records[i] \notin {"SCOPE_VIOLATION", "T0_ILLEGAL"}
    BY <2>4 DEF Scores, Admits
  <2> QED
    BY <2>3, <2>4, <2>5 DEF RestoredSeen
<1>3. RestoredSeen \subseteq Ident
  BY <1>1 DEF RestoredSeen
<1>4. ASSUME NEW d \in Ident
      PROVE  /\ About(d) \subseteq 1..Iters
             /\ About(d) = {} => RestoredInfo[d] = None
             /\ About(d) # {} => /\ Max(About(d)) \in About(d)
                                 /\ \A k \in About(d) : k <= Max(About(d))
                                 /\ RestoredInfo[d] = records[Max(About(d))]
             /\ RestoredInfo[d] \in RunVerdict \union {None}
  <2>1. About(d) \subseteq Written
    BY DEF About, Named
  <2>2. RestoredInfo[d] = IF About(d) = {} THEN None ELSE records[Max(About(d))]
    BY DEF RestoredInfo, About
  <2>3. About(d) # {} => /\ Max(About(d)) \in About(d)
                         /\ \A k \in About(d) : k <= Max(About(d))
    BY <1>1, <2>1, LastOf
  <2> QED
    BY <1>1, <2>1, <2>2, <2>3
<1>5. RestoredInfo \in [Ident -> RunVerdict \union {None}]
  <2>1. RestoredInfo = [d \in Ident |-> RestoredInfo[d]]
    BY DEF RestoredInfo
  <2> HIDE DEF RestoredInfo
  <2> QED
    BY <1>4, <2>1
<1> QED
  BY <1>1, <1>2, <1>3, <1>4, <1>5

LEMMA ResumeKeepsType ==
    ASSUME ResumeInv, Resumes, pc # "done"
    PROVE  SearchTypeOK'
<1> USE DEF ResumeInv
<1>1. /\ records' = records
      /\ pc' \in Resting /\ it' \in 1..Iters
  BY ResumeGoesOn
<1>2. ResetLocals /\ Replays
  BY DEF Resumes
<1>3. parent' \in Config /\ parentRtl' \in Rtl \union {None} /\ parentTree' \in Tree
  BY ResumeKeepsParent
<1>4. tree' \in Tree /\ toggles' \in Config
  <2>1. RollbackTo(parent', parentTree')
    BY DEF Resumes
  <2>2. BaseRtl \in Rtl
    BY ConstAssumption
  <2>3. [cfg |-> parent', rtl |-> BaseRtl, clean |-> TRUE] \in Tree
    BY <1>3, <2>2 DEF Tree
  <2> QED
    BY <1>3, <2>1, <2>3 DEF RollbackTo
<1>5. seen' \subseteq Ident /\ seenInfo' \in [Ident -> RunVerdict \union {None}]
  BY <1>2, RestoredNames DEF Resumes
<1>6. prevNet' \in NetId \union {None} /\ prevRtl' \in Rtl \union {None}
  <2> DEFINE digested == {i \in Written : filed[i].net # None}
  <2>1. RestoresNetlist
    BY DEF Resumes
  <2>2. CASE digested = {}
    BY <2>1, <2>2 DEF RestoresNetlist
  <2>3. CASE digested # {}
    <3>1. digested \subseteq 1..Iters
      BY DiskProperties
    <3>2. Max(digested) \in 1..Iters
      <4> HIDE DEF digested
      <4> QED
        BY <2>3, <3>1, LastOf
    <3>3. filed[Max(digested)] \in File
      BY <3>2, DiskProperties
    <3>4. prevNet' = filed[Max(digested)].net /\ prevRtl' = filed[Max(digested)].rtl
      BY <2>1, <2>3 DEF RestoresNetlist
    <3> HIDE DEF digested
    <3> QED
      BY <3>3, <3>4 DEF File
  <2> QED
    BY <2>2, <2>3
<1>7. base' \in Ident /\ admitted' \subseteq Ident
  <2>1. Min(Replayed) \in Replayed
    BY <1>2, RestoredNames, FirstOf DEF Replays
  <2> QED
    BY <1>2, <2>1, RestoredNames DEF Resumes, ReplayedAdmissions
<1>8. history' \in Seq(Entry)
  BY OnDiskProperties, RestoredHistoryProperties DEF Resumes
<1>9. IterationTypeOK'
  BY <1>1, <1>2, <1>3, <1>4, <1>5, <1>6, ResetType, SearchAssumption
     DEF IterationTypeOK, RecordType, Class
<1> QED
  BY <1>1, <1>2, <1>3, <1>5, <1>7, <1>8, <1>9, ResetType
     DEF SearchTypeOK, Place, Resting

(* What an interrupted iteration left out of the history is put in.        *)
LEMMA ResumeTells ==
    ASSUME ResumeInv, Resumes, pc # "done", restarts' = restarts + 1, UNCHANGED filed
    PROVE  ToldInv'
<1> USE DEF ResumeInv
<1>1. /\ records' = records /\ it <= it' /\ Written' = Written
      /\ restarts \in Nat /\ Written \subseteq 1..Iters
      /\ it \in Nat /\ it' \in Nat /\ Iters \in Nat
  BY ResumeGoesOn, DiskProperties DEF Written, DiskTypeOK
<1> PICK h \in OnDisk : history' = RestoredHistory(h)
  BY DEF Resumes
<1>0. /\ h \in Seq(Entry)
      /\ \A n \in DOMAIN h : n \in DOMAIN history /\ h[n] = history[n]
      /\ \A n \in DOMAIN history : n \in DOMAIN h \/ Forgotten(history[n].it)
  BY OnDiskProperties
<1>2. /\ \A n \in DOMAIN history :
            \/ Forgotten(history[n].it)
            \/ \E m \in DOMAIN history' : history'[m] = history[n]
      /\ \A i \in Missing(h) : \E m \in DOMAIN history' : history'[m] = EntryFor(i)
      /\ \A m \in DOMAIN history' :
            \/ \E n \in DOMAIN history : history'[m] = history[n]
            \/ \E i \in Missing(h) : history'[m] = EntryFor(i)
  BY <1>0, RestoredHistoryProperties
<1>3. \A i \in 1..Iters : records[i] # None => i <= it
  BY <1>1 DEF WrittenInv
<1>4. ASSUME NEW m \in DOMAIN history'
      PROVE  history'[m].it <= it'
  <2>1. CASE \E n \in DOMAIN history : history'[m] = history[n]
    <3>1. PICK n \in DOMAIN history : history'[m] = history[n]
      BY <2>1
    <3>2. history[n].it <= it /\ history[n].it \in Nat
      BY HistoryEntries DEF ToldInv, SearchTypeOK
    <3> QED
      BY <1>1, <3>1, <3>2
  <2>2. CASE \E i \in Missing(h) : history'[m] = EntryFor(i)
    <3>1. PICK i \in Missing(h) : history'[m] = EntryFor(i)
      BY <2>2
    <3>2. i \in 1..Iters /\ i <= it
      BY <1>1, <1>3, DiskProperties DEF Missing, Written
    <3> QED
      BY <1>1, <3>1, <3>2 DEF EntryFor
  <2> QED
    BY <1>2, <2>1, <2>2
<1>5. ASSUME NEW i \in Written, records[i] \notin NoDesign \union {"SCOPE_VIOLATION"},
             filed[i].cfg # None
      PROVE  \E m \in DOMAIN history' :
                /\ history'[m].it = i
                /\ restarts' <= 1 => history'[m].state = filed[i].cfg
  <2>1. CASE Over(i)
    <3>1. \E n \in DOMAIN history :
             /\ history[n].it = i
             /\ restarts <= 1 => history[n].state = filed[i].cfg
      BY <1>5, <2>1 DEF ToldInv, EveryDesignIsTold
    <3>2. restarts' <= 1 => restarts <= 1
      BY <1>1
    <3>3. ~Forgotten(i)
      BY <1>5 DEF Forgotten, NoDesign
    <3> QED
      BY <1>2, <3>1, <3>2, <3>3
  <2>2. CASE ~Over(i)
    <3>1. i = it /\ records[it] # None
      BY <1>1, <1>3, <2>2 DEF Over, Written
    <3>2. i \in FailedDesigns
      BY <1>5, <2>2 DEF FailedDesigns, WrittenInv
    <3>3. CASE i \in Missing(h)
      BY <1>2, <3>3 DEF EntryFor
    <3>4. CASE i \notin Missing(h)
      <4>1. PICK n \in DOMAIN history : history[n].it = i
        BY <1>0, <3>2, <3>4 DEF Missing
      <4>2. restarts' <= 1 => restarts = 0
        BY <1>1
      <4>3. restarts = 0 => history[n].state = rec.cfg
        BY <3>1, <4>1 DEF ToldInv, ScoredInv
      <4>4. filed[i].cfg = rec.cfg
        BY <3>1 DEF WrittenInv, NameOf, RecName
      <4>5. ~Forgotten(i)
        BY <1>5 DEF Forgotten, NoDesign
      <4> QED
        BY <1>2, <4>1, <4>2, <4>3, <4>4, <4>5
    <3> QED
      BY <3>3, <3>4
  <2> QED
    BY <2>1, <2>2
<1>6. EveryDesignIsTold'
  BY <1>1, <1>5 DEF EveryDesignIsTold
<1>7. restarts' # 0 /\ pc' # "record"
  BY <1>1, ResumeGoesOn DEF Resting
<1> QED
  BY <1>4, <1>6, <1>7 DEF ToldInv

LEMMA ResumeKeepsResumeInv ==
    ASSUME ResumeInv, Resumes, pc # "done", restarts' = restarts + 1, UNCHANGED filed
    PROVE  ResumeInv'
<1> USE DEF ResumeInv
<1>1. /\ UNCHANGED <<records, filed>>
      /\ pc' \in Resting /\ it' \in 1..Iters
      /\ \A i \in Written : Over(i)'
  BY ResumeGoesOn
<1>2. Replays /\ score' = None /\ attempts' = 0
  BY ResetType DEF Resumes
<1>3. SearchTypeOK' /\ DiskTypeOK'
  BY ResumeKeepsType DEF DiskTypeOK
<1>4. RoundInv' /\ PassedInv' /\ ScoreInv' /\ PublishedInv' /\ ScoredInv'
  BY <1>1, <1>2 DEF RoundInv, PassedInv, ScoreInv, PublishedInv, ScoredInv, InRounds,
     Gates, HasPassed, Resting
<1>5. /\ Written' = Written /\ Replayed' = Replayed
      /\ ReplayedAdmissions' = ReplayedAdmissions
      /\ \A i \in 1..Iters : NameOf(i)' = NameOf(i)
      /\ \A d \in Ident : About(d)' = About(d)
  BY <1>1 DEF Replayed, ReplayedAdmissions, Written, NameOf, About, Named, FailedDesigns
<1>6. Replayed \subseteq Written /\ ReplayedAdmissions \subseteq Replayed
      /\ Written \subseteq 1..Iters
  BY DiskProperties
<1>7. WrittenInv'
  BY <1>1, <1>5, <1>6, ResumeGoesOn DEF WrittenInv, FailureFiled, Resting
<1>8. OnceInv'
  <2>1. pc' \notin Unmeasured
    BY <1>1 DEF Resting, Unmeasured, PastIdentity, PastLegality, PastScope
  <2>2. \A i \in Replayed : NameOf(i) \in seen' /\ records[i] \in Scores
    BY <1>2, RestoredNames DEF Resumes
  <2>3. RecordsMeasureOnce'
    BY <1>5, <1>6 DEF OnceInv, RecordsMeasureOnce
  <2> QED
    BY <1>1, <1>2, <1>5, <1>6, <2>1, <2>2, <2>3 DEF OnceInv, IdentOf
<1>9. ParentFiled' /\ MovedInv'
  <2>1. PICK m \in ReplayedAdmissions :
           /\ \A k \in ReplayedAdmissions : k <= m
           /\ parent' = filed[m].cfg /\ parentRtl' = filed[m].rtl
           /\ parentTree' = filed[m].diff
    BY ResumeKeepsParent
  <2>2. ParentDiff'
    BY ResumeKeepsParent DEF ParentDiff
  <2>3. NameOf(m)' = <<parent', parentRtl'>> /\ m \in Replayed'
    BY <1>1, <1>5, <1>6, <2>1 DEF NameOf
  <2>4. \A n \in ReplayedAdmissions : (\A k \in ReplayedAdmissions : k <= n) => n = m
    BY <1>6, <2>1, OneLast
  <2>5. MovedInv'
    BY <1>1, <1>2, VerdictsAreApart DEF MovedInv, Moved, Resting
  <2> QED
    BY <1>1, <1>5, <2>1, <2>2, <2>3, <2>4, <2>5 DEF ParentFiled
<1>10. RestInv'
  <2>1. RollbackTo(parent', parentTree')
    BY DEF Resumes
  <2>2. /\ tree' = parentTree' \/ ApplyMayFail
        /\ toggles' = parent'
    BY <2>1 DEF RollbackTo
  <2>3. parentTree'.cfg = parent'
    BY ResumeKeepsParent
  <2> QED
    BY <1>1, <2>2, <2>3 DEF RestInv, TreeIsParentAtRest, Resting
<1>11. BaseInv'
  <2>1. Replayed # {}
    BY <1>2 DEF Replays
  <2>2. base' = NameOf(Min(Replayed))
    BY DEF Resumes
  <2>3. \A m \in Replayed : (\A k \in Replayed : m <= k) => Min(Replayed) = m
    BY <1>6, OneFirst
  <2> QED
    BY <1>2, <1>5, <1>6, <2>1, <2>2, <2>3 DEF BaseInv
<1>12. AdmittedInv'
  <2>1. admitted' = {NameOf(i) : i \in ReplayedAdmissions}
    BY DEF Resumes
  <2> QED
    BY <1>1, <1>2, <1>5, <1>6, <2>1, VerdictsAreApart DEF AdmittedInv, ReplayedAdmissions
<1>13. InfoInv'
  <2>1. seenInfo' = RestoredInfo
    BY DEF Resumes
  <2>2. ASSUME NEW d \in Ident
        PROVE  Past(d)' = About(d)
    BY <1>1, <1>5 DEF Past, About, Named
  <2>3. ASSUME NEW d \in Ident, seenInfo'[d] # None
        PROVE  \E m \in Past(d)' : /\ \A k \in Past(d)' : k <= m
                                   /\ records'[m] = seenInfo'[d]
    BY <1>1, <1>2, <2>1, <2>2, <2>3, RestoredNames
  <2> QED
    BY <1>1, <2>3 DEF InfoInv, Resting
<1>14. ToldInv'
  BY ResumeTells
<1> QED
  BY <1>3, <1>4, <1>7, <1>8, <1>9, <1>10, <1>11, <1>12, <1>13, <1>14

-----------------------------------------------------------------------------
(***************************************************************************)
(* The invariant of a run that may die                                     *)
(***************************************************************************)

LEMMA ResumeInvInit == ResumeInit => ResumeInv
<1> SUFFICES ASSUME ResumeInit
             PROVE  ResumeInv
  OBVIOUS
<1>1. RunInv /\ Init
  BY RunInvInit DEF ResumeInit
<1>2. filed = [i \in 1..Iters |-> NotFiled] /\ restarts = 0
  BY DEF ResumeInit
<1>3. SearchTypeOK /\ RoundInv /\ PassedInv /\ ScoreInv /\ PublishedInv /\ RestInv
  BY <1>1 DEF RunInv
<1>4. DiskTypeOK
  BY <1>2 DEF DiskTypeOK, NotFiled, File
<1>5. /\ pc = "start" /\ score = None /\ base = None /\ admitted = {} /\ it = 1
      /\ \A i \in 1..Iters : records[i] = None
      /\ \A d \in Ident : seenInfo[d] = None
      /\ DOMAIN history = {}
      /\ parent = Baseline /\ parentRtl = None /\ parentTree = BaseTree
  BY <1>1 DEF Init
<1>6. Written = {} /\ Replayed = {} /\ ReplayedAdmissions = {}
  BY <1>5 DEF Written, Replayed, ReplayedAdmissions
<1>7. WrittenInv
  BY <1>3, <1>5, <1>6 DEF WrittenInv, FailureFiled, SearchTypeOK
<1>8. OnceInv /\ ScoredInv /\ MovedInv
  BY <1>5, <1>6, VerdictsAreApart DEF OnceInv, ScoredInv, MovedInv, Moved, RecordsMeasureOnce
<1>9. ParentFiled
  BY <1>5, <1>6, BaseTreeType DEF ParentFiled, ParentDiff, ReplayedAdmissions
<1>10. BaseInv /\ AdmittedInv /\ InfoInv /\ ToldInv
  BY <1>5, <1>6, VerdictsAreApart
     DEF BaseInv, AdmittedInv, InfoInv, ToldInv, EveryDesignIsTold, Admits
<1> QED
  BY <1>3, <1>4, <1>7, <1>8, <1>9, <1>10 DEF ResumeInv

LEMMA ResumeInvStutter == ResumeInv /\ UNCHANGED runVars => ResumeInv'
<1> SUFFICES ASSUME ResumeInv, UNCHANGED runVars
             PROVE  ResumeInv'
  OBVIOUS
<1> USE DEF ResumeInv, runVars, vars, endVars, iterVars, givenVars, builtVars,
        ladderVars, repairVars
<1>1. SearchTypeOK' /\ DiskTypeOK'
  BY StutterKeepsType DEF SearchTypeOK, DiskTypeOK
<1>2. LadderInv => LadderInv'
  BY DEF LadderInv, AdmissibleSoFar, MutationSoFar, FailureSoFar,
         ConfigReverted, RtlReverted, IdentOf
<1>3. (RoundInv /\ PassedInv /\ PublishedInv)' /\ (pc' # "aborted" => ScoreInv')
  BY <1>2 DEF RoundInv, PassedInv, ScoreInv, PublishedInv, IdentOf
<1> USE DEF Replayed, ReplayedAdmissions, Written, NameOf, RecName, IdentOf, Over, Moved,
        HasDesign
<1>4. (WrittenInv /\ ScoredInv /\ OnceInv)'
  BY DEF WrittenInv, FailureFiled, ScoredInv, OnceInv, RecordsMeasureOnce
<1>5. (MovedInv /\ ParentFiled /\ RestInv)'
  BY DEF MovedInv, ParentFiled, ParentDiff, ScoresStand, RestInv, TreeIsParentAtRest,
         JustRaised, Finished
<1>6. (BaseInv /\ AdmittedInv)'
  BY DEF BaseInv, AdmittedInv
<1>7. (InfoInv /\ ToldInv)'
  BY DEF InfoInv, ToldInv, EveryDesignIsTold, Past, About, Named, FailedDesigns, Tells,
         Forgotten, Verdict
<1> QED
  BY <1>1, <1>3, <1>4, <1>5, <1>6, <1>7

LEMMA ResumeInvStep == ResumeInv /\ [ResumeNext]_runVars => ResumeInv'
<1>1. ASSUME ResumeInv, Restart
      PROVE  ResumeInv'
  BY <1>1, ResumeKeepsResumeInv, RefusalKeepsResumeInv DEF Restart
<1> QED
  BY <1>1, StepKeepsResumeInv, ResumeInvStutter DEF ResumeNext

LEMMA ResumeCorrect == ResumeSpec => []ResumeInv
BY ResumeInvInit, ResumeInvStep, PTL DEF ResumeSpec

-----------------------------------------------------------------------------
(***************************************************************************)
(* What a resumed run promises                                             *)
(***************************************************************************)

(* Every variable of the search keeps its type, the history rebuilt by     *)
(* reconstruct_run included.                                               *)
THEOREM ResumedTypeCorrect == ResumeSpec => []SearchTypeOK
<1>1. ResumeInv => SearchTypeOK
  BY DEF ResumeInv
<1> QED
  BY <1>1, ResumeCorrect, PTL

(* Between two iterations the container holds exactly the parent, however  *)
(* often the process died and at whatever step.                            *)
THEOREM ResumedContainerHoldsParent == ResumeSpec => []TreeIsParentAtRest
<1>1. ResumeInv => TreeIsParentAtRest
  BY DEF ResumeInv, RestInv
<1> QED
  BY <1>1, ResumeCorrect, PTL

(* No two records hold a measurement of the same design.                   *)
THEOREM ResumedRunMeasuresOnce == ResumeSpec => []RecordsMeasureOnce
<1>1. ResumeInv => RecordsMeasureOnce
  BY DEF ResumeInv, OnceInv
<1> QED
  BY <1>1, ResumeCorrect, PTL

(* No design that was evaluated is missing from what the proposers see.    *)
THEOREM ResumedRunTellsAll == ResumeSpec => []EveryDesignIsTold
<1>1. ResumeInv => EveryDesignIsTold
  BY DEF ResumeInv, ToldInv
<1> QED
  BY <1>1, ResumeCorrect, PTL

(* What a proposer was told between two iterations is in the records, but  *)
(* for what a raise took from them.                                        *)
LEMMA ResumeKeepsInfo ==
    ASSUME ResumeInv, Resumes, pc = "start", NEW d \in Ident, seenInfo[d] # None
    PROVE  \/ seenInfo'[d] \in {seenInfo[d], "SCOPE_VIOLATION"}
           \/ \E i \in Written : Forgotten(i) /\ NameOf(i) = d
<1> USE DEF ResumeInv
<1>1. score = None /\ records[it] = None /\ Replays /\ seenInfo' = RestoredInfo
  BY DEF ScoredInv, WrittenInv, Resumes
<1>2. About(d) = Past(d) /\ About(d) \subseteq 1..Iters
  <2>1. \A i \in Written : i \in 1..Iters /\ Over(i)
    BY <1>1, DiskProperties DEF Written, WrittenInv, Over
  <2> QED
    BY <2>1 DEF About, Past, Named
<1>3. CASE \E i \in 1..Iters : Over(i) /\ Forgotten(i) /\ NameOf(i) = d
  BY <1>3, NoVerdictAssumption, VerdictsAreApart DEF Forgotten, Written
<1>4. CASE \E m \in About(d) :
              /\ \A k \in About(d) : k <= m
              /\ records[m] \in {seenInfo[d], "SCOPE_VIOLATION", "INFRA_FAILURE"}
  <2>1. PICK m \in About(d) :
           /\ \A k \in About(d) : k <= m
           /\ records[m] \in {seenInfo[d], "SCOPE_VIOLATION", "INFRA_FAILURE"}
    BY <1>4
  <2>2. Max(About(d)) = m
    BY <1>2, <2>1, OneLast
  <2>3. records[m] # "INFRA_FAILURE"
    BY <1>1 DEF About, Replays, Scores, Admits, FailedDesigns, NoDesign
  <2> QED
    BY <1>1, <2>1, <2>2, <2>3, RestoredNames
<1> QED
  BY <1>1, <1>2, <1>3, <1>4 DEF InfoInv, Tells

(* A resumed run continues the search that died.                           *)
THEOREM ResumeContinuesTheSearch == ResumeSpec => ResumeKeepsTheSearch
<1> DEFINE Kept ==
      Resumed =>
          /\ \/ UNCHANGED <<parent, parentRtl, parentTree>>
             \/ Moved /\ UNCHANGED it
          /\ \A n \in DOMAIN history :
                \/ Forgotten(history[n].it)
                \/ \E m \in DOMAIN history' : history'[m] = history[n]
          /\ pc = "start" =>
                /\ UNCHANGED <<it, base, admitted>>
                /\ \A d \in Ident :
                      \/ seenInfo[d] = None
                      \/ seenInfo'[d] \in {seenInfo[d], "SCOPE_VIOLATION"}
                      \/ \E i \in Written : Forgotten(i) /\ NameOf(i) = d
<1>1. ASSUME ResumeInv, ResumeNext, Resumed
      PROVE  Kept
  <2>1. Resumes /\ pc # "done"
    BY <1>1 DEF Resumed, ResumeNext, RunStep, Restart, RefusesToResume
  <2>2. \/ UNCHANGED <<parent, parentRtl, parentTree>>
        \/ Moved /\ UNCHANGED it
    <3>1. Moved => records[it] = None
      BY <1>1 DEF ResumeInv, ScoredInv, Moved
    <3> QED
      BY <1>1, <2>1, <3>1, ResumeKeepsParent, ResumeGoesOn
  <2>3. \A n \in DOMAIN history :
           \/ Forgotten(history[n].it)
           \/ \E m \in DOMAIN history' : history'[m] = history[n]
    <3>1. PICK h \in OnDisk : history' = RestoredHistory(h)
      BY <2>1 DEF Resumes
    <3>2. /\ h \in Seq(Entry)
          /\ \A n \in DOMAIN h : h[n] = history[n]
          /\ \A n \in DOMAIN history : n \in DOMAIN h \/ Forgotten(history[n].it)
      BY <1>1, OnDiskProperties DEF ResumeInv
    <3>3. \A n \in DOMAIN h : \E m \in DOMAIN history' : history'[m] = h[n]
      BY <1>1, <3>1, <3>2, RestoredHistoryProperties DEF ResumeInv
    <3> QED
      BY <3>2, <3>3
  <2>4. ASSUME pc = "start"
        PROVE  UNCHANGED <<it, base, admitted>>
    <3>1. score = None /\ records[it] = None
      BY <1>1, <2>4 DEF ResumeInv, ScoredInv, WrittenInv
    <3>2. it' = it
      BY <1>1, <2>1, <3>1, ResumeGoesOn
    <3>3. base' = base
      <4>1. Replayed # {} /\ Replayed \subseteq 1..Iters /\ base' = NameOf(Min(Replayed))
        BY <1>1, <2>1, RestoredNames DEF Resumes, Replays
      <4>2. Min(Replayed) \in Replayed /\ \A k \in Replayed : Min(Replayed) <= k
        BY <4>1, FirstOf
      <4> QED
        BY <1>1, <4>1, <4>2 DEF ResumeInv, BaseInv
    <3>4. admitted' = admitted
      <4>1. /\ admitted' = {NameOf(i) : i \in ReplayedAdmissions}
            /\ \A i \in Replayed : records[i] \in Scores
        BY <2>1 DEF Resumes, Replays
      <4>2. \A d \in admitted : \E i \in ReplayedAdmissions : d = NameOf(i)
        BY <1>1, <3>1, <4>1, VerdictsAreApart
           DEF ResumeInv, AdmittedInv, ReplayedAdmissions, Admits
      <4>3. \A i \in ReplayedAdmissions : NameOf(i) \in admitted
        BY <1>1 DEF ResumeInv, AdmittedInv
      <4> QED
        BY <4>1, <4>2, <4>3
    <3> QED
      BY <3>2, <3>3, <3>4
  <2> QED
    BY <1>1, <2>1, <2>2, <2>3, <2>4, ResumeKeepsInfo
<1>2. ResumeInv /\ [ResumeNext]_runVars => [Kept]_runVars
  BY <1>1
<1> QED
  BY <1>2, ResumeCorrect, PTL DEF ResumeSpec, ResumeKeepsTheSearch
=============================================================================
