----------------------- MODULE SearchRefinementProofs -----------------------
(***************************************************************************)
(* SearchLoop implements SearchContract, for every value of the constants: *)
(* the initial states map to initial states, and under the invariant of    *)
(* SearchLoopProofs every step of a run maps to a step of the contract or  *)
(* to a stutter.  Of the steps only the first of an iteration, the move of *)
(* the parent, the ending and an abort are not stutters.                   *)
(***************************************************************************)
EXTENDS SearchRefinement, SearchLoopProofs

(* What the contract keeps of the iterations that are over.                *)
AbstractVars == <<AbstractLog, AbstractMeasured>>

(* A tree in the container is not the contract's mark for a busy one.      *)
LEMMA TreesAreNotBusy ==
    ASSUME NEW t \in Tree
    PROVE  t # [busy |-> TRUE]
<1>1. DOMAIN t = {"cfg", "rtl", "clean"}
  BY DEF Tree
<1>2. DOMAIN [busy |-> TRUE] = {"busy"}
  OBVIOUS
<1>3. "cfg" \notin {"busy"}
  OBVIOUS
<1> QED
  BY <1>1, <1>2, <1>3

LEMMA Outcomes ==
    /\ \A v \in Admits : OutcomeOf(v) = "admitted"
    /\ \A v \in Scores \ Admits : OutcomeOf(v) = "rejected"
    /\ \A v \in FailVerdict \ {"INFRA_FAILURE"} : OutcomeOf(v) = "failed"
    /\ OutcomeOf("INFRA_FAILURE") = "lost"
<1>1. "INFRA_FAILURE" \notin Scores /\ "INFRA_FAILURE" \notin Admits
  BY DEF Scores, Admits
<1> QED
  BY <1>1, VerdictsAreApart DEF OutcomeOf

(* The initial states of a run are initial states of the contract.         *)
LEMMA RefinesInit == Init => Contract!Init
<1> SUFFICES ASSUME Init
             PROVE  Contract!Init
  OBVIOUS
<1>1. Finished = 0 /\ pc = "start"
  BY DEF Init, Finished
<1>2. AbstractLog = <<>>
  BY <1>1 DEF AbstractLog
<1>3. AbstractMeasured = {}
  BY DEF Init, AbstractMeasured, Measured
<1>4. ~Moved
  BY DEF Init, Moved
<1> QED
  BY <1>1, <1>2, <1>3, <1>4 DEF Init, Contract!Init, Resting

-----------------------------------------------------------------------------
(***************************************************************************)
(* The log and the measured designs                                        *)
(***************************************************************************)

Outcome4 == {"admitted", "rejected", "failed", "lost"}

LEMMA OutcomeType4 == \A v : OutcomeOf(v) \in Outcome4
BY DEF OutcomeOf, Outcome4

LEMMA LogType ==
    ASSUME NEW n \in Nat, NEW r
    PROVE  /\ [i \in 1..n |-> OutcomeOf(r[i])] \in Seq(Outcome4)
           /\ Len([i \in 1..n |-> OutcomeOf(r[i])]) = n
<1>1. [i \in 1..n |-> OutcomeOf(r[i])] \in [1..n -> Outcome4]
  BY OutcomeType4
<1>2. [i \in 1..n |-> OutcomeOf(r[i])] \in Seq(Outcome4)
  BY <1>1, SeqDef
<1>3. DOMAIN [i \in 1..n |-> OutcomeOf(r[i])] = 1..n
  OBVIOUS
<1>4. ASSUME NEW s \in Seq(Outcome4), DOMAIN s = 1..n
      PROVE  Len(s) = n
  <2>1. Len(s) \in Nat /\ 1..Len(s) = 1..n
    BY <1>4, LenProperties
  <2>2. \A a, b \in Nat : 1..a = 1..b => a = b
    OBVIOUS
  <2> QED
    BY <2>1, <2>2
<1> QED
  BY <1>2, <1>3, <1>4

LEMMA FinishedIsSmall ==
    ASSUME SearchTypeOK
    PROVE  /\ Finished \in 0..Iters /\ Iters \in Nat /\ it \in Nat
           /\ pc # "done" => Finished = it - 1 /\ Finished < Iters
           /\ Len(AbstractLog) = Finished
<1>1. it \in 1..Iters /\ Iters \in Nat
  BY SearchAssumption DEF SearchTypeOK
<1>2. Finished \in 0..Iters /\ (pc # "done" => Finished = it - 1 /\ Finished < Iters)
  BY <1>1 DEF Finished
<1> QED
  BY <1>1, <1>2, LogType DEF AbstractLog

(* No outcome is added before an iteration ends.                           *)
LEMMA WithinKeepsLog ==
    ASSUME RunInv, RunInv', Within
    PROVE  UNCHANGED AbstractVars
<1> USE DEF RunInv
<1>1. /\ pc # "done" /\ UNCHANGED it
      /\ \A i \in 1..Iters : i # it => records'[i] = records[i]
  BY WithinLeaves
<1>2. /\ \A i \in 1..Iters : Over(i)' <=> Over(i)
      /\ ~Over(it)
      /\ Finished' = Finished
  BY OverWithin
<1>3. AbstractLog' = AbstractLog
  <2>1. \A i \in 1..Finished : i \in 1..Iters /\ i # it
    BY <1>1, FinishedIsSmall
  <2> QED
    BY <1>1, <1>2, <2>1 DEF AbstractLog
<1>4. AbstractMeasured' = AbstractMeasured
  <2>1. \A n \in Measured : history[n].it \in 1..Iters
    BY HistoryEntries DEF SearchTypeOK, Measured
  <2>2. \A n \in Measured : history'[n] = history[n]
    BY MeasuredGrows, NextSorts
  <2>3. \A n \in Measured : Over(history[n].it)' <=> Over(history[n].it)
    BY <1>2, <2>1, <2>2 DEF Over
  <2>4. {m \in Measured' : Over(history[m].it)'} = {m \in Measured : Over(history[m].it)}
    <3>1. \A m \in Measured' : m \in Measured \/ history'[m].it = it
      BY MeasuredGrows, NextSorts
    <3>2. Measured \subseteq Measured'
      BY MeasuredGrows, NextSorts
    <3>3. ~Over(it)' /\ it \in Nat
      BY <1>1, <1>2, FinishedIsSmall DEF SearchTypeOK
    <3> QED
      BY <1>1, <2>3, <3>1, <3>2, <3>3 DEF Over
  <2> QED
    BY <2>2, <2>4 DEF AbstractMeasured
<1> QED
  BY <1>3, <1>4 DEF AbstractVars

LEMMA LogGrows ==
    ASSUME NEW s \in Seq(Outcome4), NEW e \in Outcome4
    PROVE  /\ Append(s, e) \in Seq(Outcome4)
           /\ Len(Append(s, e)) = Len(s) + 1
           /\ \A i \in 1..Len(s) : Append(s, e)[i] = s[i]
           /\ Append(s, e)[Len(s) + 1] = e
BY AppendProperties

(* An ending appends the outcome of its record to the log.                 *)
LEMMA EndsAppend ==
    ASSUME RunInv, RunInv', Ends
    PROVE  /\ AbstractLog' = Append(AbstractLog, OutcomeOf(records'[it]))
           /\ pc \notin Resting /\ pc # "aborted" /\ pc' \in Resting
<1> USE DEF RunInv
<1>1. /\ EndIteration /\ pc \in {"record", "raised"}
      /\ pc' \in Resting
      /\ \A i \in 1..Iters : i # it => records'[i] = records[i]
  BY EndsLeave, EndingMovesOn
<1>2. Finished' = it /\ Finished = it - 1 /\ it \in 1..Iters
  BY <1>1, OverAtEnd DEF SearchTypeOK
<1>3. Iters \in Nat /\ it \in Nat /\ it - 1 \in Nat
  BY <1>2, SearchAssumption
<1> DEFINE old == AbstractLog
           new == Append(old, OutcomeOf(records'[it]))
<1>4. old \in Seq(Outcome4) /\ Len(old) = it - 1 /\ old = [i \in 1..(it - 1) |-> OutcomeOf(records[i])]
  BY <1>2, <1>3, LogType DEF AbstractLog
<1>5. /\ AbstractLog' \in Seq(Outcome4) /\ Len(AbstractLog') = it
      /\ AbstractLog' = [i \in 1..it |-> OutcomeOf(records'[i])]
  BY <1>2, <1>3, LogType DEF AbstractLog
<1>6. /\ new \in Seq(Outcome4) /\ Len(new) = it
      /\ \A i \in 1..(it - 1) : new[i] = old[i]
      /\ new[it] = OutcomeOf(records'[it])
  <2>1. OutcomeOf(records'[it]) \in Outcome4
    BY OutcomeType4
  <2>2. (it - 1) + 1 = it
    BY <1>3
  <2> HIDE DEF old
  <2>3. /\ new \in Seq(Outcome4) /\ Len(new) = Len(old) + 1
        /\ \A i \in 1..Len(old) : new[i] = old[i]
        /\ new[Len(old) + 1] = OutcomeOf(records'[it])
    BY <1>4, <2>1, LogGrows
  <2> HIDE DEF new
  <2> QED
    BY <1>4, <2>2, <2>3
<1>7. \A i \in 1..it : AbstractLog'[i] = new[i]
  <2>1. \A i \in 1..(it - 1) : records'[i] = records[i]
    BY <1>1, <1>2, <1>3
  <2>2. \A i \in 1..it : i \in 1..(it - 1) \/ i = it
    BY <1>3
  <2> HIDE DEF old, new
  <2> QED
    BY <1>4, <1>5, <1>6, <2>1, <2>2
<1>8. AbstractLog' = new
  <2> HIDE DEF new
  <2> QED
    BY <1>5, <1>6, <1>7, SeqEqual
<1> QED
  BY <1>1, <1>8 DEF Resting

(* After an ending every measurement is of an iteration that is over, and  *)
(* before it only the running iteration's own is missing.                  *)
LEMMA EndsMeasure ==
    ASSUME RunInv, RunInv', Ends
    PROVE  \/ /\ \A n \in Measured : history[n].it # it
              /\ UNCHANGED AbstractMeasured
           \/ \E n \in Measured :
                 /\ history[n].it = it
                 /\ history[n].child \in Ident \ AbstractMeasured
                 /\ AbstractMeasured' = AbstractMeasured \union {history[n].child}
<1> USE DEF RunInv
<1>1. EndIteration /\ pc # "done"
  BY EndsLeave
<1>2. \A i \in 1..Iters : (Over(i)' <=> i <= it) /\ (Over(i) <=> i < it)
  BY <1>1, OverAtEnd
<1>3. /\ \A n \in Measured : /\ n \in DOMAIN history
                            /\ history[n] \in Entry /\ history[n].it \in 1..Iters
                            /\ history[n].it <= it
      /\ it \in 1..Iters /\ Iters \in Nat
  BY HistoryEntries, SearchAssumption DEF SearchTypeOK, HistoryInv, Measured
<1>4. Measured' = Measured /\ \A n \in Measured : history'[n] = history[n]
  <2>1. ~Publish
    BY <1>1, EndsLeave DEF Publish
  <2> QED
    BY <2>1, NextSorts, MeasuredGrows
<1>5. AbstractMeasured' = {history[n].child : n \in Measured}
  BY <1>2, <1>3, <1>4 DEF AbstractMeasured
<1>6. AbstractMeasured = {history[n].child : n \in {m \in Measured : history[m].it # it}}
  BY <1>2, <1>3 DEF AbstractMeasured
<1>7. CASE \A n \in Measured : history[n].it # it
  BY <1>5, <1>6, <1>7
<1>8. CASE \E n \in Measured : history[n].it = it
  <2>1. PICK n \in Measured : history[n].it = it
    BY <1>8
  <2>2. \A m \in Measured : history[m].it = it => m = n
    <3>1. Len(history) \in Nat /\ DOMAIN history = 1..Len(history)
      BY LenProperties DEF SearchTypeOK
    <3> QED
      BY <1>3, <2>1, <3>1 DEF HistoryInv
  <2>3. \A m \in Measured : history[m].it # it => history[m].child # history[n].child
    BY <2>1 DEF NeverMeasuredTwice
  <2>4. history[n].child \in Ident
    BY DEF UnmeasuredInv, SearchTypeOK, IterationTypeOK
  <2> QED
    BY <1>5, <1>6, <2>1, <2>2, <2>3, <2>4
<1> QED
  BY <1>7, <1>8

-----------------------------------------------------------------------------
(***************************************************************************)
(* The steps                                                               *)
(***************************************************************************)

LEMMA BeginsRefine ==
    ASSUME RunInv, RunInv', Begins
    PROVE  Contract!Begin
<1>1. /\ pc = "start" /\ pc' \in {"scope", "raised"}
      /\ UNCHANGED AbstractVars /\ UNCHANGED <<parentTree, Moved>>
  BY BeginLeaves, WithinKeepsLog, OnlyAdoptMoves DEF Within, Inside, AdoptParent
<1>2. tree # [busy |-> TRUE]
  BY TreesAreNotBusy DEF RunInv, SearchTypeOK, IterationTypeOK
<1>3. Len(AbstractLog) < Iters
  BY <1>1, FinishedIsSmall DEF RunInv
<1> QED
  BY <1>1, <1>2, <1>3 DEF Contract!Begin, Contract!NotResting, Resting, AbstractVars

LEMMA AbortRefines ==
    ASSUME RunInv, RunInv', AbortRun
    PROVE  Contract!Abort
<1>1. /\ pc \in {"start", "elaborate"} /\ pc' = "aborted"
      /\ UNCHANGED AbstractVars /\ UNCHANGED <<parentTree, Moved>>
  BY WithinKeepsLog, OnlyAdoptMoves DEF AbortRun, Within, Inside, AdoptParent
<1>2. Len(AbstractLog) < Iters /\ ~Moved
  BY <1>1, FinishedIsSmall DEF RunInv, ScoreInv, Moved
<1> QED
  BY <1>1, <1>2 DEF Contract!Abort, Contract!NotResting, Resting, AbstractVars

(* An admitted design becomes the parent: it is legal, in scope, and not   *)
(* one that an earlier iteration measured.                                 *)
LEMMA AdoptRefines ==
    ASSUME RunInv, RunInv', AdoptParent
    PROVE  Contract!Move
<1> USE DEF RunInv
<1>1. /\ pc = "published" /\ pc' = "record" /\ score \in Admits
      /\ parentTree' = tree /\ UNCHANGED score
  BY AdoptLeaves
<1>2. UNCHANGED AbstractVars
  BY WithinKeepsLog DEF Within
<1>3. ~Moved /\ Moved'
  BY AdoptMoves
<1>4. tree \in Tree /\ tree.clean /\ tree.cfg \in LegalConfig /\ res.at = tree
  BY <1>1 DEF PassedInv, HasPassed, SearchTypeOK, IterationTypeOK
<1>5. IdentOf(tree) \notin AbstractMeasured
  <2> DEFINE last == Len(history)
  <2>1. /\ last \in Measured /\ history[last].child = IdentOf(tree)
        /\ history[last].it = it
    BY <1>1, <1>4, PublishedIsLast, VerdictsAreApart DEF Measured
  <2>2. ~Over(it)
    BY OverWithin DEF Within
  <2> QED
    BY <2>1, <2>2 DEF AbstractMeasured, NeverMeasuredTwice
<1> QED
  BY <1>1, <1>2, <1>3, <1>4, <1>5 DEF Contract!Move, Contract!NotResting, Resting,
     AbstractVars

(* The rest of an iteration up to its ending stutters.                     *)
Stutters == \/ Evaluate \/ RecordFailure \/ RememberFailure \/ ScorePoint
            \/ Publish \/ RollBackRejected \/ EndingRaises

LEMMA OthersStutter ==
    ASSUME RunInv, RunInv', Stutters
    PROVE  UNCHANGED Contract!contractVars
<1>1. Within /\ ~AdoptParent
  BY EvaluateLeaves
     DEF Stutters, Within, Inside, AdoptParent, RunInv, SearchTypeOK, InRounds, Gates,
         RecordFailure, RememberFailure, ScorePoint, Publish, RollBackRejected,
         EndingRaises
<1>2. UNCHANGED AbstractVars /\ UNCHANGED <<parentTree, Moved>>
  BY <1>1, WithinKeepsLog, OnlyAdoptMoves
<1>3. pc \notin Resting \union {"aborted"} /\ pc' \notin Resting \union {"aborted"}
  <2>1. CASE Evaluate
    BY <2>1, EvaluateLeaves DEF RunInv, SearchTypeOK, InRounds, Gates, Resting
  <2>2. CASE ~Evaluate
    BY <2>2 DEF Stutters, RecordFailure, RememberFailure, ScorePoint, Publish,
       RollBackRejected, EndingRaises, Resting
  <2> QED
    BY <2>1, <2>2
<1> QED
  BY <1>2, <1>3 DEF Contract!contractVars, AbstractVars

(* An iteration whose parent moved measured that parent.                   *)
LEMMA MovedMeasuresParent ==
    ASSUME RunInv, RunInv', Ends, Moved
    PROVE  AbstractMeasured' = AbstractMeasured \union {IdentOf(parentTree)}
<1> USE DEF RunInv
<1>1. PICK n \in Measured : history[n].it = it /\ history[n].child = IdentOf(parentTree)
  BY DEF MoveInv
<1>2. \A m \in Measured : history[m].it = it => m = n
  <2>1. /\ \A m \in Measured : m \in DOMAIN history /\ history[m].it \in Nat
        /\ Len(history) \in Nat /\ DOMAIN history = 1..Len(history)
    BY LenProperties, HistoryEntries DEF SearchTypeOK, Measured
  <2> QED
    BY <1>1, <2>1 DEF HistoryInv
<1> QED
  BY <1>1, <1>2, EndsMeasure

LEMMA EndsRefine ==
    ASSUME RunInv, RunInv', Ends
    PROVE  Contract!Finish
<1> USE DEF RunInv
<1>1. /\ AbstractLog' = Append(AbstractLog, OutcomeOf(records'[it]))
      /\ pc \notin Resting /\ pc # "aborted" /\ pc' \in Resting
  BY EndsAppend
<1>2. tree' \in Tree /\ UNCHANGED <<parentTree, tree>>
  BY EndsLeave DEF SearchTypeOK, IterationTypeOK
<1>3. ~Moved'
  BY EndsUnmoved
<1>4. SUFFICES \/ Contract!Admitted \/ Contract!Rejected
               \/ Contract!Failed \/ Contract!Lost
  BY <1>1, <1>2, <1>3, <1>4 DEF Contract!Finish, Contract!NotResting, Resting
<1>5. ~Moved => UNCHANGED AbstractMeasured \/ Contract!MeasuresOne
  BY EndsMeasure DEF Contract!MeasuresOne
<1>6. Moved => Contract!MeasuresParent
  BY MovedMeasuresParent DEF Contract!MeasuresParent
<1>7. CASE records'[it] = "INFRA_FAILURE"
  BY <1>1, <1>2, <1>5, <1>6, <1>7, Outcomes DEF Contract!Lost
<1>8. CASE WriteRecord /\ records'[it] # "INFRA_FAILURE"
  <2>1. pc = "record" /\ records'[it] = Verdict
    BY <1>8, EndsWrite
  <2>2. Contract!RestsAtParent
    BY <1>1, <1>2, <2>1 DEF RestInv, Contract!RestsAtParent, WithoutEdits
  <2>3. CASE score = None
    <3>1. records'[it] \in FailVerdict \ {"INFRA_FAILURE"} /\ ~Moved
      BY <1>8, <2>1, <2>3 DEF RoundInv, Verdict, Moved
    <3>2. UNCHANGED AbstractMeasured
      <4>1. \A n \in Measured : history[n].it # it
        BY <2>1, <3>1, VerdictsAreApart DEF EntryInv, Measured
      <4> QED
        BY <4>1, EndsMeasure
    <3> QED
      BY <1>1, <2>2, <3>1, <3>2, Outcomes DEF Contract!Failed
  <2>4. CASE score \in Admits
    <3>1. Moved /\ tree = parentTree /\ records'[it] = score
      BY <2>1, <2>4, VerdictsAreApart DEF MoveInv, Verdict
    <3> QED
      BY <1>1, <1>2, <1>6, <2>4, <3>1, Outcomes DEF Contract!Admitted
  <2>5. CASE score \in Scores \ Admits
    <3>1. records'[it] = score /\ ~Moved
      BY <2>1, <2>5, VerdictsAreApart DEF MoveInv, Verdict
    <3>2. Len(history) \in Measured /\ history[Len(history)].it = it
      BY <2>1, <2>5, PublishedIsLast, VerdictsAreApart DEF Measured
    <3>3. Contract!MeasuresOne
      BY <3>2, EndsMeasure DEF Contract!MeasuresOne
    <3> QED
      BY <1>1, <2>2, <2>5, <3>1, <3>3, Outcomes DEF Contract!Rejected
  <2> QED
    BY <2>3, <2>4, <2>5 DEF SearchTypeOK
<1> QED
  BY <1>7, <1>8, EndsWrite DEF Ends

LEMMA RefinesStep ==
    RunInv /\ RunInv' /\ [Next]_vars => [Contract!Next]_(Contract!contractVars)
<1> SUFFICES ASSUME RunInv, RunInv', [Next]_vars
             PROVE  [Contract!Next]_(Contract!contractVars)
  OBVIOUS
<1>1. CASE Begins
  BY <1>1, BeginsRefine DEF Contract!Next
<1>2. CASE AbortRun
  BY <1>2, AbortRefines DEF Contract!Next
<1>3. CASE AdoptParent
  BY <1>3, AdoptRefines DEF Contract!Next
<1>4. CASE Stutters
  BY <1>4, OthersStutter
<1>5. CASE Ends
  BY <1>5, EndsRefine DEF Contract!Next
<1>6. CASE UNCHANGED vars
  BY <1>6 DEF vars, iterVars, givenVars, ladderVars, endVars, Contract!contractVars,
     AbstractLog, AbstractMeasured, Measured, Finished, Over, Moved, IdentOf
<1> QED
  BY <1>1, <1>2, <1>3, <1>4, <1>5, <1>6, StepsOfARun DEF Stutters

(* Every run of the loop is a run of the contract, for every value of the  *)
(* constants: an iteration that raised kept the parent where it was, or    *)
(* all of a move already made (main()).                                    *)
THEOREM LoopImplementsContract == Spec => ImplementsContract
BY RefinesInit, RefinesStep, RunCorrect, PTL DEF Spec, ImplementsContract, Contract!Spec
=============================================================================
