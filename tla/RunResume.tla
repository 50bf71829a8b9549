----------------------------- MODULE RunResume ------------------------------
(***************************************************************************)
(* A run of SearchLoop whose process may die at any step and be started    *)
(* again with --resume.  Everything in memory is lost; the records, the    *)
(* diff files and history.json stay.  reconstruct_run replays the records  *)
(* into a new state, or refuses to, and the loop goes on at the first      *)
(* iteration without a record.                                             *)
(***************************************************************************)
EXTENDS SearchLoop, FiniteSetsExt, SequencesExt

CONSTANT MaxRestarts    \* bound on the number of times the process dies

ASSUME ResumeAssumption == MaxRestarts \in Nat

VARIABLES
    filed,      \* what iter_NNN.json and its diff file hold next to the verdict
    restarts    \* how often the process has died

runVars == <<vars, filed, restarts>>

-----------------------------------------------------------------------------
(***************************************************************************)
(* What is on disk                                                         *)
(***************************************************************************)

NotFiled == [cfg |-> None, rtl |-> None, net |-> None, scored |-> FALSE,
             diff |-> None]

(* The record of the running iteration.  It has "admit_info" once N60 has  *)
(* scored the design, whatever verdict is written over N60's; the diff is  *)
(* that of the tree the ladder passed, which may be rolled back by then.   *)
Filing == [cfg |-> rec.cfg, rtl |-> rec.rtl, net |-> rec.net,
           scored |-> score # None,
           diff |-> IF score # None THEN res.at ELSE None]

FilesRecords ==
    filed' = [i \in 1..Iters |->
                 IF records'[i] # records[i] THEN Filing ELSE filed[i]]

Written == {i \in 1..Iters : records[i] # None}

Replayed == {i \in Written : filed[i].scored}

NameOf(i) == <<filed[i].cfg, filed[i].rtl>>

Named == {i \in Written : filed[i].cfg # None /\ filed[i].rtl # None}

(* Evaluated without being measured.  Unlike HasDesign, this does not ask  *)
(* whether the failing round had a design of its own.                      *)
FailedDesigns ==
    {i \in Written \ Replayed : records[i] \notin NoDesign /\ filed[i].cfg # None}

-----------------------------------------------------------------------------
(***************************************************************************)
(* reconstruct_run                                                         *)
(***************************************************************************)

(* Something was measured, and every measured iteration replays to its     *)
(* recorded verdict: the first one is the reference.                       *)
Replays ==
    /\ Replayed # {}
    /\ \A i \in Replayed : records[i] \in Scores
    /\ records[Min(Replayed)] = "ADMIT_FRONT"

(* Fault: the parent is the design measured last.                          *)
ReplayedAdmissions_All == Replayed

ReplayedAdmissions == {i \in Replayed : records[i] \in Admits}

(* Fault: the designs that passed are not entered.                         *)
RestoredSeen_FailuresOnly ==
    {NameOf(i) : i \in {j \in Named \cap FailedDesigns :
                           records[j] \notin {"SCOPE_VIOLATION", "T0_ILLEGAL"}}}

(* `seen` holds what the records name; a round of repair that was followed *)
(* by another one has no record.                                           *)
RestoredSeen ==
    {NameOf(i) : i \in {j \in Named \cap (Replayed \union FailedDesigns) :
                           records[j] \notin {"SCOPE_VIOLATION", "T0_ILLEGAL"}}}

RestoredInfo ==
    [d \in Ident |->
        LET about == {i \in Named \cap (Replayed \union FailedDesigns) : NameOf(i) = d}
        IN IF about = {} THEN None ELSE records[Max(about)]]

(* Fault: history.json is taken as it is.                                  *)
RestoredHistory_AsIs(h) == h

(* Where entry k of a history comes when it is sorted by iteration; two    *)
(* entries of one iteration stay in order.                                 *)
Position(h, k) ==
    Cardinality({m \in DOMAIN h : \/ h[m].it < h[k].it
                                  \/ h[m].it = h[k].it /\ m <= k})

ByIteration(h) ==
    [n \in DOMAIN h |-> h[CHOOSE k \in DOMAIN h : Position(h, k) = n]]

EntryFor(i) ==
    [it |-> i, state |-> filed[i].cfg, child |-> NameOf(i), verdict |-> records[i]]

(* history.json holds what memory did, but for the last entries whose      *)
(* write raised.                                                           *)
OnDisk ==
    {SubSeq(history, 1, k) : k \in
        {l \in 0..Len(history) :
            \A n \in (l + 1)..Len(history) : records[history[n].it] = "INFRA_FAILURE"}}

(* A failed design whose record was written before the process died, and   *)
(* its history entry was not, gets one.                                    *)
RestoredHistory(h) ==
    LET missing == {i \in FailedDesigns : \A n \in DOMAIN h : h[n].it # i}
    IN IF missing = {} THEN h
       ELSE ByIteration(h \o SetToSeq({EntryFor(i) : i \in missing}))

RestoresNetlist ==
    LET digested == {i \in Written : filed[i].net # None}
    IN /\ prevNet' = IF digested = {} THEN None ELSE filed[Max(digested)].net
       /\ prevRtl' = IF digested = {} THEN None ELSE filed[Max(digested)].rtl

(* Fault: the parent's diff file is not read back.                         *)
RestoresParent_NoDiff ==
    LET last == filed[Max(ReplayedAdmissions)]
    IN parent' = last.cfg /\ parentRtl' = last.rtl /\ parentTree' = BaseTree

RestoresParent ==
    LET last == filed[Max(ReplayedAdmissions)]
    IN parent' = last.cfg /\ parentRtl' = last.rtl /\ parentTree' = last.diff

Resumes ==
    /\ Replays
    /\ RestoresParent
    /\ base' = NameOf(Min(Replayed))
    /\ admitted' = {NameOf(i) : i \in ReplayedAdmissions}
    /\ seen' = RestoredSeen /\ seenInfo' = RestoredInfo
    /\ \E h \in OnDisk : history' = RestoredHistory(h)
    /\ RestoresNetlist
    /\ RollbackTo(parent', parentTree')
    /\ LET done == Cardinality(Written)
       IN /\ it' = IF done < Iters THEN done + 1 ELSE Iters
          /\ pc' = IF done < Iters THEN "start" ELSE "done"
    /\ ResetLocals
    /\ UNCHANGED records

(* An immutable input changed, a file is cut short, or the replay does not *)
(* reproduce a verdict.  It must refuse when it cannot replay; it may at   *)
(* any time: the replayed cost of a design is another number than the one  *)
(* it was scored with.                                                     *)
RefusesToResume ==
    /\ pc' = "aborted"
    /\ UNCHANGED <<givenVars, tree, builtVars, ladderVars, repairVars, endVars>>

Restart ==
    /\ restarts < MaxRestarts /\ pc # "done"
    /\ restarts' = restarts + 1
    /\ Resumes \/ RefusesToResume
    /\ UNCHANGED filed

RunStep == Next /\ FilesRecords /\ UNCHANGED restarts

ResumeInit == Init /\ filed = [i \in 1..Iters |-> NotFiled] /\ restarts = 0

ResumeNext == RunStep \/ Restart

ResumeSpec == ResumeInit /\ [][ResumeNext]_runVars /\ WF_runVars(RunStep)

-----------------------------------------------------------------------------
(***************************************************************************)
(* Properties                                                              *)
(***************************************************************************)

Resumed == restarts' # restarts /\ pc' # "aborted"

(* What iteration i was told of is not to be found again: a raise took the *)
(* place of its verdict in its record.                                     *)
Forgotten(i) == records[i] = "INFRA_FAILURE"

(* A resumed run continues the search that died.  The parent's state, RTL  *)
(* digest and diff are the ones it had in memory, at whatever step it      *)
(* died, or it died between the move of the parent and the record that     *)
(* says so, and that iteration is run again; if it died between two        *)
(* iterations, so are the next iteration, the reference point and the      *)
(* admitted designs; and no history entry and no verdict a proposer was    *)
(* told of is lost, unless its iteration raised after it, or a repair that *)
(* ended out of scope was recorded under the same design later             *)
(* (reconstruct_run).                                                      *)
ResumeKeepsTheSearch ==
    [][Resumed =>
          /\ \/ UNCHANGED <<parent, parentRtl, parentTree>>
             \/ Moved /\ UNCHANGED it
          /\ \A n \in DOMAIN history :
                \/ Forgotten(history[n].it)
                \/ \E m \in DOMAIN history' : history'[m] = history[n]
          /\ pc = "start" =>
                /\ UNCHANGED <<it, base, admitted>>
                /\ \A d \in Ident :
                      \/ seenInfo[d] = None
                      \/ seenInfo'[d] \in {seenInfo[d], "SCOPE_VIOLATION"}
                      \/ \E i \in Written : Forgotten(i) /\ NameOf(i) = d
      ]_runVars

(* No two records hold a measurement of the same design, also when the     *)
(* process died in between (the dedup set rebuilt from the records).       *)
RecordsMeasureOnce ==
    \A i, j \in Replayed : NameOf(i) = NameOf(j) => i = j

(* A design that failed or was measured in an iteration that is over is in *)
(* the history the proposers see, also when the process died between       *)
(* writing the two files; and under the state its record names, unless the *)
(* process died twice: then the entry may be that of an earlier attempt at *)
(* the iteration.                                                          *)
EveryDesignIsTold ==
    \A i \in Written :
        /\ Over(i)
        /\ records[i] \notin NoDesign \union {"SCOPE_VIOLATION"}
        /\ filed[i].cfg # None
        => \E n \in DOMAIN history :
               /\ history[n].it = i
               /\ restarts <= 1 => history[n].state = filed[i].cfg
=============================================================================
