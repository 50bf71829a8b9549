----------------------- MODULE ParetoAdmissionProofs -----------------------
(***************************************************************************)
(* Proofs about ParetoAdmission for any number of objectives, niches,      *)
(* rewards and iterations: the front is mutually non-dominated and covers  *)
(* every point that was ever scored.                                       *)
(***************************************************************************)
EXTENDS ParetoAdmission, TLAPS

LEMMA PointFacts ==
    ASSUME NEW p \in Point, NEW o \in Objective
    PROVE  p.obj[o] \in Int
BY ParetoAssumption DEF Point

(* Dominance is a strict partial order (dominates() compares all           *)
(* objectives, and one strictly).                                          *)
LEMMA DominatesIrreflexive ==
    ASSUME NEW p \in Point
    PROVE  ~Dominates(p, p)
<1> SUFFICES ASSUME NEW o \in Objective, p.obj[o] < p.obj[o]
             PROVE  FALSE
  BY DEF Dominates
<1> QED
  BY PointFacts

LEMMA DominatesTransitive ==
    ASSUME NEW p \in Point, NEW q \in Point, NEW s \in Point,
           Dominates(p, q), Dominates(q, s)
    PROVE  Dominates(p, s)
<1>1. ASSUME NEW o \in Objective
      PROVE  p.obj[o] <= s.obj[o]
  <2>1. p.obj[o] <= q.obj[o] /\ q.obj[o] <= s.obj[o]
    BY DEF Dominates
  <2> QED
    BY <2>1, PointFacts
<1>2. PICK o \in Objective : p.obj[o] < q.obj[o]
  BY DEF Dominates
<1>3. p.obj[o] < s.obj[o]
  <2>1. q.obj[o] <= s.obj[o]
    BY DEF Dominates
  <2> QED
    BY <1>2, <2>1, PointFacts
<1> QED
  BY <1>1, <1>3 DEF Dominates

-----------------------------------------------------------------------------
(***************************************************************************)
(* Admitting a point to a front                                            *)
(***************************************************************************)

LEMMA WithPointIsAntichain ==
    ASSUME front \subseteq Point, NEW p \in Point, ~Refused(p), FrontIsAntichain
    PROVE  \A x, y \in WithPoint(p) : ~Dominates(x, y)
<1> SUFFICES ASSUME NEW x \in WithPoint(p), NEW y \in WithPoint(p)
             PROVE  ~Dominates(x, y)
  OBVIOUS
<1>1. CASE x \in front /\ y \in front
  BY <1>1 DEF FrontIsAntichain
<1>2. CASE x = p
  BY <1>2, DominatesIrreflexive DEF WithPoint
<1>3. CASE y = p
  BY <1>3, DominatesIrreflexive DEF WithPoint, Refused
<1> QED
  BY <1>1, <1>2, <1>3 DEF WithPoint

(* Whoever a displaced member dominated, the newcomer dominates too.       *)
LEMMA WithPointCovers ==
    ASSUME front \subseteq Point, NEW p \in Point, NEW s \in Point,
           s \in front \/ \E q \in front : Dominates(q, s)
    PROVE  s \in WithPoint(p) \/ \E q \in WithPoint(p) : Dominates(q, s)
<1>1. CASE s \in front
  BY <1>1 DEF WithPoint
<1>2. ASSUME NEW q \in front, Dominates(q, s)
      PROVE  \E x \in WithPoint(p) : Dominates(x, s)
  <2>1. CASE Dominates(p, q)
    <3>1. Dominates(p, s)
      BY <2>1, <1>2, DominatesTransitive
    <3> QED
      BY <3>1 DEF WithPoint
  <2>2. CASE ~Dominates(p, q)
    BY <2>2, <1>2 DEF WithPoint
  <2> QED
    BY <2>1, <2>2
<1> QED
  BY <1>1, <1>2

-----------------------------------------------------------------------------
(***************************************************************************)
(* The invariants                                                          *)
(***************************************************************************)

LEMMA WithPointType ==
    ASSUME front \subseteq Point, NEW p \in Point
    PROVE  WithPoint(p) \subseteq Point
BY DEF WithPoint

LEMMA OfferType ==
    ASSUME cells \in [Niche -> Point \union {None}],
           scores \in [Niche -> Reward \union {None}],
           NEW p \in Point, NEW r \in Reward, Offer(p, r)
    PROVE  /\ cells' \in [Niche -> Point \union {None}]
           /\ scores' \in [Niche -> Reward \union {None}]
BY DEF Offer

LEMMA SaysType ==
    ASSUME it \in 1..(Iters + 1), parentReward \in Reward,
           NEW v \in Admits \union {"REJECT", "INFEASIBLE"}, NEW r \in Reward,
           Says(v, r)
    PROVE  /\ it' \in 1..(Iters + 1)
           /\ parentReward' \in Reward
           /\ verdict' \in Admits \union {"REJECT", "INFEASIBLE", None}
BY ParetoAssumption DEF Says

(* Type correctness of N60 for any bounds.                                 *)
THEOREM ParetoTypeCorrect == Spec => []ParetoTypeOK
<1>1. Init => ParetoTypeOK
  BY ParetoAssumption DEF Init, ParetoTypeOK
<1>2. ParetoTypeOK /\ [Next]_vars => ParetoTypeOK'
  <2> SUFFICES ASSUME ParetoTypeOK, [Next]_vars
               PROVE  ParetoTypeOK'
    OBVIOUS
  <2> USE DEF ParetoTypeOK
  <2>1. CASE NotMeasured
    BY <2>1, ParetoAssumption DEF NotMeasured
  <2>2. ASSUME NEW p \in Point, ScoreBase(p)
        PROVE  ParetoTypeOK'
    BY <2>2, ParetoAssumption, WithPointType, OfferType, SaysType
       DEF ScoreBase, Admits
  <2>3. ASSUME NEW p \in Point, NEW r \in Reward, Infeasible(p, r)
        PROVE  ParetoTypeOK'
    BY <2>3, SaysType DEF Infeasible
  <2>4. ASSUME NEW p \in Point, NEW r \in Reward, AdmitFront(p, r)
        PROVE  ParetoTypeOK'
    BY <2>4, WithPointType, OfferType, SaysType DEF AdmitFront, Admits
  <2>5. ASSUME NEW p \in Point, NEW r \in Reward, AdmitArchive(p, r)
        PROVE  ParetoTypeOK'
    BY <2>5, OfferType, SaysType DEF AdmitArchive, Admits
  <2>6. ASSUME NEW p \in Point, NEW r \in Reward, NEW plan \in Plan,
               StepOrReject(p, r, plan)
        PROVE  ParetoTypeOK'
    <3>1. Says("ADMIT_STEP", r) \/ Says("REJECT", r)
      BY <2>6 DEF StepOrReject
    <3> QED
      BY <2>6, <3>1, SaysType DEF StepOrReject, Admits
  <2>7. CASE UNCHANGED vars
    BY <2>7 DEF vars
  <2> QED
    BY <2>1, <2>2, <2>3, <2>4, <2>5, <2>6, <2>7 DEF Next
<1> QED
  BY <1>1, <1>2, PTL DEF Spec

(* Before the base point is scored there is nothing to compare with, so    *)
(* that it enters the front unjudged breaks no invariant of the front.     *)
NothingBeforeBase ==
    base = None => /\ front = {} /\ offered = {}
                   /\ \A d \in Niche : cells[d] = None

Inv == ParetoTypeOK /\ NothingBeforeBase

LEMMA InvCorrect == Spec => []Inv
<1>1. Init => NothingBeforeBase
  BY DEF Init, NothingBeforeBase
<1>2. ParetoTypeOK /\ NothingBeforeBase /\ [Next]_vars => NothingBeforeBase'
  <2> SUFFICES ASSUME ParetoTypeOK, NothingBeforeBase, [Next]_vars
               PROVE  NothingBeforeBase'
    OBVIOUS
  <2>1. CASE NotMeasured
    BY <2>1 DEF NotMeasured, NothingBeforeBase
  <2>2. ASSUME NEW p \in Point, ScoreBase(p)
        PROVE  NothingBeforeBase'
    BY <2>2, ParetoAssumption DEF ScoreBase, NothingBeforeBase
  <2>3. ASSUME base # None, UNCHANGED base
        PROVE  NothingBeforeBase'
    BY <2>3 DEF NothingBeforeBase
  <2>4. CASE UNCHANGED vars
    BY <2>4 DEF vars, NothingBeforeBase
  <2> QED
    BY <2>1, <2>2, <2>3, <2>4
       DEF Next, Infeasible, AdmitFront, AdmitArchive, StepOrReject
<1> QED
  BY <1>1, <1>2, ParetoTypeCorrect, PTL DEF Spec, Inv

Scored(p, r) == offered' = offered \union {[point |-> p, reward |-> r]}

(* The three things a step can do to the front.                            *)
LEMMA FrontSteps ==
    ASSUME Inv, [Next]_vars
    PROVE  \/ UNCHANGED <<front, offered>>
           \/ \E p \in Point, r \in Reward :
                 /\ Scored(p, r)
                 /\ \/ ~Refused(p) /\ front' = WithPoint(p)
                    \/ Refused(p) /\ UNCHANGED front
<1>1. ASSUME NEW p \in Point, ScoreBase(p)
      PROVE  Scored(p, 0) /\ ~Refused(p) /\ front' = WithPoint(p)
  BY <1>1 DEF ScoreBase, Inv, NothingBeforeBase, Refused, Scored
<1>2. ASSUME NEW p \in Point, NEW r \in Reward,
             AdmitFront(p, r)
      PROVE  Scored(p, r) /\ ~Refused(p) /\ front' = WithPoint(p)
  BY <1>2 DEF AdmitFront, Scored
<1>3. ASSUME NEW p \in Point, NEW r \in Reward,
             AdmitArchive(p, r) \/ \E plan \in Plan : StepOrReject(p, r, plan)
      PROVE  Scored(p, r) /\ Refused(p) /\ UNCHANGED front
  BY <1>3 DEF AdmitArchive, StepOrReject, Scored
<1>4. ASSUME NotMeasured \/ (\E p \in Point, r \in Reward : Infeasible(p, r))
             \/ UNCHANGED vars
      PROVE  UNCHANGED <<front, offered>>
  BY <1>4 DEF NotMeasured, Infeasible, vars
<1>5. 0 \in Reward
  BY ParetoAssumption
<1> QED
  BY <1>1, <1>2, <1>3, <1>4, <1>5 DEF Next

(* The front is mutually non-dominated after any sequence of admissions.   *)
THEOREM FrontStaysAntichain == Spec => []FrontIsAntichain
<1>1. Init => FrontIsAntichain
  BY DEF Init, FrontIsAntichain
<1>2. Inv /\ FrontIsAntichain /\ [Next]_vars => FrontIsAntichain'
  <2> SUFFICES ASSUME Inv, FrontIsAntichain, [Next]_vars
               PROVE  FrontIsAntichain'
    OBVIOUS
  <2>1. CASE UNCHANGED front
    BY <2>1 DEF FrontIsAntichain, Dominates
  <2>2. ASSUME NEW p \in Point, ~Refused(p), front' = WithPoint(p)
        PROVE  FrontIsAntichain'
    BY <2>2, WithPointIsAntichain
       DEF Inv, ParetoTypeOK, FrontIsAntichain, Dominates
  <2> QED
    BY <2>1, <2>2, FrontSteps
<1> QED
  BY <1>1, <1>2, InvCorrect, PTL DEF Spec

(* No improvement is lost: what was scored once is in the front or strictly *)
(* dominated by a member of it, for ever.                                  *)
THEOREM FrontStaysCovering == Spec => []FrontCoversOffered
<1>1. Init => FrontCoversOffered
  BY DEF Init, FrontCoversOffered
<1>2. Inv /\ FrontCoversOffered /\ [Next]_vars => FrontCoversOffered'
  <2> SUFFICES ASSUME Inv, FrontCoversOffered, [Next]_vars
               PROVE  FrontCoversOffered'
    OBVIOUS
  <2>1. CASE UNCHANGED <<front, offered>>
    BY <2>1 DEF FrontCoversOffered, Dominates
  <2>2. ASSUME NEW p \in Point, NEW r \in Reward, Scored(p, r),
               ~Refused(p), front' = WithPoint(p)
        PROVE  FrontCoversOffered'
    <3> SUFFICES ASSUME NEW o \in offered'
                 PROVE  \/ o.point \in WithPoint(p)
                        \/ \E q \in WithPoint(p) : Dominates(q, o.point)
      BY <2>2 DEF FrontCoversOffered, Dominates
    <3>1. CASE o.point = p
      BY <3>1 DEF WithPoint
    <3>2. CASE o \in offered
      <4>1. o.point \in Point /\ front \subseteq Point
        BY <3>2 DEF Inv, ParetoTypeOK
      <4> QED
        BY <4>1, <3>2, WithPointCovers DEF FrontCoversOffered
    <3> QED
      BY <3>1, <3>2, <2>2 DEF Scored
  <2>3. ASSUME NEW p \in Point, NEW r \in Reward, Scored(p, r),
               Refused(p), UNCHANGED front
        PROVE  FrontCoversOffered'
    BY <2>3 DEF Scored, Refused, FrontCoversOffered, Dominates
  <2> QED
    BY <2>1, <2>2, <2>3, FrontSteps
<1> QED
  BY <1>1, <1>2, InvCorrect, PTL DEF Spec

-----------------------------------------------------------------------------
(***************************************************************************)
(* The archive                                                             *)
(***************************************************************************)

NicheHoldsBest(d) ==
    IF cells[d] = None
    THEN \A o \in offered : o.point.niche # d
    ELSE /\ [point |-> cells[d], reward |-> scores[d]] \in offered
         /\ cells[d].niche = d
         /\ \A o \in offered : o.point.niche = d => o.reward <= scores[d]

(* What Archive.offer does to the niche of the point it is given.          *)
LEMMA OfferKeepsBest ==
    ASSUME ParetoTypeOK, NEW p \in Point, NEW r \in Reward,
           Scored(p, r), Offer(p, r), NicheHoldsBest(p.niche)
    PROVE  NicheHoldsBest(p.niche)'
<1> DEFINE d == p.niche
<1>1. d \in Niche /\ p # None
  BY ParetoAssumption DEF Point
<1>2. offered \subseteq [point: Point, reward: Reward] /\ Reward \subseteq Int
  BY ParetoAssumption DEF ParetoTypeOK
<1>3. \A o \in offered' : o \in offered \/ o = [point |-> p, reward |-> r]
  BY DEF Scored
<1>4. cells[d] # None => scores[d] \in Int
  BY <1>2 DEF NicheHoldsBest
<1>5. CASE NicheTakes(p, r)
  <2>1. cells'[d] = p /\ scores'[d] = r
    BY <1>1, <1>5 DEF Offer, ParetoTypeOK
  <2>2. ASSUME NEW o \in offered, o.point.niche = d
        PROVE  o.reward <= r
    <3>1. cells[d] # None /\ r > scores[d] /\ o.reward <= scores[d]
      BY <2>2, <1>5 DEF NicheTakes, NicheHoldsBest
    <3>2. o.reward \in Int /\ r \in Int
      BY <1>2
    <3> QED
      BY <3>1, <3>2, <1>4
  <2>3. ASSUME NEW o \in offered', o.point.niche = d
        PROVE  o.reward <= r
    <3>1. CASE o \in offered
      BY <2>2, <2>3, <3>1
    <3>2. CASE o = [point |-> p, reward |-> r]
      <4>1. o.reward = r /\ r \in Int
        BY <3>2, <1>2
      <4> QED
        BY <4>1
    <3> QED
      BY <3>1, <3>2, <1>3
  <2> QED
    BY <2>1, <2>3, <1>1 DEF NicheHoldsBest, Scored
<1>6. CASE ~NicheTakes(p, r)
  <2>1. /\ cells'[d] = cells[d] /\ scores'[d] = scores[d]
        /\ cells[d] # None /\ r <= scores[d]
    BY <1>6, <1>2, <1>4 DEF Offer, NicheTakes
  <2> QED
    BY <2>1, <1>3 DEF NicheHoldsBest, Scored
<1> QED
  BY <1>5, <1>6

(* A niche the scored point is not in stays as it is.                      *)
LEMMA OtherNicheKeepsBest ==
    ASSUME NEW p, NEW r, NEW d \in Niche, Scored(p, r), NicheHoldsBest(d),
           d # p.niche, cells'[d] = cells[d], scores'[d] = scores[d]
    PROVE  NicheHoldsBest(d)'
BY DEF NicheHoldsBest, Scored

(* The front and the archive hold nothing that was not scored, and every   *)
(* niche the best that was.                                                *)
THEOREM ArchiveStaysBest == Spec => []ArchiveHoldsBest
<1>1. Init => ArchiveHoldsBest
  BY DEF Init, ArchiveHoldsBest
<1>2. Inv /\ ArchiveHoldsBest /\ [Next]_vars => ArchiveHoldsBest'
  <2> SUFFICES ASSUME Inv, ArchiveHoldsBest, [Next]_vars
               PROVE  ArchiveHoldsBest'
    OBVIOUS
  <2>1. /\ front \subseteq {o.point : o \in offered}
        /\ \A d \in Niche : NicheHoldsBest(d)
    BY DEF ArchiveHoldsBest, NicheHoldsBest
  <2>2. front' \subseteq {o.point : o \in offered'}
    <3>1. CASE UNCHANGED <<front, offered>>
      BY <3>1, <2>1
    <3>2. ASSUME NEW p \in Point, NEW r \in Reward, Scored(p, r),
                 front' = WithPoint(p) \/ front' = front
          PROVE  front' \subseteq {o.point : o \in offered'}
      BY <3>2, <2>1 DEF WithPoint, Scored
    <3> QED
      BY <3>1, <3>2, FrontSteps
  <2>3. ASSUME NEW d \in Niche
        PROVE  NicheHoldsBest(d)'
    <3>1. CASE UNCHANGED <<cells, scores, offered>>
      BY <3>1, <2>1 DEF NicheHoldsBest
    <3>2. ASSUME NEW p \in Point, NEW r \in Reward, Scored(p, r), Offer(p, r)
          PROVE  NicheHoldsBest(d)'
      <4>1. CASE d = p.niche
        BY <4>1, <3>2, <2>1, OfferKeepsBest DEF Inv
      <4>2. CASE d # p.niche
        <5>1. cells'[d] = cells[d] /\ scores'[d] = scores[d]
          BY <3>2, <4>2 DEF Offer, Inv, ParetoTypeOK
        <5> QED
          BY <5>1, <4>2, <3>2, <2>1, OtherNicheKeepsBest
      <4> QED
        BY <4>1, <4>2
    <3>3. ASSUME NEW p \in Point, NEW r \in Reward, Scored(p, r),
                 ~NicheTakes(p, r), UNCHANGED <<cells, scores>>
          PROVE  NicheHoldsBest(d)'
      BY <3>2, <3>3 DEF Offer
    <3>4. 0 \in Reward
      BY ParetoAssumption
    <3> QED
      BY <3>1, <3>2, <3>3, <3>4 DEF Next, NotMeasured, ScoreBase, Infeasible,
         AdmitFront, AdmitArchive, StepOrReject, Scored, vars
  <2> QED
    BY <2>2, <2>3 DEF ArchiveHoldsBest, NicheHoldsBest
<1> QED
  BY <1>1, <1>2, InvCorrect, PTL DEF Spec
=============================================================================
