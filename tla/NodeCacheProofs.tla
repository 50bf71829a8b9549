--------------------------- MODULE NodeCacheProofs ---------------------------
(***************************************************************************)
(* Theorems about NodeCache, for every set of hardware fields, schedules,  *)
(* RTL sources, kernels, command lines and any number of launches.         *)
(*                                                                         *)
(* The argument is that of any cache: what is stored under a tag has the   *)
(* inputs the tag names.  An entry is only ever written under the tag of   *)
(* the design it was made from, and a round only ever reads under the tag  *)
(* of its own design.  Three more facts carry it through a round: the      *)
(* place in the round tells which results are there, what an executed      *)
(* elaboration left on disk stays until the next one, and the netlist      *)
(* that N12b remembers is that of a design seen in this run.               *)
(***************************************************************************)
EXTENDS NodeCache, TLAPS

StoresAreTagged ==
    /\ \A t \in HwTag : builds[t] # None =>
         builds[t].hw = t.hw /\ builds[t].rtl = t.rtl
    /\ \A t \in SwTag : kernels[t] # None =>
         kernels[t].sw = t.sw /\ kernels[t].source = t.source
    /\ \A t \in SwTag : logs[t] # None =>
         /\ logs[t].art.ok /\ logs[t].art.hw = t.hw
         /\ logs[t].kern.ok /\ logs[t].kern.sw = t.sw
         /\ logs[t].kern.source = t.source

PendingIsTagged ==
    pending # None =>
      pending.of = [ok |-> TRUE, hw |-> pending.tag.hw, rtl |-> pending.tag.rtl]

ResultsAreThere ==
    /\ at \in Compiled => kern \in Binary
    /\ at \in Measured => log \in Log

(* What a round that elaborated finds on disk when it compiles; with the   *)
(* cache off, every round is one.                                          *)
DiskIsOfThisDesign ==
    /\ at \in {"netlist", "kernel"} /\ elaborated => header = design.hw
    /\ at \in {"netlist", "kernel"} /\ args.cache_scope = "off" => elaborated

(* With the cache off, what N12b compares with.                            *)
NetlistIsOfTheRun ==
    /\ at \in {"elaborate"} \union Built => design \in seen
    /\ args.cache_scope = "off" /\ prevNetlist # None =>
         \E d \in seen : d.rtl = prevRtl /\ Netlist(d.hw, d.rtl) = prevNetlist

CacheInv ==
    /\ CacheTypeOK
    /\ StoresAreTagged
    /\ PendingIsTagged
    /\ ResultsAreThere
    /\ DiskIsOfThisDesign
    /\ ArtifactIsOfThisDesign
    /\ BinaryIsOfThisSource
    /\ MeasuresTheTypedDesign
    /\ NetlistIsOfTheRun
    /\ NoOpIsReal
    /\ SynthesisIsOfThisDesign
    /\ UncachedRoundIsExact

-----------------------------------------------------------------------------
LEMMA ArgsTypes ==
  ASSUME args \in Args
  PROVE  /\ args.iters \in Nat \ {0} /\ args.repair_budget \in Nat
         /\ args.cache_scope \in {"run", "global", "off"}
  BY NodeCacheAssumption DEF NodeCacheAssumption

LEMMA DesignTypes ==
  /\ Baseline \in Design
  /\ Baseline.hw \in Hw /\ Baseline.sw \in Sw /\ Baseline.rtl \in Rtl
  /\ Pinned \in Hw /\ Designs \subseteq Design
  /\ Launches \in Nat \ {0}
  BY NodeCacheAssumption DEF NodeCacheAssumption, Design

LEMMA TagTypes ==
  ASSUME NEW d \in Design
  PROVE  /\ d.hw \in Hw /\ d.sw \in Sw /\ d.rtl \in Rtl
         /\ ArtTag(d) \in HwTag /\ ArtTag(d).hw = d.hw /\ ArtTag(d).rtl = d.rtl
  BY DEF Design, HwTag, ArtTag

LEMMA CacheInit == Init => CacheInv
<1> SUFFICES ASSUME Init PROVE CacheInv
  OBVIOUS
<1>1. CacheTypeOK
  <2>1. launches \in 1 .. Launches /\ it \in 1 .. args.iters
        /\ repairs \in 0 .. args.repair_budget
    BY ArgsTypes, DesignTypes DEF Init
  <2>2. collateral \in HwTag /\ parent \in [design: Design, header: Hw]
    BY DesignTypes DEF Init, HwTag
  <2> QED
    BY <2>1, <2>2, DesignTypes DEF Init, CacheTypeOK
<1>2. at = "start" /\ pending = None /\ synth = None /\ prevNetlist = None
  BY DEF Init
<1>3. StoresAreTagged /\ PendingIsTagged
  BY <1>2 DEF Init, StoresAreTagged, PendingIsTagged
<1> QED
  BY <1>1, <1>2, <1>3
     DEF CacheInv, ResultsAreThere, DiskIsOfThisDesign,
         ArtifactIsOfThisDesign, BinaryIsOfThisSource, MeasuresTheTypedDesign,
         NetlistIsOfTheRun, NoOpIsReal, SynthesisIsOfThisDesign, UncachedRoundIsExact,
         Built, Compiled, Measured

(* The counters of the next iteration. *)
LEMMA EndIterationTypes ==
  ASSUME CacheTypeOK, EndIteration
  PROVE  it' \in 1 .. args.iters /\ repairs' \in 0 .. args.repair_budget
<1>1. args.iters \in Nat \ {0} /\ args.repair_budget \in Nat
  BY ArgsTypes DEF CacheTypeOK
<1>2. it \in 1 .. args.iters
  BY DEF CacheTypeOK
<1> QED
  BY <1>1, <1>2 DEF EndIteration

(* What an elaboration answers, served or executed. *)
LEMMA ElaborateAnswers ==
  ASSUME CacheInv, Elaborate
  PROVE  /\ art' \in Artifact /\ art'.hw = design.hw /\ art'.rtl = design.rtl
         /\ at' = IF art'.ok THEN "netlist" ELSE "failed"
         /\ ran' = elaborated' /\ ran' \in BOOLEAN
         /\ ~ran' => /\ art'.ok /\ args.cache_scope # "off"
                     /\ UNCHANGED <<header, collateral, builds>>
         /\ ran' => builds' = [builds EXCEPT ![ArtTag(design)] = art']
         /\ ran' /\ art'.ok =>
              header' = design.hw /\ collateral' = ArtTag(design)
         /\ header' \in Hw /\ collateral' \in HwTag \union {None}
<1>1. design \in Design /\ ArtTag(design) \in HwTag
  BY TagTypes DEF CacheInv, CacheTypeOK
<1>2. CASE ServeElaborate
  <2>1. builds[ArtTag(design)] \in Artifact
    BY <1>1, <1>2 DEF ServeElaborate, Serves, CacheInv, CacheTypeOK
  <2>2. /\ builds[ArtTag(design)].hw = design.hw
        /\ builds[ArtTag(design)].rtl = design.rtl
    BY <1>1, <1>2, TagTypes
       DEF ServeElaborate, Serves, CacheInv, StoresAreTagged
  <2> QED
    BY <1>2, <2>1, <2>2
       DEF ServeElaborate, Serves, Elaborate, Goes, CacheInv, CacheTypeOK
<1>3. CASE RunElaborate
  <2>1. PICK ok \in BOOLEAN :
          /\ art' = [ok |-> ok, hw |-> design.hw, rtl |-> design.rtl]
          /\ builds' = [builds EXCEPT ![ArtTag(design)] = art']
          /\ header' \in {design.hw} \union IF ok THEN {} ELSE {header}
          /\ collateral' \in {ArtTag(design)}
                               \union IF ok THEN {} ELSE {collateral, None}
    BY <1>3 DEF RunElaborate
  <2>2. art' \in Artifact
    BY <1>1, <2>1, TagTypes DEF Artifact
  <2>3. header' \in Hw /\ collateral' \in HwTag \union {None}
    BY <1>1, <2>1, TagTypes DEF CacheInv, CacheTypeOK
  <2> QED
    BY <1>3, <2>1, <2>2, <2>3 DEF RunElaborate, Elaborate, Goes
<1> QED
  BY <1>2, <1>3 DEF Elaborate

(* A proposer leaves a design in the tree; nothing is known of it yet. *)
LEMMA StartStep == CacheInv /\ Start => CacheInv'
<1> SUFFICES ASSUME CacheInv, Start PROVE CacheInv'
  OBVIOUS
<1> USE DEF CacheInv, Start, Goes, launch, search, round, cache
<1>1. CacheTypeOK'
  BY DesignTypes DEF CacheTypeOK, Built, Failed
<1>2. (StoresAreTagged /\ PendingIsTagged)'
  BY DEF StoresAreTagged, PendingIsTagged
<1>3. /\ ResultsAreThere' /\ DiskIsOfThisDesign'
      /\ ArtifactIsOfThisDesign' /\ BinaryIsOfThisSource'
      /\ MeasuresTheTypedDesign' /\ NetlistIsOfTheRun' /\ NoOpIsReal'
      /\ SynthesisIsOfThisDesign' /\ UncachedRoundIsExact'
  BY DEF ResultsAreThere, DiskIsOfThisDesign, ArtifactIsOfThisDesign,
         BinaryIsOfThisSource, MeasuresTheTypedDesign, NetlistIsOfTheRun, NoOpIsReal,
         SynthesisIsOfThisDesign, UncachedRoundIsExact, Built, Compiled,
         Measured
<1> QED
  BY <1>1, <1>2, <1>3

(* The identity gate looks at nothing that is cached. *)
LEMMA IdentityStep == CacheInv /\ Identity => CacheInv'
<1> SUFFICES ASSUME CacheInv, Identity PROVE CacheInv'
  OBVIOUS
<1> USE DEF CacheInv, Identity, Goes, launch, tree, cache
<1>1. CacheTypeOK'
  BY DesignTypes DEF CacheTypeOK, Built, Failed
<1>2. (StoresAreTagged /\ PendingIsTagged)'
  BY DEF StoresAreTagged, PendingIsTagged
<1>3. /\ ResultsAreThere' /\ DiskIsOfThisDesign'
      /\ ArtifactIsOfThisDesign' /\ BinaryIsOfThisSource'
      /\ MeasuresTheTypedDesign' /\ NetlistIsOfTheRun' /\ NoOpIsReal'
      /\ SynthesisIsOfThisDesign' /\ UncachedRoundIsExact'
  BY DEF ResultsAreThere, DiskIsOfThisDesign, ArtifactIsOfThisDesign,
         BinaryIsOfThisSource, MeasuresTheTypedDesign, NetlistIsOfTheRun, NoOpIsReal,
         SynthesisIsOfThisDesign, UncachedRoundIsExact, Built, Compiled,
         Measured
<1> QED
  BY <1>1, <1>2, <1>3

(* Served under its own tag, or executed and stored under it. *)
LEMMA ElaborateStep == CacheInv /\ Elaborate => CacheInv'
<1> SUFFICES ASSUME CacheInv, Elaborate PROVE CacheInv'
  OBVIOUS
<1> USE DEF CacheInv, Elaborate, launch, search
<1>1. CacheTypeOK'
  <2>1. at' \in {"netlist", "failed"}
    BY ElaborateAnswers
  <2>2. builds' \in [HwTag -> Artifact \union {None}]
    BY ElaborateAnswers DEF CacheTypeOK
  <2> QED
    BY <2>1, <2>2, ElaborateAnswers DEF CacheTypeOK, Built, Failed
<1>2. (StoresAreTagged /\ PendingIsTagged)'
  <2>1. design \in Design
    BY DEF CacheTypeOK
  <2>2. ArtTag(design) \in HwTag
    BY <2>1, TagTypes
  <2>3. ASSUME NEW t \in HwTag, builds'[t] # None
        PROVE  builds'[t].hw = t.hw /\ builds'[t].rtl = t.rtl
    <3>1. CASE t = ArtTag(design) /\ ran'
      BY <2>1, <2>2, <3>1, ElaborateAnswers, TagTypes DEF CacheTypeOK
    <3>2. CASE ~(t = ArtTag(design) /\ ran')
      BY <2>3, <3>2, ElaborateAnswers DEF CacheTypeOK, StoresAreTagged
    <3> QED
      BY <3>1, <3>2
  <2> QED
    BY <2>3 DEF StoresAreTagged, PendingIsTagged
<1>3. (ResultsAreThere /\ DiskIsOfThisDesign)'
  BY ElaborateAnswers
     DEF CacheTypeOK, ResultsAreThere, DiskIsOfThisDesign, Built, Compiled,
         Measured, Failed
<1>4. (ArtifactIsOfThisDesign /\ BinaryIsOfThisSource)'
  <2>1. art'.ok => art' = [ok |-> TRUE, hw |-> design.hw, rtl |-> design.rtl]
    BY ElaborateAnswers DEF Artifact
  <2> QED
    BY <2>1, ElaborateAnswers
       DEF ArtifactIsOfThisDesign, BinaryIsOfThisSource, Built, Compiled
<1>5. (MeasuresTheTypedDesign /\ NetlistIsOfTheRun /\ NoOpIsReal)'
  BY ElaborateAnswers
     DEF CacheTypeOK, MeasuresTheTypedDesign, NetlistIsOfTheRun, NoOpIsReal, Built,
         Compiled, Measured, Failed
<1>6. (SynthesisIsOfThisDesign /\ UncachedRoundIsExact)'
  BY ElaborateAnswers
     DEF CacheTypeOK, SynthesisIsOfThisDesign, UncachedRoundIsExact, ArtTag,
         Built, Compiled, Measured, Failed
<1> QED
  BY <1>1, <1>2, <1>3, <1>4, <1>5, <1>6

(* The synthesis dispatched is the one of the build just made. *)
LEMMA CheckNetlistStep == CacheInv /\ CheckNetlist => CacheInv'
<1> SUFFICES ASSUME CacheInv, CheckNetlist PROVE CacheInv'
  OBVIOUS
<1> USE DEF CacheInv, CheckNetlist, Goes, launch, search, tree, round, cache
<1>1. CacheTypeOK'
  <2>1. art \in Artifact
    <3>1. art = [ok |-> TRUE, hw |-> design.hw, rtl |-> design.rtl]
      BY DEF ArtifactIsOfThisDesign, Built
    <3>2. design.hw \in Hw /\ design.rtl \in Rtl
      BY TagTypes DEF CacheTypeOK
    <3> QED
      BY <3>1, <3>2 DEF Artifact
  <2>2. [tag |-> ArtTag(design), of |-> art] \in [tag: HwTag, of: Artifact]
    BY <2>1, TagTypes DEF CacheTypeOK
  <2>3. pending' \in [tag: HwTag, of: Artifact] \union {None}
    BY <2>2 DEF CacheTypeOK
  <2> QED
    BY <2>3 DEF CacheTypeOK, Built, Failed
<1>2. (StoresAreTagged /\ PendingIsTagged)'
  <2>1. CASE UNCHANGED pending
    BY <2>1 DEF StoresAreTagged, PendingIsTagged
  <2>2. CASE pending' = [tag |-> ArtTag(design), of |-> art]
    BY <2>2, TagTypes
       DEF CacheTypeOK, StoresAreTagged, PendingIsTagged,
           ArtifactIsOfThisDesign, Built
  <2> QED
    BY <2>1, <2>2
<1>3. (ResultsAreThere /\ DiskIsOfThisDesign)'
  BY TagTypes
     DEF CacheTypeOK, ResultsAreThere, DiskIsOfThisDesign, Built, Compiled,
         Measured, Failed
<1>4. (ArtifactIsOfThisDesign /\ BinaryIsOfThisSource)'
  BY TagTypes
     DEF CacheTypeOK, ArtifactIsOfThisDesign, BinaryIsOfThisSource, Built,
         Compiled, Measured, Failed
<1>5. (MeasuresTheTypedDesign /\ NetlistIsOfTheRun /\ NoOpIsReal)'
  <2>1. /\ at' \in {"noop", "kernel"} /\ at = "netlist"
        /\ design \in Design /\ design \in seen
        /\ UNCHANGED <<args, design, seen>>
    BY DEF CacheTypeOK, NetlistIsOfTheRun, Built
  <2>2. collateral = ArtTag(design) => Digest = Netlist(design.hw, design.rtl)
    BY <2>1, TagTypes DEF Digest
  <2>3. CASE args.cache_scope = "off"
    <3>1. collateral = ArtTag(design)
      BY <2>1, <2>3 DEF UncachedRoundIsExact, Built
    <3>2. CASE at' = "noop"
      <4>1. NoOpEdit /\ UNCHANGED <<prevNetlist, prevRtl>>
        BY <3>2
      <4>2. PICK d \in seen : d.rtl = prevRtl /\ Netlist(d.hw, d.rtl) = prevNetlist
        BY <2>3, <4>1 DEF NetlistIsOfTheRun, NoOpEdit
      <4>3. d.rtl # design.rtl
            /\ Netlist(d.hw, d.rtl) = Netlist(design.hw, design.rtl)
        BY <2>2, <3>1, <4>1, <4>2 DEF NoOpEdit
      <4> QED
        BY <2>1, <3>2, <4>1, <4>2, <4>3
           DEF MeasuresTheTypedDesign, NetlistIsOfTheRun, NoOpIsReal, Measured
    <3>3. CASE at' = "kernel"
      <4>1. \/ UNCHANGED <<prevNetlist, prevRtl>>
            \/ prevNetlist' = Netlist(design.hw, design.rtl) /\ prevRtl' = design.rtl
        BY <2>2, <3>1, <3>3
      <4> QED
        BY <2>1, <3>3, <4>1
           DEF MeasuresTheTypedDesign, NetlistIsOfTheRun, NoOpIsReal, Measured
    <3> QED
      BY <2>1, <3>2, <3>3
  <2>4. CASE args.cache_scope # "off"
    BY <2>1, <2>4
       DEF MeasuresTheTypedDesign, NetlistIsOfTheRun, NoOpIsReal, Measured
  <2> QED
    BY <2>3, <2>4
<1>6. (SynthesisIsOfThisDesign /\ UncachedRoundIsExact)'
  BY TagTypes
     DEF CacheTypeOK, SynthesisIsOfThisDesign, UncachedRoundIsExact, Built,
         Compiled, Measured, Failed
<1> QED
  BY <1>1, <1>2, <1>3, <1>4, <1>5, <1>6

(* What a kernel build answers, served or executed. *)
LEMMA KernelAnswers ==
  ASSUME CacheInv, BuildKernel
  PROVE  /\ kern' \in Binary /\ kern'.sw = design.sw /\ kern'.source = source
         /\ at' = IF kern'.ok THEN "simulate" ELSE "failed"
         /\ ran' \in BOOLEAN
         /\ ~ran' => /\ kern'.ok /\ args.cache_scope # "off"
                     /\ UNCHANGED kernels
         /\ ran' => /\ kern'.hw = header
                    /\ kernels' = [kernels EXCEPT ![BuildTag(design)] = kern']
         /\ kernels' \in [SwTag -> Binary \union {None}]
         /\ BuildTag(design) \in SwTag /\ design \in Design
<1>1. design \in Design /\ BuildTag(design) \in SwTag
  BY TagTypes DEF CacheInv, CacheTypeOK, BuildTag, SwTag
<1>2. CASE ServeKernel
  <2>1. kernels[BuildTag(design)] \in Binary
    BY <1>1, <1>2 DEF ServeKernel, Serves, CacheInv, CacheTypeOK
  <2>2. /\ kernels[BuildTag(design)].sw = design.sw
        /\ kernels[BuildTag(design)].source = source
    BY <1>1, <1>2
       DEF ServeKernel, Serves, CacheInv, StoresAreTagged, BuildTag
  <2> QED
    BY <1>1, <1>2, <2>1, <2>2
       DEF ServeKernel, Serves, BuildKernel, Goes, CacheInv, CacheTypeOK
<1>3. CASE RunBuildKernel
  <2>1. PICK ok \in BOOLEAN :
          /\ kern' = [ok |-> ok, hw |-> header, sw |-> design.sw,
                      source |-> source]
          /\ kernels' = [kernels EXCEPT ![BuildTag(design)] = kern']
    BY <1>3 DEF RunBuildKernel
  <2>2. kern' \in Binary
    BY <1>1, <2>1, TagTypes DEF Binary, CacheInv, CacheTypeOK
  <2>3. kernels' \in [SwTag -> Binary \union {None}]
    BY <1>1, <2>1, <2>2 DEF CacheInv, CacheTypeOK
  <2> QED
    BY <1>1, <1>3, <2>1, <2>2, <2>3 DEF RunBuildKernel, BuildKernel, Goes
<1> QED
  BY <1>2, <1>3 DEF BuildKernel

(* The binary that is run is of this source and schedule. *)
LEMMA BuildKernelStep == CacheInv /\ BuildKernel => CacheInv'
<1> SUFFICES ASSUME CacheInv, BuildKernel PROVE CacheInv'
  OBVIOUS
<1> USE DEF CacheInv, BuildKernel, Goes, launch, search, tree
<1>1. CacheTypeOK'
  <2>1. at' \in {"simulate", "failed"}
    OBVIOUS
  <2> QED
    BY <2>1, KernelAnswers DEF CacheTypeOK, Built, Failed
<1>2. (StoresAreTagged /\ PendingIsTagged)'
  <2>1. ASSUME NEW t \in SwTag, kernels'[t] # None
        PROVE  kernels'[t].sw = t.sw /\ kernels'[t].source = t.source
    BY <2>1, KernelAnswers DEF CacheTypeOK, StoresAreTagged, BuildTag
  <2> QED
    BY <2>1 DEF StoresAreTagged, PendingIsTagged
<1>3. (ResultsAreThere /\ DiskIsOfThisDesign)'
  BY KernelAnswers
     DEF ResultsAreThere, DiskIsOfThisDesign, Compiled, Measured
<1>4. (ArtifactIsOfThisDesign /\ BinaryIsOfThisSource)'
  BY KernelAnswers
     DEF ArtifactIsOfThisDesign, BinaryIsOfThisSource, Built, Compiled
<1>5. (MeasuresTheTypedDesign /\ NetlistIsOfTheRun /\ NoOpIsReal)'
  BY KernelAnswers
     DEF MeasuresTheTypedDesign, NetlistIsOfTheRun, NoOpIsReal, Built,
         Compiled, Measured
<1>6. (SynthesisIsOfThisDesign /\ UncachedRoundIsExact)'
  BY KernelAnswers
     DEF DiskIsOfThisDesign, SynthesisIsOfThisDesign, UncachedRoundIsExact,
         Built, Compiled, Measured, ArtTag
<1> QED
  BY <1>1, <1>2, <1>3, <1>4, <1>5, <1>6

(* What a simulation answers, served or executed. *)
LEMMA SimulateAnswers ==
  ASSUME CacheInv, Simulate
  PROVE  /\ log' \in Log
         /\ log'.art.ok /\ log'.art.hw = design.hw
         /\ log'.kern.ok /\ log'.kern.sw = design.sw
         /\ log'.kern.source = source
         /\ at' = "measured"
         /\ ran' \in BOOLEAN
         /\ ~ran' => /\ log'.ok /\ args.cache_scope # "off"
                     /\ UNCHANGED logs
         /\ ran' => /\ log'.art = art /\ log'.kern = kern
                    /\ logs' = [logs EXCEPT ![RunTag(design)] = log']
         /\ logs' \in [SwTag -> Log \union {None}]
         /\ RunTag(design) \in SwTag /\ design \in Design
<1>1. design \in Design /\ RunTag(design) \in SwTag
  BY TagTypes DEF CacheInv, CacheTypeOK, RunTag, SwTag
<1>2. CASE ServeSimulate
  <2>1. logs[RunTag(design)] \in Log
    BY <1>1, <1>2 DEF ServeSimulate, Serves, CacheInv, CacheTypeOK
  <2>2. /\ logs[RunTag(design)].art.ok
        /\ logs[RunTag(design)].art.hw = design.hw
        /\ logs[RunTag(design)].kern.ok
        /\ logs[RunTag(design)].kern.sw = design.sw
        /\ logs[RunTag(design)].kern.source = source
    BY <1>1, <1>2
       DEF ServeSimulate, Serves, CacheInv, StoresAreTagged, RunTag
  <2> QED
    BY <1>1, <1>2, <2>1, <2>2
       DEF ServeSimulate, Serves, Simulate, Goes, CacheInv, CacheTypeOK
<1>3. CASE RunSimulate
  <2>1. PICK ok, good \in BOOLEAN :
          log' = [ok |-> ok, good |-> good, art |-> art, kern |-> kern]
    BY <1>3 DEF RunSimulate
  <2>2. art = [ok |-> TRUE, hw |-> design.hw, rtl |-> design.rtl]
    BY DEF Simulate, CacheInv, ArtifactIsOfThisDesign, Built
  <2>3. /\ kern \in Binary /\ kern.ok
        /\ kern.sw = design.sw /\ kern.source = source
    BY DEF Simulate, CacheInv, ResultsAreThere, BinaryIsOfThisSource, Compiled
  <2>4. art \in Artifact
    BY <1>1, <2>2, TagTypes DEF Artifact
  <2>5. log' \in Log
    BY <2>1, <2>3, <2>4 DEF Log
  <2>6. logs' \in [SwTag -> Log \union {None}]
    BY <1>1, <1>3, <2>5 DEF RunSimulate, CacheInv, CacheTypeOK
  <2> QED
    BY <1>1, <1>3, <2>1, <2>2, <2>3, <2>5, <2>6 DEF RunSimulate, Simulate, Goes
<1> QED
  BY <1>2, <1>3 DEF Simulate

(* The log carries what the tag names: everything but the RTL. *)
LEMMA SimulateStep == CacheInv /\ Simulate => CacheInv'
<1> SUFFICES ASSUME CacheInv, Simulate PROVE CacheInv'
  OBVIOUS
<1> USE DEF CacheInv, Simulate, launch, search, tree
<1>1. CacheTypeOK'
  <2>1. at' = "measured"
    BY SimulateAnswers
  <2> QED
    BY <2>1, SimulateAnswers DEF CacheTypeOK, Built, Failed
<1>2. (StoresAreTagged /\ PendingIsTagged)'
  <2>1. ASSUME NEW t \in SwTag, logs'[t] # None
        PROVE  /\ logs'[t].art.ok /\ logs'[t].art.hw = t.hw
               /\ logs'[t].kern.ok /\ logs'[t].kern.sw = t.sw
               /\ logs'[t].kern.source = t.source
    <3>1. CASE ran' /\ t = RunTag(design)
      <4>1. logs'[t] = log'
        BY <3>1, SimulateAnswers DEF CacheTypeOK
      <4>2. t.hw = design.hw /\ t.sw = design.sw /\ t.source = source
        BY <3>1 DEF RunTag
      <4> QED
        BY <4>1, <4>2, SimulateAnswers
    <3>2. CASE ~(ran' /\ t = RunTag(design))
      <4>1. logs'[t] = logs[t]
        BY <3>2, SimulateAnswers DEF CacheTypeOK
      <4> QED
        BY <2>1, <4>1 DEF StoresAreTagged
    <3> QED
      BY <3>1, <3>2
  <2>2. UNCHANGED <<builds, kernels, pending>>
    OBVIOUS
  <2> QED
    BY <2>1, <2>2 DEF StoresAreTagged, PendingIsTagged
<1>3. (ResultsAreThere /\ DiskIsOfThisDesign)'
  BY SimulateAnswers
     DEF ResultsAreThere, DiskIsOfThisDesign, Compiled, Measured
<1>4. (ArtifactIsOfThisDesign /\ BinaryIsOfThisSource)'
  BY SimulateAnswers
     DEF ArtifactIsOfThisDesign, BinaryIsOfThisSource, Built, Compiled
<1>5. (MeasuresTheTypedDesign /\ NetlistIsOfTheRun /\ NoOpIsReal)'
  BY SimulateAnswers
     DEF MeasuresTheTypedDesign, NetlistIsOfTheRun, NoOpIsReal, Built,
         Compiled, Measured
<1>6. (SynthesisIsOfThisDesign /\ UncachedRoundIsExact)'
  BY SimulateAnswers
     DEF SynthesisIsOfThisDesign, UncachedRoundIsExact,
         Built, Compiled, Measured, ArtTag
<1> QED
  BY <1>1, <1>2, <1>3, <1>4, <1>5, <1>6

(* The verdict on a log changes nothing that is stored. *)
LEMMA JudgeStep == CacheInv /\ Judge => CacheInv'
<1> SUFFICES ASSUME CacheInv, Judge PROVE CacheInv'
  OBVIOUS
<1> USE DEF CacheInv, Judge, Goes, launch, search, tree, round, cache
<1>1. CacheTypeOK'
  BY ArgsTypes, DesignTypes, TagTypes
     DEF CacheTypeOK, Built, Compiled, Measured, Failed
<1>2. (StoresAreTagged /\ PendingIsTagged)'
  BY TagTypes
     DEF CacheTypeOK, StoresAreTagged, PendingIsTagged, Built, Compiled,
         Measured, Failed
<1>3. (ResultsAreThere /\ DiskIsOfThisDesign)'
  BY TagTypes
     DEF CacheTypeOK, ResultsAreThere, DiskIsOfThisDesign, Built, Compiled,
         Measured, Failed
<1>4. (ArtifactIsOfThisDesign /\ BinaryIsOfThisSource)'
  BY TagTypes
     DEF CacheTypeOK, ArtifactIsOfThisDesign, BinaryIsOfThisSource, Built,
         Compiled, Measured, Failed
<1>5. (MeasuresTheTypedDesign /\ NetlistIsOfTheRun /\ NoOpIsReal)'
  BY TagTypes
     DEF CacheTypeOK, MeasuresTheTypedDesign, NetlistIsOfTheRun, NoOpIsReal, Built,
         Compiled, Measured, Failed
<1>6. (SynthesisIsOfThisDesign /\ UncachedRoundIsExact)'
  BY TagTypes
     DEF CacheTypeOK, SynthesisIsOfThisDesign, UncachedRoundIsExact, Built,
         Compiled, Measured, Failed
<1> QED
  BY <1>1, <1>2, <1>3, <1>4, <1>5, <1>6

(* A synthesis under way is joined under the tag it was dispatched with. *)
LEMMA SynthesizeStep == CacheInv /\ Synthesize => CacheInv'
<1> SUFFICES ASSUME CacheInv, Synthesize PROVE CacheInv'
  OBVIOUS
<1> USE DEF CacheInv, Synthesize, Goes, IsPending, launch, search, tree, cache
<1>1. CacheTypeOK'
  BY ArgsTypes, DesignTypes, TagTypes
     DEF CacheTypeOK, ArtifactIsOfThisDesign, Artifact, Design, Built,
         Compiled, Measured, Failed
<1>2. (StoresAreTagged /\ PendingIsTagged)'
  BY TagTypes
     DEF CacheTypeOK, StoresAreTagged, PendingIsTagged, Built, Compiled,
         Measured, Failed
<1>3. (ResultsAreThere /\ DiskIsOfThisDesign)'
  BY TagTypes
     DEF CacheTypeOK, ResultsAreThere, DiskIsOfThisDesign, Built, Compiled,
         Measured, Failed
<1>4. (ArtifactIsOfThisDesign /\ BinaryIsOfThisSource)'
  BY TagTypes
     DEF CacheTypeOK, ArtifactIsOfThisDesign, BinaryIsOfThisSource, Built,
         Compiled, Measured, Failed
<1>5. (MeasuresTheTypedDesign /\ NetlistIsOfTheRun /\ NoOpIsReal)'
  BY TagTypes
     DEF CacheTypeOK, MeasuresTheTypedDesign, NetlistIsOfTheRun, NoOpIsReal, Built,
         Compiled, Measured, Failed
<1>6. (SynthesisIsOfThisDesign /\ UncachedRoundIsExact)'
  BY TagTypes
     DEF CacheTypeOK, SynthesisIsOfThisDesign, UncachedRoundIsExact,
         PendingIsTagged, ArtifactIsOfThisDesign, ArtTag, Built, Compiled,
         Measured, Failed
<1> QED
  BY <1>1, <1>2, <1>3, <1>4, <1>5, <1>6

(* An admission moves the parent; the cache and the disk stay. *)
LEMMA AdmitStep == CacheInv /\ Admit => CacheInv'
<1> SUFFICES ASSUME CacheInv, Admit PROVE CacheInv'
  OBVIOUS
<1> USE DEF CacheInv, Admit, EndIteration, ForgetRound, launch, tree, cache
<1>1. CacheTypeOK'
  <2>1. it' \in 1 .. args'.iters /\ repairs' \in 0 .. args'.repair_budget
    BY EndIterationTypes DEF CacheTypeOK
  <2>2. at' \in {"start", "done"}
    OBVIOUS
  <2> QED
    BY <2>1, <2>2, DesignTypes DEF CacheTypeOK
<1>2. (StoresAreTagged /\ PendingIsTagged)'
  BY DEF StoresAreTagged, PendingIsTagged
<1>3. /\ ResultsAreThere' /\ DiskIsOfThisDesign'
      /\ ArtifactIsOfThisDesign' /\ BinaryIsOfThisSource'
      /\ MeasuresTheTypedDesign' /\ NetlistIsOfTheRun' /\ NoOpIsReal'
      /\ SynthesisIsOfThisDesign' /\ UncachedRoundIsExact'
  BY DEF ResultsAreThere, DiskIsOfThisDesign, ArtifactIsOfThisDesign,
         BinaryIsOfThisSource, MeasuresTheTypedDesign, NetlistIsOfTheRun, NoOpIsReal,
         SynthesisIsOfThisDesign, UncachedRoundIsExact, Built, Compiled,
         Measured
<1> QED
  BY <1>1, <1>2, <1>3

(* A rollback moves the tree; the cache and the collateral stay. *)
LEMMA GiveUpStep == CacheInv /\ GiveUp => CacheInv'
<1> SUFFICES ASSUME CacheInv, GiveUp PROVE CacheInv'
  OBVIOUS
<1> USE DEF CacheInv, GiveUp, Rollback, EndIteration, ForgetRound, launch, cache
<1>1. CacheTypeOK'
  <2>1. it' \in 1 .. args'.iters /\ repairs' \in 0 .. args'.repair_budget
    BY EndIterationTypes DEF CacheTypeOK
  <2>2. at' \in {"start", "done"}
    OBVIOUS
  <2> QED
    BY <2>1, <2>2, DesignTypes DEF CacheTypeOK
<1>2. (StoresAreTagged /\ PendingIsTagged)'
  BY DEF StoresAreTagged, PendingIsTagged
<1>3. /\ ResultsAreThere' /\ DiskIsOfThisDesign'
      /\ ArtifactIsOfThisDesign' /\ BinaryIsOfThisSource'
      /\ MeasuresTheTypedDesign' /\ NetlistIsOfTheRun' /\ NoOpIsReal'
      /\ SynthesisIsOfThisDesign' /\ UncachedRoundIsExact'
  BY DEF ResultsAreThere, DiskIsOfThisDesign, ArtifactIsOfThisDesign,
         BinaryIsOfThisSource, MeasuresTheTypedDesign, NetlistIsOfTheRun, NoOpIsReal,
         SynthesisIsOfThisDesign, UncachedRoundIsExact, Built, Compiled,
         Measured
<1> QED
  BY <1>1, <1>2, <1>3

(* A repairer leaves another design; the round starts over. *)
LEMMA RepairStep == CacheInv /\ Repair => CacheInv'
<1> SUFFICES ASSUME CacheInv, Repair PROVE CacheInv'
  OBVIOUS
<1> USE DEF CacheInv, Repair, Goes, ForgetRound, launch, cache
<1>1. CacheTypeOK'
  <2>1. args.repair_budget \in Nat /\ repairs \in 0 .. args.repair_budget
    BY ArgsTypes DEF CacheTypeOK
  <2>2. repairs' \in 0 .. args'.repair_budget
    BY <2>1
  <2> QED
    BY <2>2, DesignTypes DEF CacheTypeOK
<1>2. (StoresAreTagged /\ PendingIsTagged)'
  BY DEF StoresAreTagged, PendingIsTagged
<1>3. /\ ResultsAreThere' /\ DiskIsOfThisDesign'
      /\ ArtifactIsOfThisDesign' /\ BinaryIsOfThisSource'
      /\ MeasuresTheTypedDesign' /\ NetlistIsOfTheRun' /\ NoOpIsReal'
      /\ SynthesisIsOfThisDesign' /\ UncachedRoundIsExact'
  BY DEF ResultsAreThere, DiskIsOfThisDesign, ArtifactIsOfThisDesign,
         BinaryIsOfThisSource, MeasuresTheTypedDesign, NetlistIsOfTheRun, NoOpIsReal,
         SynthesisIsOfThisDesign, UncachedRoundIsExact, Built, Compiled,
         Measured
<1> QED
  BY <1>1, <1>2, <1>3

(* A contained raise ends the iteration wherever it is. *)
LEMMA RaiseStep == CacheInv /\ Raise => CacheInv'
<1> SUFFICES ASSUME CacheInv, Raise PROVE CacheInv'
  OBVIOUS
<1> USE DEF CacheInv, Raise, EndIteration, ForgetRound, launch, tree, cache
<1>1. CacheTypeOK'
  <2>1. it' \in 1 .. args'.iters /\ repairs' \in 0 .. args'.repair_budget
    BY EndIterationTypes DEF CacheTypeOK
  <2>2. at' \in {"start", "done"}
    OBVIOUS
  <2> QED
    BY <2>1, <2>2, DesignTypes DEF CacheTypeOK
<1>2. (StoresAreTagged /\ PendingIsTagged)'
  BY DEF StoresAreTagged, PendingIsTagged
<1>3. /\ ResultsAreThere' /\ DiskIsOfThisDesign'
      /\ ArtifactIsOfThisDesign' /\ BinaryIsOfThisSource'
      /\ MeasuresTheTypedDesign' /\ NetlistIsOfTheRun' /\ NoOpIsReal'
      /\ SynthesisIsOfThisDesign' /\ UncachedRoundIsExact'
  BY DEF ResultsAreThere, DiskIsOfThisDesign, ArtifactIsOfThisDesign,
         BinaryIsOfThisSource, MeasuresTheTypedDesign, NetlistIsOfTheRun, NoOpIsReal,
         SynthesisIsOfThisDesign, UncachedRoundIsExact, Built, Compiled,
         Measured
<1> QED
  BY <1>1, <1>2, <1>3

(* A new launch: a new kernel, an empty or an old cache. *)
LEMMA RelaunchStep == CacheInv /\ Relaunch => CacheInv'
<1> SUFFICES ASSUME CacheInv, Relaunch PROVE CacheInv'
  OBVIOUS
<1> USE DEF CacheInv, Relaunch, ForgetRound, cache
<1>1. CacheTypeOK'
  <2>1. launches' \in 1 .. Launches
    BY DesignTypes DEF CacheTypeOK
  <2>2. it' \in 1 .. args'.iters /\ repairs' \in 0 .. args'.repair_budget
    BY ArgsTypes DEF CacheTypeOK
  <2>3. /\ builds' \in [HwTag -> Artifact \union {None}]
        /\ kernels' \in [SwTag -> Binary \union {None}]
        /\ logs' \in [SwTag -> Log \union {None}]
    BY DEF CacheTypeOK
  <2>4. parent' \in [design: Design, header: Hw]
    BY DesignTypes
  <2> QED
    BY <2>1, <2>2, <2>3, <2>4, DesignTypes DEF CacheTypeOK
<1>2. (StoresAreTagged /\ PendingIsTagged)'
  <2>1. CASE args.cache_scope = "run"
    BY <2>1 DEF StoresAreTagged, PendingIsTagged
  <2>2. CASE args.cache_scope # "run"
    BY <2>2 DEF StoresAreTagged, PendingIsTagged
  <2> QED
    BY <2>1, <2>2
<1>3. /\ ResultsAreThere' /\ DiskIsOfThisDesign'
      /\ ArtifactIsOfThisDesign' /\ BinaryIsOfThisSource'
      /\ MeasuresTheTypedDesign' /\ NetlistIsOfTheRun' /\ NoOpIsReal'
      /\ SynthesisIsOfThisDesign' /\ UncachedRoundIsExact'
  BY DEF ResultsAreThere, DiskIsOfThisDesign, ArtifactIsOfThisDesign,
         BinaryIsOfThisSource, MeasuresTheTypedDesign, NetlistIsOfTheRun, NoOpIsReal,
         SynthesisIsOfThisDesign, UncachedRoundIsExact, Built, Compiled,
         Measured
<1> QED
  BY <1>1, <1>2, <1>3

LEMMA CacheStutter == CacheInv /\ UNCHANGED vars => CacheInv'
  BY DEF CacheInv, CacheTypeOK, StoresAreTagged, PendingIsTagged,
         ResultsAreThere, DiskIsOfThisDesign, ArtifactIsOfThisDesign,
         BinaryIsOfThisSource, MeasuresTheTypedDesign, NetlistIsOfTheRun, NoOpIsReal,
         SynthesisIsOfThisDesign, UncachedRoundIsExact, ArtTag, vars, cache,
         launch, round, search, tree

LEMMA CacheStep == CacheInv /\ [Next]_vars => CacheInv'
  BY StartStep, IdentityStep, ElaborateStep, CheckNetlistStep,
     BuildKernelStep, SimulateStep, JudgeStep, SynthesizeStep, AdmitStep,
     GiveUpStep, RepairStep, RaiseStep, RelaunchStep, CacheStutter
     DEF Next

LEMMA CacheInvariant == Spec => []CacheInv
  BY CacheInit, CacheStep, PTL DEF Spec

-----------------------------------------------------------------------------
(* Every variable of the cache model has its type, whatever is proposed. *)
THEOREM CacheTypeCorrect == Spec => []CacheTypeOK
  BY CacheInvariant, PTL DEF CacheInv

(* The simulator a round uses was elaborated from its own hardware and RTL. *)
THEOREM ArtifactsAreOfTheDesign == Spec => []ArtifactIsOfThisDesign
  BY CacheInvariant, PTL DEF CacheInv

(* The binary a round runs is of its own schedule and kernel source. *)
THEOREM BinariesAreOfTheSource == Spec => []BinaryIsOfThisSource
  BY CacheInvariant, PTL DEF CacheInv

(* A measurement is of a design with the same typed fields. *)
THEOREM MeasurementsAreOfTheTypedDesign == Spec => []MeasuresTheTypedDesign
  BY CacheInvariant, PTL DEF CacheInv

(* With the cache off, RTL_NOOP is only said of an edit that is one.       *)
THEOREM NoOpsAreReal == Spec => []NoOpIsReal
  BY CacheInvariant, PTL DEF CacheInv

(* The area that is scored is of this hardware and RTL. *)
THEOREM SynthesisIsTheDesigns == Spec => []SynthesisIsOfThisDesign
  BY CacheInvariant, PTL DEF CacheInv

(* With --cache-scope off a round is about the design and nothing else. *)
THEOREM UncachedRoundsAreExact == Spec => []UncachedRoundIsExact
  BY CacheInvariant, PTL DEF CacheInv

(* A round that elaborated compiles its kernel against its own header.     *)
THEOREM HeadersAreTheDesigns == Spec => OwnHeaderWhenElaborated
<1>1. CacheInv /\ [Next]_vars =>
        [BuildKernel /\ elaborated /\ ran' => kern'.hw = design.hw]_vars
  <2> SUFFICES ASSUME CacheInv, BuildKernel, elaborated, ran'
               PROVE  kern'.hw = design.hw
    OBVIOUS
  <2>1. RunBuildKernel
    BY DEF BuildKernel, ServeKernel
  <2>2. header = design.hw
    BY DEF CacheInv, DiskIsOfThisDesign, BuildKernel
  <2> QED
    BY <2>1, <2>2 DEF RunBuildKernel
<1> QED
  BY <1>1, CacheInvariant, PTL DEF Spec, OwnHeaderWhenElaborated
=============================================================================
