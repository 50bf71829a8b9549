----------------------------- MODULE NodeCache -----------------------------
(***************************************************************************)
(* What stands behind a measurement: the calls of one round (elaborate,    *)
(* netlist_digest, build_kernel, simulate, synthesize_recipe), the tags    *)
(* under which their results are cached and served again, and the build    *)
(* outputs that survive in the container between two rounds.               *)
(*                                                                         *)
(* RepairLoop takes every answer to be about the tree.  Here an answer     *)
(* carries what it is really about, and the gates only decide which call   *)
(* comes next.                                                             *)
(*                                                                         *)
(* A design is its hardware fields, its software fields and the digest of  *)
(* its RTL.  A cache entry is kept for the last call made under its tag.   *)
(***************************************************************************)
EXTENDS Naturals

CONSTANTS
    Hw, Sw, Rtl,      \* hardware fields, software fields, RTL sources
    Designs,          \* the designs a proposer or a repairer may leave
    Baseline,         \* the design of iteration 1
    Pinned,           \* the hardware gemmini_params.h has at the commit
    Netlist(_, _),    \* what the hardware fields and the RTL elaborate to
    Sources,          \* versions of kernels/spmm.c and its data header
    Args,             \* command lines: cache_scope, iters, repair_budget
    Launches,         \* bound: how often the program is started
    None

Design == [hw: Hw, sw: Sw, rtl: Rtl]

ASSUME NodeCacheAssumption ==
    /\ Designs \subseteq Design /\ Baseline \in Design
    /\ Pinned \in Hw
    /\ Args \subseteq [cache_scope: {"run", "global", "off"},
                       iters: Nat \ {0}, repair_budget: Nat]
    /\ Launches \in Nat \ {0}

ASSUME NodeCacheNone ==
    /\ None \notin [ok: BOOLEAN, hw: Hw, rtl: Rtl]
    /\ None \notin [ok: BOOLEAN, hw: Hw, sw: Sw, source: Sources]
    /\ None \notin [hw: Hw, rtl: Rtl]

(* What the calls return, named by what it was really made from.  A log    *)
(* has the exit code of its run (ok) and what the driver will make of its  *)
(* counters (good): the kernel exits with 0 whatever it computed.          *)
Artifact == [ok: BOOLEAN, hw: Hw, rtl: Rtl]
Binary == [ok: BOOLEAN, hw: Hw, sw: Sw, source: Sources]
Log == [ok: BOOLEAN, good: BOOLEAN, art: Artifact, kern: Binary]

(* hw_tag, and the tag that build_kernel and simulate share: sw_hash, which *)
(* carries the hardware fields, and build_id, the bytes that are compiled. *)
HwTag == [hw: Hw, rtl: Rtl]
SwTag == [hw: Hw, sw: Sw, source: Sources]

VARIABLES
    args, source,     \* the command line; the kernel as of this launch
    launches, it, repairs, at,
    design,           \* what the tree holds
    header,           \* the hardware gemmini_params.h on disk describes
    collateral,       \* the build whose Verilog is in gen-collateral/, or None
    parent,           \* the parent's design, and the header in its diff
    seen,
    collected,        \* the header when this round's diff was collected
    art, kern, log,   \* results of this round, None before
    ran,              \* the call made last was executed, not served
    elaborated,       \* this round's elaboration was executed
    prevNetlist, prevRtl,
    pending,          \* pending_synth: its hw_tag and what it synthesizes
    synth,            \* what the area of this round was measured on
    builds, kernels, logs   \* the cache: what is stored under each tag

cache == <<builds, kernels, logs>>
launch == <<args, source, launches>>
round == <<art, kern, log, ran, elaborated, collected, synth>>
search == <<it, repairs, parent, seen>>
tree == <<design, header, collateral>>
vars == <<launch, search, at, tree, round, prevNetlist, prevRtl,
          pending, cache>>

-----------------------------------------------------------------------------
(* Tags.                                                                   *)

(* Fault: the tag of the typed fields alone, which an RTL edit keeps.      *)
ArtTag_TypedOnly(d) == [hw |-> d.hw, rtl |-> CHOOSE r \in Rtl : TRUE]
ArtTag(d) == [hw |-> d.hw, rtl |-> d.rtl]

(* Fault: the tag of the state alone, which an edit of the kernel keeps.   *)
BuildTag_StateOnly(d) ==
    [hw |-> d.hw, sw |-> d.sw, source |-> CHOOSE s \in Sources : TRUE]
BuildTag(d) == [hw |-> d.hw, sw |-> d.sw, source |-> source]

(* Fault: the schedule is not in the tag.                                  *)
RunTag_HwOnly(d) ==
    [hw |-> d.hw, sw |-> CHOOSE s \in Sw : TRUE, source |-> source]
RunTag(d) == [hw |-> d.hw, sw |-> d.sw, source |-> source]

(* Fault: --cache-scope off still reads.                                   *)
Serves_InAnyScope(stored) == stored # None /\ stored.ok

(* cache_hit and cache_provider: a failure is not served, as far as        *)
(* _is_failure can tell one, by the success flag or the exit code.         *)
Serves(stored) == args.cache_scope # "off" /\ stored # None /\ stored.ok

(* Fault: a synthesis is reused when the typed hardware is the same.       *)
IsPending_TypedOnly(d) == pending # None /\ pending.tag.hw = d.hw
IsPending(d) == pending # None /\ pending.tag = ArtTag(d)

-----------------------------------------------------------------------------
(* The round.                                                              *)

Goes(next) == at' = next

(* Whoever proposes leaves some design in the tree.                        *)
Start ==
    /\ at = "start"
    /\ design' \in IF it = 1 THEN {design} ELSE Designs
    /\ Goes("identity")
    /\ UNCHANGED <<launch, search, header, collateral, round,
                   prevNetlist, prevRtl, pending, cache>>

(* The diff is collected, the design is looked up.                         *)
Identity ==
    /\ at = "identity"
    /\ collected' = header
    /\ \/ design \in seen /\ Goes("duplicate") /\ UNCHANGED seen
       \/ /\ design \notin seen
          /\ seen' = seen \union {design} /\ Goes("elaborate")
    /\ UNCHANGED <<launch, it, repairs, parent, tree, art, kern, log, ran,
                   elaborated, synth, prevNetlist, prevRtl, pending, cache>>

(* A served build leaves the disk alone.  One that is executed rewrites    *)
(* the header and the collateral; one that fails may do either first, or   *)
(* leave no Verilog at all.                                                *)
ServeElaborate ==
    /\ Serves(builds[ArtTag(design)])
    /\ art' = builds[ArtTag(design)]
    /\ ran' = FALSE /\ elaborated' = FALSE
    /\ UNCHANGED <<header, collateral, builds>>

(* Fault: the header is generated once and not again.                      *)
RunElaborate_KeepsHeader ==
    /\ ~Serves(builds[ArtTag(design)])
    /\ art' = [ok |-> TRUE, hw |-> design.hw, rtl |-> design.rtl]
    /\ builds' = [builds EXCEPT ![ArtTag(design)] = art']
    /\ collateral' = ArtTag(design)
    /\ ran' = TRUE /\ elaborated' = TRUE
    /\ UNCHANGED header

RunElaborate ==
    /\ ~Serves(builds[ArtTag(design)])
    /\ \E ok \in BOOLEAN :
         /\ art' = [ok |-> ok, hw |-> design.hw, rtl |-> design.rtl]
         /\ builds' = [builds EXCEPT ![ArtTag(design)] = art']
         /\ header' \in {design.hw} \union IF ok THEN {} ELSE {header}
         /\ collateral' \in {ArtTag(design)}
                              \union IF ok THEN {} ELSE {collateral, None}
    /\ ran' = TRUE /\ elaborated' = TRUE

Elaborate ==
    /\ at = "elaborate"
    /\ ServeElaborate \/ RunElaborate
    /\ Goes(IF art'.ok THEN "netlist" ELSE "failed")
    /\ UNCHANGED <<launch, search, design, kern, log, collected, synth,
                   prevNetlist, prevRtl, pending, kernels, logs>>

(* N12b reads what is on disk, if anything: its tag is never served.  Then *)
(* the synthesis of this hardware is dispatched, unless it is under way.   *)
Digest == Netlist(collateral.hw, collateral.rtl)

(* Fault: the RTL is compared with the parent's, the netlist is not.       *)
NoOpEdit_AgainstParent ==
    /\ collateral # None /\ prevNetlist # None
    /\ design.rtl # parent.design.rtl /\ Digest = prevNetlist

NoOpEdit ==
    /\ collateral # None /\ prevNetlist # None
    /\ design.rtl # prevRtl /\ Digest = prevNetlist

CheckNetlist ==
    /\ at = "netlist"
    /\ \/ /\ NoOpEdit /\ Goes("noop")
          /\ UNCHANGED <<prevNetlist, prevRtl, pending>>
       \/ /\ ~NoOpEdit /\ Goes("kernel")
          /\ IF collateral = None THEN UNCHANGED <<prevNetlist, prevRtl>>
             ELSE prevNetlist' = Digest /\ prevRtl' = design.rtl
          /\ pending' = IF IsPending(design) THEN pending
                        ELSE [tag |-> ArtTag(design), of |-> art]
    /\ UNCHANGED <<launch, search, tree, round, cache>>

(* The kernel is compiled against the header on disk.                      *)
ServeKernel ==
    /\ Serves(kernels[BuildTag(design)])
    /\ kern' = kernels[BuildTag(design)]
    /\ ran' = FALSE
    /\ UNCHANGED kernels

RunBuildKernel ==
    /\ ~Serves(kernels[BuildTag(design)])
    /\ \E ok \in BOOLEAN :
         /\ kern' = [ok |-> ok, hw |-> header, sw |-> design.sw,
                     source |-> source]
         /\ kernels' = [kernels EXCEPT ![BuildTag(design)] = kern']
    /\ ran' = TRUE

BuildKernel ==
    /\ at = "kernel"
    /\ ServeKernel \/ RunBuildKernel
    /\ Goes(IF kern'.ok THEN "simulate" ELSE "failed")
    /\ UNCHANGED <<launch, search, tree, art, log, elaborated, collected,
                   synth, prevNetlist, prevRtl, pending, builds, logs>>

(* The log of a run, and with it N41's verdict, answers for this design.   *)
(* The exit code of a run is not looked at, its log is judged.             *)
ServeSimulate ==
    /\ Serves(logs[RunTag(design)])
    /\ log' = logs[RunTag(design)]
    /\ ran' = FALSE
    /\ UNCHANGED logs

RunSimulate ==
    /\ ~Serves(logs[RunTag(design)])
    /\ \E ok, good \in BOOLEAN :
         log' = [ok |-> ok, good |-> good, art |-> art, kern |-> kern]
    /\ logs' = [logs EXCEPT ![RunTag(design)] = log']
    /\ ran' = TRUE

Simulate ==
    /\ at = "simulate"
    /\ ServeSimulate \/ RunSimulate
    /\ Goes("measured")
    /\ UNCHANGED <<launch, search, tree, art, kern, elaborated, collected,
                   synth, prevNetlist, prevRtl, pending, builds, kernels>>

(* N50, the tripwire and N41 on what the log says, no more and no less.    *)
Judge ==
    /\ at = "measured"
    /\ Goes(IF log.good THEN "passed" ELSE "refused")
    /\ UNCHANGED <<launch, search, tree, round, prevNetlist, prevRtl,
                   pending, cache>>

(* N52: the synthesis under way is joined if it is this hardware's, else   *)
(* one is made; any failure falls back to the model's area.                *)
Synthesize ==
    /\ at = "passed"
    /\ synth' \in {None, IF IsPending(design) THEN pending.of ELSE art}
    /\ Goes("scored")
    /\ UNCHANGED <<launch, search, tree, art, kern, log, ran, elaborated,
                   collected, prevNetlist, prevRtl, pending, cache>>

-----------------------------------------------------------------------------
(* The end of a round, of an iteration, of a launch.                       *)

(* Nothing reads the results of a round once it is over: they are forgotten *)
(* here.                                                                   *)
ForgetRound ==
    /\ art' = None /\ kern' = None /\ log' = None /\ synth' = None
    /\ ran' = FALSE /\ elaborated' = FALSE /\ collected' = Pinned

EndIteration ==
    /\ at' = IF it < args.iters THEN "start" ELSE "done"
    /\ it' = IF it < args.iters THEN it + 1 ELSE it
    /\ repairs' = 0 /\ pending' = None
    /\ ForgetRound

(* The tree is reset and the parent's diff applied: tracked files, the     *)
(* header among them; build outputs survive.                               *)
Rollback ==
    /\ design' = parent.design /\ header' = parent.header
    /\ UNCHANGED collateral

Admit ==
    /\ at = "scored"
    /\ parent' = [design |-> design, header |-> collected]
    /\ EndIteration
    /\ UNCHANGED <<launch, seen, tree, prevNetlist, prevRtl, cache>>

Failed == {"duplicate", "failed", "noop", "refused"}

GiveUp ==
    /\ at \in Failed \union {"scored"}
    /\ Rollback
    /\ EndIteration
    /\ UNCHANGED <<launch, parent, seen, prevNetlist, prevRtl, cache>>

(* Fault: one repair more than the budget.                                 *)
Repair_OffByOne ==
    /\ at \in Failed \ {"duplicate"} /\ repairs <= args.repair_budget /\ it > 1
    /\ design' \in Designs
    /\ repairs' = repairs + 1
    /\ ForgetRound
    /\ Goes("identity")
    /\ UNCHANGED <<launch, it, parent, seen, header, collateral, prevNetlist,
                   prevRtl, pending, cache>>

Repair ==
    /\ at \in Failed \ {"duplicate"} /\ repairs < args.repair_budget /\ it > 1
    /\ design' \in Designs
    /\ repairs' = repairs + 1
    /\ ForgetRound
    /\ Goes("identity")
    /\ UNCHANGED <<launch, it, parent, seen, header, collateral, prevNetlist,
                   prevRtl, pending, cache>>

(* A call raises; the iteration is contained and nothing is rolled back.   *)
Raise ==
    /\ at \notin {"start", "done"}
    /\ EndIteration
    /\ UNCHANGED <<launch, parent, seen, tree, prevNetlist, prevRtl, cache>>

(* Another run: the tree is reset to the commit and the baseline's fields  *)
(* written; the cache of scope "run" is a new directory.  The kernel may   *)
(* have been edited in between.  A process that dies in the middle of an   *)
(* iteration leaves behind what one that raises there does.                *)
Relaunch ==
    /\ launches < Launches
    /\ at \in {"start", "done"}
    /\ launches' = launches + 1
    /\ source' \in Sources
    /\ UNCHANGED args
    /\ IF args.cache_scope = "run"
       THEN /\ builds' = [t \in HwTag |-> None]
            /\ kernels' = [t \in SwTag |-> None]
            /\ logs' = [t \in SwTag |-> None]
       ELSE UNCHANGED cache
    /\ it' = 1 /\ repairs' = 0 /\ at' = "start"
    /\ design' = Baseline /\ header' = Pinned
    /\ parent' = [design |-> Baseline, header |-> Pinned]
    /\ seen' = {}
    /\ prevNetlist' = None /\ prevRtl' = None /\ pending' = None
    /\ ForgetRound
    /\ UNCHANGED collateral

-----------------------------------------------------------------------------
Init ==
    /\ args \in Args /\ source \in Sources /\ launches = 1
    /\ it = 1 /\ repairs = 0 /\ at = "start"
    /\ design = Baseline /\ header = Pinned
    /\ collateral = [hw |-> Pinned, rtl |-> Baseline.rtl]
    /\ parent = [design |-> Baseline, header |-> Pinned]
    /\ seen = {}
    /\ collected = Pinned
    /\ art = None /\ kern = None /\ log = None /\ synth = None
    /\ ran = FALSE /\ elaborated = FALSE
    /\ prevNetlist = None /\ prevRtl = None /\ pending = None
    /\ builds \in [HwTag -> {None}]
    /\ kernels \in [SwTag -> {None}]
    /\ logs \in [SwTag -> {None}]

Next ==
    \/ Start \/ Identity
    \/ Elaborate \/ CheckNetlist \/ BuildKernel \/ Simulate
    \/ Judge \/ Synthesize
    \/ Admit \/ GiveUp \/ Repair \/ Raise \/ Relaunch

Spec == Init /\ [][Next]_vars

-----------------------------------------------------------------------------
(* Properties.                                                             *)

Built == {"netlist", "kernel", "noop", "simulate", "measured", "refused",
          "passed", "scored"}
Compiled == {"simulate", "measured", "refused", "passed", "scored"}
Measured == {"measured", "refused", "passed", "scored"}

(* Every variable has its type.                                            *)
CacheTypeOK ==
    /\ args \in Args /\ source \in Sources /\ launches \in 1 .. Launches
    /\ it \in 1 .. args.iters /\ repairs \in 0 .. args.repair_budget
    /\ at \in {"start", "identity", "elaborate", "done"}
              \union Failed \union Built
    /\ design \in Design /\ header \in Hw /\ collateral \in HwTag \union {None}
    /\ parent \in [design: Design, header: Hw]
    /\ seen \subseteq Design
    /\ collected \in Hw /\ ran \in BOOLEAN /\ elaborated \in BOOLEAN
    /\ art \in Artifact \union {None} /\ synth \in Artifact \union {None}
    /\ kern \in Binary \union {None}
    /\ log \in Log \union {None}
    /\ pending \in [tag: HwTag, of: Artifact] \union {None}
    /\ builds \in [HwTag -> Artifact \union {None}]
    /\ kernels \in [SwTag -> Binary \union {None}]
    /\ logs \in [SwTag -> Log \union {None}]

(* The simulator that runs was elaborated from the hardware fields and the *)
(* RTL in the tree, whatever earlier rounds and runs have left in the      *)
(* cache (the tag with the RTL digest in it).                              *)
ArtifactIsOfThisDesign ==
    at \in Built => art = [ok |-> TRUE, hw |-> design.hw, rtl |-> design.rtl]

(* The binary was compiled from this launch's kernel source with this      *)
(* design's schedule, not from an older source or for another schedule     *)
(* that shares its tag (build_id and sw_hash).                             *)
BinaryIsOfThisSource ==
    at \in Compiled => kern.ok /\ kern.sw = design.sw /\ kern.source = source

(* What was simulated has the typed fields of the design and the kernel of *)
(* this launch: a measurement is never another state's.                    *)
MeasuresTheTypedDesign ==
    at \in Measured => /\ log.art.ok /\ log.art.hw = design.hw
                       /\ log.kern.ok /\ log.kern.sw = design.sw
                       /\ log.kern.source = source

(* With the cache off, an edit is only refused as a no-op (N12b) when it   *)
(* is one: a design of this run with another RTL elaborates to the same    *)
(* netlist, whatever was rejected, repaired and rolled back since.         *)
NoOpIsReal ==
    args.cache_scope = "off" /\ at = "noop" =>
        \E d \in seen : /\ d.rtl # design.rtl
                        /\ Netlist(d.hw, d.rtl) = Netlist(design.hw, design.rtl)

(* The area that is scored was synthesized from this design's Verilog,     *)
(* although the synthesis may have been dispatched for an earlier round.   *)
SynthesisIsOfThisDesign ==
    at = "scored" /\ synth # None =>
        synth = [ok |-> TRUE, hw |-> design.hw, rtl |-> design.rtl]

(* A round that really elaborated compiles against its own header: the     *)
(* kernel's view of the hardware can be another's only when the build, or  *)
(* the kernel itself, was served.                                          *)
OwnHeaderWhenElaborated ==
    [][BuildKernel /\ elaborated /\ ran' => kern'.hw = design.hw]_vars

(* With the cache off, the round is about the design and nothing else.     *)
UncachedRoundIsExact ==
    args.cache_scope = "off" =>
        /\ at \in Built => collateral = ArtTag(design)
        /\ at \in Compiled => kern.hw = design.hw
        /\ at \in Measured => log.art = art /\ log.kern = kern

(* What comments and documents say and the code does not do.  loop.py says *)
(* of a tag without the RTL digest that it makes the loop measure the      *)
(* wrong hardware silently; the tag of the simulation is one.              *)
MeasuresThisDesign == at \in Measured => log.art = art
=============================================================================
