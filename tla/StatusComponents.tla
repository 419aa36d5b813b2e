------------------------- MODULE StatusComponents -------------------------
(***************************************************************************)
(* The status components of package factory (src/factory/statusComponents *)
(* .go): the factory's Create, which starts a resource monitor (when       *)
(* ResourceStats is enabled), a software version checker and an outport    *)
(* handler, and on the metachain registers an epoch-start handler; the     *)
(* handler, run by the epoch-start notifier; and Close.                    *)
(*                                                                         *)
(* Each of the three resources is "none" (never made), "running" (started) *)
(* or "closed".  The configuration Create reads is chosen in Init.  A call *)
(* to an external constructor that may return an error is a               *)
(* nondeterministic choice of the failing call.  The context whose         *)
(* cancelFunc Close calls is discarded by Create, so cancelFunc is left    *)
(* out: calling it changes nothing this component can observe.            *)
(***************************************************************************)
EXTENDS Naturals

CONSTANTS
    ShardIds,          \* shard IDs the node may have
    MetachainShardId,  \* core.MetachainShardId, one of ShardIds
    RoundDurations,    \* GenesisNodesSetup().GetRoundDuration() values, in ms
    RefreshIntervals,  \* ResourceStats.RefreshIntervalInSec values
    Epochs,            \* epochs of epoch-start headers
    MaxEpochStarts     \* bound on the number of epoch-start events

VARIABLES
    cfg,               \* the configuration Create reads
    phase,             \* "factory", "created", "failed" or "closed"
    resourceMonitor,   \* statistics.ResourceMonitor
    softwareVersion,   \* statistics.SoftwareVersionChecker
    outportHandler,    \* outport.OutportHandler
    registered,        \* epochStartEventHandler registered with the notifier
    epochStarts,       \* epoch-start events published so far
    saves,             \* SaveValidatorsPubKeys calls made so far
    lastSaved          \* arguments of the last SaveValidatorsPubKeys call

vars == <<cfg, phase, resourceMonitor, softwareVersion, outportHandler,
          registered, epochStarts, saves, lastSaved>>

Configs ==
    [resourceStatsEnabled : BOOLEAN, refreshIntervalInSec : RefreshIntervals,
     roundDuration : RoundDurations, selfId : ShardIds]

\* The external calls of Create that may return an error.
FallibleCalls ==
    {"NewResourceMonitor", "NewSoftwareVersionFactory", "SoftwareVersionCreate",
     "CreateOutport"}
NoFailure == "none"

NoSave == [epoch |-> 0, keys |-> "none"]

\* startStatisticsMonitor: "running" after StartMonitoring, "error" when the
\* refresh interval is below 1 or NewResourceMonitor fails.
startStatisticsMonitor(fail) ==
    IF cfg.refreshIntervalInSec < 1 \/ fail = "NewResourceMonitor"
    THEN "error" ELSE "running"

\* Create, in the order of its early returns.  Each stage is reached only
\* when no earlier one returned an error; what earlier stages started stays
\* started.
CreateStages(fail) ==
    LET monitor == IF cfg.resourceStatsEnabled THEN startStatisticsMonitor(fail) ELSE "none"
        svReached == monitor # "error"
        svStarted == svReached /\ fail \notin {"NewSoftwareVersionFactory", "SoftwareVersionCreate"}
        roundOk == svStarted /\ cfg.roundDuration \div 1000 >= 1
        outport == roundOk /\ fail # "CreateOutport"
    IN [monitor |-> IF monitor = "running" THEN "running" ELSE "none",
        software |-> IF svStarted THEN "running" ELSE "none",
        outport |-> IF outport THEN "running" ELSE "none",
        ok |-> outport]

Init ==
    /\ cfg \in Configs
    /\ phase = "factory"
    /\ resourceMonitor = "none"
    /\ softwareVersion = "none"
    /\ outportHandler = "none"
    /\ registered = FALSE
    /\ epochStarts = 0
    /\ saves = 0
    /\ lastSaved = NoSave

Create(fail) ==
    LET r == CreateStages(fail) IN
    /\ phase = "factory"
    /\ phase' = IF r.ok THEN "created" ELSE "failed"
    /\ resourceMonitor' = r.monitor
    /\ softwareVersion' = r.software
    /\ outportHandler' = r.outport
    /\ registered' = (r.ok /\ cfg.selfId = MetachainShardId)
    /\ UNCHANGED <<cfg, epochStarts, saves, lastSaved>>

\* The handler saves the eligible validators of the header's epoch, and
\* after a failed GetAllEligibleValidatorsPublicKeys still saves its nil map.
epochStartEventHandler(epoch, coordinatorOk) ==
    /\ saves' = saves + 1
    /\ lastSaved' = [epoch |-> epoch, keys |-> IF coordinatorOk THEN "eligible" ELSE "nil"]

\* The epoch-start notifier publishes a header; a registered handler runs.
EpochStart(epoch, coordinatorOk) ==
    /\ epochStarts < MaxEpochStarts
    /\ epochStarts' = epochStarts + 1
    /\ IF registered
       THEN epochStartEventHandler(epoch, coordinatorOk)
       ELSE UNCHANGED <<saves, lastSaved>>
    /\ UNCHANGED <<cfg, phase, resourceMonitor, softwareVersion, outportHandler, registered>>

Closed(r) == IF r = "running" THEN "closed" ELSE r

\* Close: the non-nil software version checker and resource monitor are
\* closed; the outport handler is not, and the handler stays registered.
Close ==
    /\ phase = "created"
    /\ phase' = "closed"
    /\ softwareVersion' = Closed(softwareVersion)
    /\ resourceMonitor' = Closed(resourceMonitor)
    /\ UNCHANGED <<cfg, outportHandler, registered, epochStarts, saves, lastSaved>>

Next ==
    \/ \E f \in FallibleCalls \cup {NoFailure} : Create(f)
    \/ \E e \in Epochs, ok \in BOOLEAN : EpochStart(e, ok)
    \/ Close

Spec == Init /\ [][Next]_vars

-----------------------------------------------------------------------------
(* Properties *)

Resources == {"none", "running", "closed"}

TypeOK ==
    /\ cfg \in Configs
    /\ phase \in {"factory", "created", "failed", "closed"}
    /\ {resourceMonitor, softwareVersion, outportHandler} \subseteq Resources
    /\ registered \in BOOLEAN
    /\ epochStarts \in 0..MaxEpochStarts
    /\ saves \in 0..epochStarts
    /\ lastSaved \in {NoSave} \cup [epoch : Epochs, keys : {"eligible", "nil"}]

CloseReleasesEverything ==
    phase = "closed" =>
        \A r \in {resourceMonitor, softwareVersion, outportHandler} : r # "running"

\* A Create that returns an error leaves nothing running: the caller gets no
\* statusComponents to Close.
FailedCreateReleasesStarted ==
    phase = "failed" => resourceMonitor # "running" /\ softwareVersion # "running"

=============================================================================
