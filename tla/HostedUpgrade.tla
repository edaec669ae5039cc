--------------------------- MODULE HostedUpgrade ---------------------------
(***************************************************************************)
(* upgrade-cluster and monitor-upgrade of a hosted cluster.  The request is *)
(* written into the HostedCluster's channel and release image and into the  *)
(* release images of its NodePools, one patch after the other; the monitor  *)
(* polls the conditions of the one and the versions of the others.  A       *)
(* HostedCluster that cannot be read, or is gone, fails the container       *)
(* wherever it is (CallFails).                                              *)
(***************************************************************************)
EXTENDS Provision

CONSTANTS
    PoolsOf,        \* the NodePools that a list of names stands for
    HostedChannels  \* the channels offered to a HostedCluster that has one

ASSUME PoolsOfAssumption == PoolsOf \in [Names -> SUBSET Pools]

request == curator.upgrade

\* The NodePools an upgrade is about: those named, or all of them.
MatchingPools == IF request.pools = "" THEN Pools ELSE PoolsOf[request.pools]

OnlyPools == request.type = "NodePools"

WithControlPlane == request.type \in {"", "ControlPlane"}

WithPools == request.type \in {"", "NodePools"}

WithChannel == request.channel # "" /\ ~OnlyPools

-----------------------------------------------------------------------------
(* upgrade-cluster.                                                         *)

\* validateChannel: a HostedCluster without a channel lists none, and takes any.
ChannelValid == hc.channel = "" \/ request.channel \in HostedChannels

\* MUTANT: a NodePools upgrade is not compared with the control plane.
AnyVersion ==
    /\ <<request.version, request.channel>> # <<NoVersion, "">>
    /\ WithChannel => ChannelValid
    /\ request.version \notin Malformed
    /\ request.version # NoVersion /\ ~OnlyPools => mci # {}

\* validateUpgradeVersion, but for ErrAlreadyAtVersion.
UpgradeValid ==
    /\ <<request.version, request.channel>> # <<NoVersion, "">>
    /\ WithChannel => ChannelValid
    /\ request.version \notin Malformed
    /\ request.version # NoVersion /\ OnlyPools => request.version <= hc.version
    /\ request.version # NoVersion /\ ~OnlyPools => mci # {}

\* ErrAlreadyAtVersion, from the ManagedClusterInfo alone.
AlreadyAtVersion == request.version # NoVersion /\ ~OnlyPools /\ request.version \in mci

\* The patches in their order; each starts where the one before leaves off.
AfterImage ==
    IF WithPools THEN GoOn([at EXCEPT !.call = "pools", !.left = MatchingPools]) ELSE Succeed

AfterChannel ==
    CASE request.version = NoVersion -> Succeed
      [] request.version # NoVersion /\ WithControlPlane -> GoOn([at EXCEPT !.call = "image"])
      [] OTHER -> AfterImage

\* A cluster at its version ends the container at once, without any patch.
ValidateUpgrade ==
    /\ AtWork("upgrade-cluster", "work", "hosted")
    /\ CASE ~UpgradeValid -> Fail
         [] UpgradeValid /\ AlreadyAtVersion -> Succeed
         [] OTHER -> IF WithChannel THEN GoOn([at EXCEPT !.call = "channel"]) ELSE AfterChannel
    /\ Unchanged

PatchChannel ==
    /\ AtWork("upgrade-cluster", "channel", "hosted")
    /\ hc' = [hc EXCEPT !.channel = request.channel]
    /\ AfterChannel
    /\ UNCHANGED <<cd, provision, uninstall, pool, managed, mci, asked>>

PatchImage ==
    /\ AtWork("upgrade-cluster", "image", "hosted")
    /\ hc' = [hc EXCEPT !.image = request.version]
    /\ asked' = asked \cup {request.version}
    /\ AfterImage
    /\ UNCHANGED <<cd, provision, uninstall, pool, managed, mci>>

\* The next NodePool of the list, or the end of it.
PatchNodePool ==
    /\ AtWork("upgrade-cluster", "pools", "hosted")
    /\ IF at.left = {} THEN Succeed /\ UNCHANGED pool
       ELSE \E p \in at.left :
              /\ pool' = [pool EXCEPT ![p].image = request.version]
              /\ GoOn([at EXCEPT !.left = @ \ {p}])
    /\ UNCHANGED <<cd, provision, uninstall, hc, managed, mci, asked>>

-----------------------------------------------------------------------------
(* monitor-upgrade.                                                         *)

\* MUTANT: the version a NodePool reports is not compared.
SpecIsEnough ==
    \A p \in MatchingPools : pool[p].ready /\ pool[p].image = request.version

\* areNodePoolsReady.
PoolsReady ==
    \A p \in MatchingPools :
       /\ pool[p].ready
       /\ pool[p].image = request.version
       /\ pool[p].version = request.version

OnlyChannel == request.version = NoVersion /\ request.channel # ""

\* One turn of a loop without an inner one: the channel's, the NodePools', and the
\* second half of the default upgrade's.
MonitorTurn ==
    /\ \/ AtWork("monitor-upgrade", "monitor", "hosted") /\ (OnlyChannel \/ OnlyPools)
       \/ AtWork("monitor-upgrade", "list", "hosted")
    /\ IF IF OnlyChannel THEN hc.channel = request.channel ELSE PoolsReady
       THEN Succeed
       ELSE NextAttempt([at EXCEPT !.call = "monitor"])
    /\ Unchanged

\* A HostedCluster that reads ready, whatever version it runs, ends a ControlPlane
\* upgrade; by default its NodePools are looked at next.
AfterReady(polls) ==
    IF WithPools THEN GoOn([at EXCEPT !.call = "list", !.polls = polls]) ELSE Succeed

MonitorControlPlane ==
    /\ AtWork("monitor-upgrade", "monitor", "hosted")
    /\ ~OnlyChannel /\ ~OnlyPools
    /\ IF hc.ready THEN AfterReady(at.polls) ELSE GoOn([at EXCEPT !.call = "ready"])
    /\ Unchanged

\* The inner loop ends when the conditions read ready, and has no last turn; ready at the
\* last attempt is too late.
AwaitControlPlane ==
    /\ AtWork("monitor-upgrade", "ready", "hosted")
    /\ hc.ready
    /\ IF at.polls + 1 < MonitorPolls THEN AfterReady(at.polls + 1) ELSE Fail
    /\ Unchanged

HostedUpgrading ==
    \/ ValidateUpgrade \/ PatchChannel \/ PatchImage \/ PatchNodePool
    \/ MonitorTurn \/ MonitorControlPlane \/ AwaitControlPlane
=============================================================================
