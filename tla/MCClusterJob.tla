---------------------------- MODULE MCClusterJob ----------------------------
(* ClusterJob for TLC. *)
EXTENDS ClusterJob, TLC

Curator(desired, upgrade) == [desired |-> desired, op |-> "nil", upgrade |-> upgrade]

Upgrade(version, type, pools) ==
    Curator("upgrade", [NoRequest EXCEPT !.version = version, !.type = type, !.pools = pools])

Channel(version, type, channel) ==
    Curator("upgrade", [NoRequest EXCEPT !.version = version, !.type = type,
                                         !.channel = channel])

RetryInstall == [desired |-> "", op |-> "installPosthook", upgrade |-> NoRequest]

MCCurators ==
    {Curator("install", NoRequest), Curator("destroy", NoRequest), RetryInstall,
     Upgrade(2, "", ""), Upgrade(2, "", "second"),
     Upgrade(2, "NodePools", "second"), Upgrade(3, "NodePools", ""),
     Channel(NoVersion, "", "fast"), Channel(2, "ControlPlane", "fast")}

MCTemplates == (<<"install", "prehook">> :> 2 @@ <<"install", "posthook">> :> 1
                  @@ <<"upgrade", "posthook">> :> 1 @@ <<"destroy", "prehook">> :> 1)

ByName == [l \in Names |-> CASE l = "first" -> {"p1"} [] l = "second" -> {"p2"} [] OTHER -> {}]

TwoPools == {"p1", "p2"}

DestroyOnly == {Curator("destroy", NoRequest)}
PoolByPool == {Upgrade(2, "", "first"), Upgrade(2, "", "second")}
NoTemplates == <<>>
=============================================================================
