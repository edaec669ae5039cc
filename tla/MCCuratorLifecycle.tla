------------------------ MODULE MCCuratorLifecycle ------------------------
(* CuratorLifecycle for TLC.  A curator is named after its cluster and is in the *)
(* cluster's own namespace, or, for hosted clusters, in the one they share.      *)
EXTENDS CuratorLifecycle

V(v)    == [NoRequest EXCEPT !.version = v]
Channel == [NoRequest EXCEPT !.channel = "stable"]

OwnNames        == [c \in Curators |-> c]
SharedNamespace == [c \in Curators |-> "clusters"]
OwnNamespace    == [c \in Curators |-> c]

Clear    == [desired |-> "", upgrade |-> NoRequest]
Install  == [desired |-> "install", upgrade |-> NoRequest]
Destroy  == [desired |-> "destroy", upgrade |-> NoRequest]
Upgrade2 == [desired |-> "upgrade", upgrade |-> V(2)]
Upgrade9 == [desired |-> "upgrade", upgrade |-> V(9)]  \* semver rejects it
EUS      == [desired |-> "upgrade", upgrade |-> [V(3) EXCEPT !.intermediate = 2]]
OnlyChannel == [desired |-> "upgrade", upgrade |-> Channel]
Scale    == [desired |-> "scale", upgrade |-> NoRequest]

CalmAsks == {Clear, Install, Destroy, Upgrade2, Upgrade9, EUS, Scale}
FaultAsks == {Clear, Upgrade2}
OneAsk == {Install}
EUSAsks == {EUS, Destroy}
ChannelAsk == {OnlyChannel}

CalmHooks == {<<"upgrade", "prehook">>, <<"install", "posthook">>}
NoHooks == {}

RestRetry == {<<"", "installPosthook">>}
NoRetry == {}
=============================================================================
