--------------------------- MODULE MCHiveUpgrade ---------------------------
(* HiveUpgrade for TLC.  Versions are 1000 major + 100 minor + patch; 4.1.1 is *)
(* printed in 4.1.12.                                                          *)
EXTENDS HiveUpgrade

Offered == [v \in {4101, 4112, 4201, 4301} |->
              CASE v = 4101 -> {4112, 4201}
                [] v = 4112 -> {4201}
                [] OTHER -> {}]

ToVersion(v) == [NoRequest EXCEPT !.version = v]
EUS         == [NoRequest EXCEPT !.version = 4301, !.intermediate = 4201]
OnlyChannel == [NoRequest EXCEPT !.channel = "stable"]
Mirrored    == [NoRequest EXCEPT !.version = 4201, !.upstream = "mirror"]
NoChannel   == [NoRequest EXCEPT !.version = 4201, !.channel = "mirror"]

MCRequests == {ToVersion(4101), ToVersion(4112), Mirrored, NoChannel, EUS, OnlyChannel}
MCForced   == {Mirrored, NoChannel}
Digits     == {<<4101, 4112>>}
=============================================================================
