--------------------------- MODULE MCUpgradeCycle ---------------------------
(* UpgradeCycle for TLC: three versions, a channel-only request, a hosted     *)
(* cluster's upgrade type, and a version semver rejects (9).                  *)
EXTENDS UpgradeCycle

MCRequests ==
    { [NoRequest EXCEPT !.version = 2],
      [NoRequest EXCEPT !.version = 3],
      [NoRequest EXCEPT !.version = 9],
      [NoRequest EXCEPT !.version = 3, !.channel = "stable"],
      [NoRequest EXCEPT !.channel = "stable"],
      [NoRequest EXCEPT !.upstream = "mirror"],
      [NoRequest EXCEPT !.version = 3, !.type = "NodePools", !.pools = "a,b"] }
=============================================================================
