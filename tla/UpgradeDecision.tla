-------------------------- MODULE UpgradeDecision --------------------------
(***************************************************************************)
(* utils.NeedToUpgrade: does a ClusterCurator whose desiredCuration is      *)
(* "upgrade" need a new curation Job?  The answer is read from the message  *)
(* of the "clustercurator-job" condition, into which the last Job printed   *)
(* the request it ran.                                                      *)
(*                                                                          *)
(* A version is a natural number ordered as semver orders versions; 0 is    *)
(* the empty string.  The other fields of a request are opaque strings.     *)
(* Where the code asks whether a printed message CONTAINS a text, one field *)
(* of the text matches a field of the message when they are equal or when   *)
(* the part compared is empty (proper prefixes and suffixes between two     *)
(* different non-empty names are left out).                                 *)
(***************************************************************************)
EXTENDS Naturals

CONSTANTS
    Names,      \* the channels, upstreams, upgrade types and node pool lists
    Malformed   \* the versions semver.Make rejects

ASSUME NamesAssumption == "" \in Names
ASSUME MalformedAssumption == Malformed \subseteq Nat \ {0}

NoVersion == 0

\* spec.upgrade, as far as the controller reads it; pools is the joined list.
Request == [version : Nat, intermediate : Nat, channel : Names,
            upstream : Names, type : Names, pools : Names]

NoRequest == [version |-> NoVersion, intermediate |-> NoVersion, channel |-> "",
              upstream |-> "", type |-> "", pools |-> ""]

\* What stands between the parentheses of a message: the first `fields` of
\* version;channel;upstream;type;pools.  Releases before this one printed one
\* or three fields; no parentheses at all is 0.
Info == [fields : {0, 1, 3, 5}, of : Request]

NoInfo == [fields |-> 0, of |-> NoRequest]

\* The fields of a request that a message records.
Recorded(req) == <<req.version, req.channel, req.upstream, req.type, req.pools>>

\* MUTANT: the message loses the upgrade type and the node pools.
ShortVersionInfo(req) == [fields |-> 3, of |-> req]

\* MUTANT: the message has two fields, a form no parser knows.
TwoFields(req) == [fields |-> 2, of |-> req]

GetCurrentVersionInfo(req) == [fields |-> 5, of |-> req]

\* strings.Contains(message, "version;channel;upstream").
ContainsBasicInfo(req, info) ==
    \/ /\ info.fields \in {3, 5}
       /\ req.version \in {NoVersion, info.of.version}
       /\ req.channel = info.of.channel
       /\ req.upstream \in {"", info.of.upstream}
    \/ /\ info.fields = 5
       /\ req.version = NoVersion
       /\ \/ /\ req.channel = info.of.upstream
             /\ req.upstream \in {"", info.of.type}
          \/ /\ req.channel = info.of.type
             /\ req.upstream \in {"", info.of.pools}

parseExtendedVersionInfo(info) ==
    IF info.fields = 5 THEN <<info.of.type, info.of.pools>> ELSE <<"", "">>

ExtendedChanged(req, info) ==
    <<req.type, req.pools>> # parseExtendedVersionInfo(info)

parseVersionInfoFails(info) == info.fields < 3 \/ info.of.version \in Malformed

\* MUTANT: a failed run is never retried.
NeverRetry(req, info) == FALSE

\* The last Job failed: is there anything new to try?
RetryAfterFailure(req, info) ==
    IF ContainsBasicInfo(req, info)
    THEN ExtendedChanged(req, info)
    ELSE ~(info.fields = 1 /\ info.of.version = req.version)

\* MUTANT: versions are not compared at all.
IgnoresVersion(req, info) ==
    \/ parseVersionInfoFails(info)
    \/ req.channel \notin {"", info.of.channel}

\* The last Job succeeded: does the request ask for more than it did?
MoreThanDone(req, info) ==
    \/ parseVersionInfoFails(info)
    \/ req.version > info.of.version
    \/ req.channel \notin {"", info.of.channel}
    \/ req.upstream \notin {"", info.of.upstream}
    \/ ExtendedChanged(req, info)

\* No condition: only an explicit version is compared with the version the
\* ManagedClusterInfo reports.  mci is {} when it cannot be read.
NothingRecorded(req, mci) ==
    req.version = NoVersion \/ (mci # {} /\ req.version \notin mci)

\* The three answers of NeedToUpgrade: (true, nil), (false, nil), (false, err).
NeedToUpgrade(req, cond, mci) ==
    LET Answer(b) == IF b THEN "yes" ELSE "no"
    IN  CASE cond.status = "absent" -> Answer(NothingRecorded(req, mci))
          [] cond.status = "False"  -> "no"
          [] cond.status = "True" /\ ~cond.upgrade -> "yes"
          [] cond.status = "True" /\ cond.upgrade /\ cond.failed ->
                Answer(RetryAfterFailure(req, cond.info))
          [] OTHER -> IF req.version \in Malformed THEN "error"
                      ELSE Answer(MoreThanDone(req, cond.info))
=============================================================================
