---------------------------- MODULE CuratorRBAC ----------------------------
(***************************************************************************)
(* The access a curation Job runs with, and the calls of the controller     *)
(* that grant and revoke it: the ServiceAccount cluster-installer and the   *)
(* RoleBinding "curator" of a namespace, and for Hypershift the RoleBinding *)
(* "curator" in the cluster's namespace and the cluster-wide singleton      *)
(* ClusterRoleBinding "curator-crb".  A binding is represented by the       *)
(* namespace of its one subject.  The ClusterRoles are created on first use *)
(* and never removed, so they are left out.                                 *)
(***************************************************************************)
EXTENDS Naturals

CONSTANTS Namespaces, NoNamespace

ASSUME NamespaceAssumption == NoNamespace \notin Namespaces

Subject == Namespaces \cup {NoNamespace}

Grants == [sa : SUBSET Namespaces, rb : [Namespaces -> Subject], crb : Subject]

NoGrants == [sa |-> {}, rb |-> [n \in Namespaces |-> NoNamespace], crb |-> NoNamespace]

\* A Job of namespace n may call the API as itself.
Authorized(g, n) == n \in g.sa /\ g.rb[n] = n

\* ApplyRBAC, its two calls that last: each creates what is not there.
CreateServiceAccount(g, n) == [g EXCEPT !.sa = @ \cup {n}]

\* getRoleBinding(subject), in namespace n.
CreateRoleBinding(g, n, subject) ==
    [g EXCEPT !.rb[n] = IF @ = NoNamespace THEN subject ELSE @]

\* ApplyRBACHypershift's upsert of curator-crb.
UpsertCRB(g, n) == [g EXCEPT !.crb = n]

\* CleanupRBAC's two calls.
DeleteServiceAccount(g, n) == [g EXCEPT !.sa = @ \ {n}]

DeleteRoleBinding(g, n) == [g EXCEPT !.rb[n] = NoNamespace]

CleanupCuratorCRBIfOwned(g, n) ==
    [g EXCEPT !.crb = IF @ = n THEN NoNamespace ELSE @]
=============================================================================
