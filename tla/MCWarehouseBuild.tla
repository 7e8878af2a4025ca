---------------------------- MODULE MCWarehouseBuild ----------------------------
(***************************************************************************)
(* Values for model checking WarehouseBuild: a customer with a pet, a      *)
(* policy and a claim, and the versions ingestion may bring of them.       *)
(***************************************************************************)
EXTENDS WarehouseBuild, TLC

CONSTANTS c1, t1, p1, k1, x0, x1, x2

Ver(k, t, d, b) == [pk |-> k, at |-> t, deleted |-> d, body |-> b]

Owners   == (t1 :> c1) @@ (p1 :> c1)
Insured  == (p1 :> t1) @@ (k1 :> t1)
Policied == (k1 :> p1)

\* Nothing but the claim, rewritten without touching updated_at.
ClaimOnly == {Ver(k1, 1, FALSE, x1), Ver(k1, 1, FALSE, x2)}

\* A row of each table, the id being the place in the list.  Two versions of the
\* customer share an instant, the second one being its deletion.  Of three more one
\* may come: a late one of the customer, which has the larger id, the deletion of
\* the pet, or the policy rewritten without touching updated_at.
ChainById ==
    <<{Ver(c1, 2, FALSE, x0)}, {Ver(c1, 2, TRUE, x0)},
      {Ver(c1, 1, FALSE, x0), Ver(t1, 2, TRUE, x0), Ver(p1, 1, FALSE, x2)},
      {Ver(t1, 1, FALSE, x0)}, {Ver(p1, 1, FALSE, x1)}, {Ver(k1, 1, FALSE, x0)}>>

Chain    == UNION {ChainById[i] : i \in DOMAIN ChainById}
GivenIds == [v \in Chain |-> {i \in DOMAIN ChainById : v \in ChainById[i]}]

\* Any id for any version.
AnyIds   == [v \in Versions |-> Rids]

\* Builds are interchangeable, and so are two bodies that the same versions have:
\* a body is copied and never chosen or ordered.
BuildSymmetry == Permutations(Builds) \cup Permutations({x1, x2})
=============================================================================
