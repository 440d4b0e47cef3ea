---------------------------- MODULE MCBackOffice ----------------------------
(* The four services of the back office, each with its own calls and tables. *)
(* They share the connection pool and nothing these modules keep, so one run *)
(* explores them side by side: an initial state picks the part that runs and *)
(* the others stay as they start.                                           *)
EXTENDS Quota, Policy, Accounts, Catalog, TLC

(* Values that are alike and of which the parts use two or three are shared *)
(* between the parts, which keeps the symmetry small.                       *)
CONSTANTS
  c1, c2, c3,               \* calls of Accounts and Catalog
  x1, x2,                   \* calls of Quota and Policy; users, boards, widgets
  own, sub,                 \* a tenant and his sub-user
  free, pro, gold,          \* packages; gold is not of the seed
  l1, l2, l3, l4, l5,       \* limits of packages
  t1, t2,                   \* tenants
  tenantRole, r1, p1, p2,   \* the role of the seed, another; permissions
  u0, n1, n2, w1,           \* the first user, boards and widget
  shop, s1                  \* what slugs are made of

(* Quota: a sub-user of one tenant, two plans, a limit without an end.      *)
QuotaOwners == (own :> Nobody) @@ (sub :> own)
SeedLimits == (l1 :> [plan |-> free, res |-> "boards", count |-> 1])
              @@ (l2 :> [plan |-> free, res |-> "demo", count |-> 2])
              @@ (l3 :> [plan |-> pro, res |-> "boards", count |-> -1])
Guarded == ("boards" :> "/boards") @@ ("demo" :> "/demo")
Routes == (<<"boards", "POST">> :> "/boards") @@ (<<"boards", "DELETE">> :> "/boards/{id}")
          @@ (<<"demo", "POST">> :> "/demo") @@ (<<"demo", "DELETE">> :> "/demo")
PlanWishes == {{[res |-> "boards", count |-> 1]}}

(* Policy: one permission for a list, one for its elements.                 *)
TenantGrants == tenantRole :> {p1}
TenantMember == {<<t1, tenantRole>>}
TheEndpoints == (p1 :> "/boards") @@ (p2 :> "/boards/*")
Slashed == ("/boards" :> "/boards/") @@ ("/boards/{id}" :> "/boards/{id}/")
Matches == {<<"/boards", "/boards">>, <<"/boards/", "/boards/*">>,
            <<"/boards/{id}", "/boards/*">>, <<"/boards/{id}/", "/boards/*">>}
RoleWishes == {{}, {p2}}

(* Catalog: two tenants have a board each, one with a widget.               *)
TwoBoards == (n1 :> [owner |-> t1, slug |-> <<shop, "plain">>])
             @@ (n2 :> [owner |-> t2, slug |-> <<shop, s1>>])
OneWidget == w1 :> [owner |-> t1, board |-> n1]
CsvFiles == {<<"header", "item", "incomplete">>, <<"blank", "header", "header", "item">>}

VARIABLE part

Init ==
  /\ part \in {"quota", "policy", "accounts", "catalog"}
  /\ QuotaInit /\ PolicyInit /\ AccountsInit /\ CatalogInit
  /\ part # "quota" => \A u \in QuotaUsers : subs[u] = <<>>

Next ==
  /\ part' = part
  /\ \/ part = "quota" /\ QuotaNext /\ UNCHANGED <<policyVars, accountVars, catalogVars>>
     \/ part = "policy" /\ PolicyNext /\ UNCHANGED <<quotaVars, accountVars, catalogVars>>
     \/ part = "accounts" /\ AccountsNext /\ UNCHANGED <<quotaVars, policyVars, catalogVars>>
     \/ part = "catalog" /\ CatalogNext /\ UNCHANGED <<quotaVars, policyVars, accountVars>>

Spec == Init /\ [][Next]_<<part, quotaVars, policyVars, accountVars, catalogVars>>

Alike == Permutations({c1, c2, c3}) \cup Permutations({x1, x2})
=============================================================================
