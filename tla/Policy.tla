------------------------------- MODULE Policy -------------------------------
(***************************************************************************)
(* Roles and what they grant, and the Casbin rules that mirror the grants:   *)
(* the role service, its repository and queries, the enforcer of each        *)
(* instance of the API, and the middleware that asks it.                     *)
(*                                                                          *)
(* Grain.  One query is one step, and the transaction of UpdateRole is one   *)
(* step for each statement that waits for others (READ COMMITTED): the       *)
(* UPDATE of the title locks the role's row; the DELETE of the grants sees   *)
(* those committed when it starts and misses those another transaction adds. *)
(* A call of the enforcer writes the rule's row first and the instance's     *)
(* memory after it (AutoSave); nothing locks the two together, and nothing   *)
(* tells the other instances.                                               *)
(***************************************************************************)
EXTENDS Integers, FiniteSets

CONSTANTS
  Instances,    \* processes of the API, each with an enforcer
  Tenants,      \* users who own a back office: the subjects of the rules
  Roles,        \* ids of roles, those never created included
  SeedRoles,    \* roles of the seed
  SeedGrants,   \* SeedGrants[r]: the permissions of a role of the seed
  SeedMembers,  \* pairs <<tenant, role>> of the seed
  Permissions,
  EndpointFor,  \* EndpointFor[p]: the endpoint and method of a permission
  Patterns,     \* route patterns, as the middleware reads them
  WithSlash,    \* WithSlash[pattern]: the pattern with a slash at its end
  KeyMatch2,    \* pairs <<pattern, endpoint>> the matcher accepts
  Grantings,    \* lists of permissions an administrator may ask for
  Keep,         \* no list in the request
  RoleCalls,    \* calls of the role service and registrations
  PolicyFaults, \* whether a query may fail
  MaxRestarts   \* bound on the restarts of the instances

NoTenant == CHOOSE t \in Tenants : TRUE
NoRole == CHOOSE r \in SeedRoles : TRUE

ASSUME PolicyAssumption ==
  /\ Instances # {} /\ Tenants # {}
  /\ SeedRoles \subseteq Roles /\ SeedRoles # {}
  /\ SeedGrants \in [SeedRoles -> SUBSET Permissions]
  /\ SeedMembers \subseteq Tenants \X SeedRoles
  /\ Grantings \subseteq SUBSET Permissions
  /\ PolicyFaults \in BOOLEAN
  /\ MaxRestarts \in Nat

VARIABLES
  roles,    \* roles[r]: "unborn", "live" or "removed"
  grants,   \* grants[r]: rows <<call that wrote it, permission>>
  members,  \* user_roles: pairs <<tenant, role>>
  rules,    \* the rows of casbin_rule
  memory,   \* memory[i]: the rules the enforcer of i knows
  call,     \* call[c]: a call of the role service, or a registration
  restarts,
  wished,   \* history: wished[r]: the permissions asked for last
  settled,  \* history: settled[r]: instances that know r as the last call,
            \* which met no other and did not fail, has left it
  crossed,  \* history: calls that met another call on their role
  blurred   \* history: roles with two overlapping replacements of the
            \* grants, one of them without a title

policyVars == <<roles, grants, members, rules, memory, call, restarts,
                wished, settled, crossed, blurred>>

(* p(role, endpoint and method) and g(tenant, role).                        *)
P(r, endpoint) == <<"p", r, endpoint>>
G(t, r) == <<"g", r, t>>

NoCall == [pc |-> "new", op |-> "update", inst |-> CHOOSE i \in Instances : TRUE,
           role |-> NoRole, wish |-> Keep, named |-> FALSE, snap |-> {}, gone |-> {},
           todo |-> {}, tenant |-> NoTenant]

PolicyInit ==
  /\ roles = [r \in Roles |-> IF r \in SeedRoles THEN "live" ELSE "unborn"]
  /\ grants = [r \in Roles |-> IF r \in SeedRoles THEN {Keep} \X SeedGrants[r] ELSE {}]
  /\ members = SeedMembers
  /\ rules = (UNION {{P(r, EndpointFor[p]) : p \in SeedGrants[r]} : r \in SeedRoles})
             \cup {G(m[1], m[2]) : m \in SeedMembers}
  /\ memory = [i \in Instances |-> rules]
  /\ call = [c \in RoleCalls |-> NoCall]
  /\ restarts = 0
  /\ wished = [r \in Roles |-> IF r \in SeedRoles THEN SeedGrants[r] ELSE {}]
  /\ settled = [r \in Roles |-> Instances]
  /\ crossed = {} /\ blurred = {}

GrantedTo(r) == {row[2] : row \in grants[r]}

GetRoleById(r) == roles[r] = "live"

ListRolePermissionEndpoints(r) == {EndpointFor[p] : p \in GrantedTo(r)}

Busy(c) == call[c].pc \notin {"new", "done"}

(* The call goes on with its next step.                                     *)
Goto(c, pc) == call' = [call EXCEPT ![c].pc = pc]

(* The call ends with an error.                                             *)
Abort(c) == call' = [call EXCEPT ![c] = [NoCall EXCEPT !.pc = "done"]]
            /\ UNCHANGED <<settled, crossed>>

(* The call ends well.                                                      *)
Done(c) ==
  /\ call' = [call EXCEPT ![c] = [NoCall EXCEPT !.pc = "done"]]
  /\ settled' = IF c \in crossed \/ call[c].op = "bind" THEN settled
                ELSE [settled EXCEPT ![call[c].role] = {call[c].inst}]
  /\ UNCHANGED crossed

(* A call on role r begins.                                                 *)
Arrive(c, fields, r) ==
  LET others == {d \in RoleCalls : Busy(d) /\ call[d].role = r} IN
  /\ call[c].pc = "new"
  /\ call' = [call EXCEPT ![c] = fields]
  /\ crossed' = IF others = {} THEN crossed ELSE crossed \cup others \cup {c}
  /\ settled' = IF fields.op = "bind" THEN settled ELSE [settled EXCEPT ![r] = {}]
  /\ UNCHANGED <<rules, memory, restarts>>

data == <<roles, grants, members, wished, blurred>>
mirrors == <<rules, memory, restarts>>

(***************************************************************************)
(* Create, Update and Remove up to the commit.                              *)
(***************************************************************************)

(* The role and its grants in one transaction; a failed one does nothing.   *)
CreateRole(c, i, r, wish) ==
  /\ roles[r] = "unborn"
  /\ Arrive(c, [NoCall EXCEPT !.pc = "list", !.op = "create", !.inst = i, !.role = r], r)
  /\ roles' = [roles EXCEPT ![r] = "live"]
  /\ grants' = [grants EXCEPT ![r] = {c} \X wish]
  /\ wished' = [wished EXCEPT ![r] = wish]
  /\ UNCHANGED <<members, blurred>>

(* Update reads the role; the transaction begins.                           *)
UpdateRole(c, i, r, wish, named) ==
  /\ GetRoleById(r)
  /\ Arrive(c, [NoCall EXCEPT !.inst = i, !.role = r, !.wish = wish, !.named = named,
                  !.pc = IF named THEN "title" ELSE IF wish = Keep THEN "list" ELSE "delete"], r)
  /\ blurred' = IF wish # Keep /\ \E d \in RoleCalls :
                     /\ call[d].role = r /\ call[d].wish # Keep
                     /\ call[d].pc \in {"title", "delete", "wait", "insert"}
                     /\ ~(named /\ call[d].named)
                THEN blurred \cup {r} ELSE blurred
  /\ UNCHANGED <<roles, grants, members, wished>>

(* The row of the role, or the rows of its grants, that a transaction holds. *)
Named(r) == \E d \in RoleCalls : /\ call[d].role = r /\ call[d].named
                                 /\ call[d].pc \in {"delete", "wait", "insert"}
Held(r) == UNION {call[d].gone : d \in {e \in RoleCalls : call[e].role = r}}

RenameRole(c) ==
  LET r == call[c].role IN
  /\ call[c].pc = "title" /\ ~Named(r)
  /\ \/ roles[r] = "live" /\ call[c].wish # Keep /\ Goto(c, "delete")
        /\ UNCHANGED <<settled, crossed>>
     \/ roles[r] = "live" /\ call[c].wish = Keep /\ Goto(c, "list")
        /\ UNCHANGED <<settled, crossed>>
     \/ (roles[r] # "live" \/ PolicyFaults) /\ Abort(c)
  /\ UNCHANGED <<data, mirrors>>

StartDeleteGrants(c) ==
  /\ call[c].pc = "delete"
  /\ call' = [call EXCEPT ![c].pc = "wait", ![c].snap = grants[call[c].role]]
  /\ UNCHANGED <<data, mirrors, settled, crossed>>

NothingDeleted(c) ==
  LET r == call[c].role IN
  /\ call[c].pc = "wait" /\ call[c].snap \cap Held(r) = {}
  /\ call' = [call EXCEPT ![c].pc = "insert", ![c].snap = {}]
  /\ UNCHANGED <<data, mirrors, settled, crossed>>

DeleteRolePermissions(c) ==
  LET r == call[c].role IN
  /\ call[c].pc = "wait" /\ call[c].snap \cap Held(r) = {}
  /\ call' = [call EXCEPT ![c].pc = "insert", ![c].snap = {},
                         ![c].gone = call[c].snap \cap grants[r]]
  /\ UNCHANGED <<data, mirrors, settled, crossed>>

EndWithoutRelease(c) ==
  LET r == call[c].role IN
  /\ call[c].pc = "insert" /\ roles[r] = "live"
  /\ grants' = [grants EXCEPT ![r] = (@ \ call[c].gone) \cup ({c} \X call[c].wish)]
  /\ wished' = [wished EXCEPT ![r] = call[c].wish]
  /\ call' = [call EXCEPT ![c].pc = "list", ![c].wish = Keep]
  /\ UNCHANGED <<roles, members, blurred, mirrors, settled, crossed>>

(* The inserts and the commit.  A grant to a role that is gone violates its  *)
(* key; an empty list inserts nothing.                                      *)
CreateRolePermissions(c) ==
  LET r == call[c].role IN
  /\ call[c].pc = "insert"
  /\ \/ /\ roles[r] = "live" \/ call[c].wish = {}
        /\ grants' = [grants EXCEPT ![r] = (@ \ call[c].gone) \cup ({c} \X call[c].wish)]
        /\ wished' = [wished EXCEPT ![r] = IF roles[r] = "live" THEN call[c].wish ELSE @]
        /\ call' = [call EXCEPT ![c].pc = "list", ![c].gone = {}, ![c].wish = Keep]
        /\ UNCHANGED <<settled, crossed>>
     \/ /\ (roles[r] # "live" /\ call[c].wish # {}) \/ PolicyFaults
        /\ Abort(c) /\ UNCHANGED <<grants, wished>>
  /\ UNCHANGED <<roles, members, blurred, mirrors>>

(* Remove does not look whether the role exists.                            *)
RemoveRole(c, i, r) ==
  /\ roles[r] # "unborn"
  /\ Arrive(c, [NoCall EXCEPT !.pc = "drop", !.op = "remove", !.inst = i, !.role = r], r)
  /\ UNCHANGED data

(* The cascade takes the grants and the members along.                      *)
DeleteRole(c) ==
  LET r == call[c].role IN
  /\ call[c].pc = "drop" /\ ~Named(r) /\ grants[r] \cap Held(r) = {}
  /\ \/ /\ roles' = [roles EXCEPT ![r] = "removed"]
        /\ grants' = [grants EXCEPT ![r] = {}]
        /\ members' = {m \in members : m[2] # r}
        /\ wished' = [wished EXCEPT ![r] = {}]
        /\ Goto(c, "clear") /\ UNCHANGED <<settled, crossed, blurred>>
     \/ PolicyFaults /\ Abort(c) /\ UNCHANGED data
  /\ UNCHANGED mirrors

(* A registration has committed its user with the role.                     *)
Register(c, i, t, r) ==
  /\ GetRoleById(r) /\ ~\E m \in members : m[1] = t
  /\ Arrive(c, [NoCall EXCEPT !.pc = "add", !.op = "bind", !.inst = i, !.role = r,
                              !.tenant = t, !.todo = {t}], r)
  /\ members' = members \cup {<<t, r>>}
  /\ UNCHANGED <<roles, grants, wished, blurred>>

(***************************************************************************)
(* The rules: syncRolePolicies, and the removals of Remove.                 *)
(***************************************************************************)

SyncAddsOnly(c) ==
  /\ call[c].pc = "list"
  /\ call' = [call EXCEPT ![c].pc = "add",
                         ![c].todo = ListRolePermissionEndpoints(call[c].role)]
  /\ UNCHANGED <<data, mirrors, settled, crossed>>

syncRolePolicies(c) ==
  /\ call[c].pc = "list"
  /\ \/ /\ call' = [call EXCEPT ![c].pc = "clear",
                               ![c].todo = ListRolePermissionEndpoints(call[c].role)]
        /\ UNCHANGED <<settled, crossed>>
     \/ PolicyFaults /\ Abort(c)
  /\ UNCHANGED <<data, mirrors>>

Kind(c) == IF call[c].pc \in {"ungroup", "ungroup memory"} \/ call[c].op = "bind"
           THEN "g" ELSE "p"

OfRole(set, kind, r) == {x \in set : x[1] = kind /\ x[2] = r}

(* RemoveFilteredPolicy and RemoveFilteredGroupingPolicy.                   *)
RemoveFilteredStored(c) ==
  /\ call[c].pc \in {"clear", "ungroup"}
  /\ \/ /\ rules' = rules \ OfRole(rules, Kind(c), call[c].role)
        /\ Goto(c, IF call[c].pc = "clear" THEN "clear memory" ELSE "ungroup memory")
        /\ UNCHANGED <<settled, crossed>>
     \/ PolicyFaults /\ Abort(c) /\ UNCHANGED rules
  /\ UNCHANGED <<data, memory, restarts>>

RemoveFilteredKept(c) ==
  LET i == call[c].inst IN
  /\ call[c].pc \in {"clear memory", "ungroup memory"}
  /\ memory' = [memory EXCEPT ![i] = @ \ OfRole(@, Kind(c), call[c].role)]
  /\ \/ call[c].pc = "ungroup memory" /\ Done(c)
     \/ /\ call[c].pc = "clear memory"
        /\ Goto(c, IF call[c].op = "remove" THEN "ungroup" ELSE "add")
        /\ UNCHANGED <<settled, crossed>>
  /\ UNCHANGED <<data, rules, restarts>>

RuleOf(c, x) == IF call[c].op = "bind" THEN G(x, call[c].role) ELSE P(call[c].role, x)

(* AddPolicy and AddGroupingPolicy: a rule the memory has is not written.   *)
AddPolicy(c, x) ==
  LET rule == RuleOf(c, x) IN
  /\ call[c].pc = "add" /\ x \in call[c].todo
  /\ \/ /\ rule \in memory[call[c].inst]
        /\ call' = [call EXCEPT ![c].todo = @ \ {x}]
        /\ UNCHANGED <<rules, settled, crossed>>
     \/ /\ rule \notin memory[call[c].inst]
        /\ rules' = rules \cup {rule}
        /\ call' = [call EXCEPT ![c].pc = "add memory", ![c].snap = {x}]
        /\ UNCHANGED <<settled, crossed>>
     \/ PolicyFaults /\ Abort(c) /\ UNCHANGED rules
  /\ UNCHANGED <<data, memory, restarts>>

AddPolicyKept(c) ==
  /\ call[c].pc = "add memory"
  /\ memory' = [memory EXCEPT ![call[c].inst] = @ \cup {RuleOf(c, x) : x \in call[c].snap}]
  /\ call' = [call EXCEPT ![c].pc = "add", ![c].todo = @ \ call[c].snap, ![c].snap = {}]
  /\ UNCHANGED <<data, rules, restarts, settled, crossed>>

Return(c) ==
  /\ call[c].pc = "add" /\ call[c].todo = {}
  /\ Done(c)
  /\ UNCHANGED <<data, mirrors>>

(* An instance starts again and loads the rules (InitCasbinEnforcer); its    *)
(* calls end where they are and their open transactions are rolled back.    *)
Restart(i) ==
  /\ restarts < MaxRestarts /\ restarts' = restarts + 1
  /\ memory' = [memory EXCEPT ![i] = rules]
  /\ call' = [c \in RoleCalls |-> IF Busy(c) /\ call[c].inst = i
                                  THEN [NoCall EXCEPT !.pc = "done"] ELSE call[c]]
  /\ settled' = [r \in Roles |-> IF settled[r] = {} THEN {} ELSE settled[r] \cup {i}]
  /\ UNCHANGED <<data, rules, crossed>>

PolicyStep(c) ==
  \/ \E i \in Instances, r \in Roles :
        \/ \E wish \in Grantings : CreateRole(c, i, r, wish)
        \/ \E wish \in Grantings \cup {Keep}, named \in BOOLEAN : UpdateRole(c, i, r, wish, named)
        \/ RemoveRole(c, i, r)
        \/ \E t \in Tenants : Register(c, i, t, r)
  \/ RenameRole(c) \/ StartDeleteGrants(c) \/ DeleteRolePermissions(c)
  \/ CreateRolePermissions(c) \/ DeleteRole(c) \/ syncRolePolicies(c)
  \/ RemoveFilteredStored(c) \/ RemoveFilteredKept(c)
  \/ \E x \in call[c].todo : AddPolicy(c, x)
  \/ AddPolicyKept(c) \/ Return(c)

PolicyNext ==
  \/ \E c \in RoleCalls : PolicyStep(c)
  \/ \E i \in Instances : Restart(i)

PolicySpec == PolicyInit /\ [][PolicyNext]_policyVars

(***************************************************************************)
(* The middleware.                                                          *)
(***************************************************************************)

(* The matcher: g(sub, role), and a rule of the role that the route meets.  *)
Enforce(i, t, pattern) ==
  \E g, p \in memory[i] : /\ g[1] = "g" /\ g[3] = t
                          /\ p[1] = "p" /\ p[2] = g[2]
                          /\ <<pattern, p[3]>> \in KeyMatch2

(* A route that is refused is tried again with a slash at its end.          *)
CasbinMiddleware(i, t, pattern) ==
  Enforce(i, t, pattern) \/ Enforce(i, t, WithSlash[pattern])

(***************************************************************************)
(* Properties.                                                              *)
(***************************************************************************)

Endpoints == {EndpointFor[p] : p \in Permissions}
Rules == ({"p"} \X Roles \X Endpoints) \cup ({"g"} \X Roles \X Tenants)
GrantRows == (RoleCalls \cup {Keep}) \X Permissions
RoleCall == [pc : {"new", "title", "delete", "wait", "insert", "list", "drop", "clear",
                   "clear memory", "ungroup", "ungroup memory", "add", "add memory", "done"},
             op : {"create", "update", "remove", "bind"}, inst : Instances, role : Roles,
             wish : Grantings \cup {Keep}, named : BOOLEAN,
             snap : SUBSET (GrantRows \cup Endpoints \cup Tenants), gone : SUBSET GrantRows,
             todo : SUBSET (Endpoints \cup Tenants), tenant : Tenants]

(* Every variable has its type, and only the transaction of an update holds  *)
(* grants.                                                                  *)
PolicyTypeOK ==
  /\ roles \in [Roles -> {"unborn", "live", "removed"}]
  /\ grants \in [Roles -> SUBSET GrantRows]
  /\ members \subseteq Tenants \X Roles
  /\ rules \subseteq Rules
  /\ memory \in [Instances -> SUBSET Rules]
  /\ call \in [RoleCalls -> RoleCall]
  /\ \A c \in RoleCalls :
       /\ call[c].pc \in {"title", "delete", "wait", "insert"} => call[c].op = "update"
       /\ call[c].gone # {} => call[c].pc = "insert"
  /\ restarts \in 0..MaxRestarts
  /\ wished \in [Roles -> SUBSET Permissions]
  /\ settled \in [Roles -> SUBSET Instances]
  /\ crossed \subseteq RoleCalls /\ blurred \subseteq Roles

(* An update replaces the grants: however updates, removals and errors       *)
(* interleave, a role grants what was asked for last, unless two updates     *)
(* overlapped of which one carried no title, and so took no lock.            *)
GrantsReplaced ==
  \A r \in Roles \ blurred : GrantedTo(r) = wished[r]

(* Whatever errors, restarts and crossing calls left behind, one call on a   *)
(* role that meets no other and succeeds makes the rules of the role equal   *)
(* to its grants, in the table and in the memory of the instance it ran on;  *)
(* a removed role is left without rules of either kind.                      *)
SettledMirrors ==
  \A r \in Roles : \A i \in settled[r] :
     /\ OfRole(rules, "p", r) = {P(r, e) : e \in ListRolePermissionEndpoints(r)}
     /\ OfRole(memory[i], "p", r) = OfRole(rules, "p", r)
     /\ roles[r] = "removed" => OfRole(rules, "g", r) \cup OfRole(memory[i], "g", r) = {}

(* On such an instance a tenant whose roles it knows reaches a route exactly *)
(* when a permission granted to one of them covers the route, with a slash   *)
(* at its end or without.                                                    *)
AccessFollowsGrants ==
  \A i \in Instances, t \in Tenants :
     (\A r \in Roles : i \in settled[r] /\ (<<t, r>> \in members <=> G(t, r) \in memory[i])) =>
        \A pattern \in Patterns :
           CasbinMiddleware(i, t, pattern) <=>
             \E r \in Roles, p \in Permissions :
                /\ <<t, r>> \in members /\ p \in GrantedTo(r)
                /\ {<<pattern, EndpointFor[p]>>, <<WithSlash[pattern], EndpointFor[p]>>}
                      \cap KeyMatch2 # {}
=============================================================================
