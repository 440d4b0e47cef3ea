--------------------------- MODULE Policy_proofs ---------------------------
(***************************************************************************)
(* Theorems about Policy, for any instances, tenants, roles, permissions    *)
(* and calls.                                                               *)
(***************************************************************************)
EXTENDS Policy, TLAPS

-----------------------------------------------------------------------------
(* Types.                                                                    *)

(* What a call works on at each point, beside its type. *)
Shape(c) ==
  /\ call[c].pc \in {"delete", "wait", "insert"} => call[c].wish \in Grantings
  /\ call[c].pc = "wait" => call[c].snap \subseteq GrantRows
  /\ call[c].op = "bind" /\ Busy(c) => call[c].pc \in {"add", "add memory"}
  /\ call[c].op = "bind" => call[c].todo \subseteq Tenants
  /\ call[c].op # "bind" => call[c].todo \subseteq Endpoints
  /\ call[c].pc = "add memory" => call[c].snap \subseteq call[c].todo

Inv == PolicyTypeOK /\ \A c \in RoleCalls : Shape(c)

LEMMA NoneChosen == (CHOOSE i \in Instances : TRUE) \in Instances /\ NoTenant \in Tenants
                    /\ NoRole \in Roles
<1>1. (CHOOSE i \in Instances : TRUE) \in Instances BY PolicyAssumption
<1>2. NoTenant \in Tenants BY PolicyAssumption DEF NoTenant
<1>3. NoRole \in SeedRoles BY PolicyAssumption DEF NoRole
<1> QED BY <1>1, <1>2, <1>3, PolicyAssumption

LEMMA NoCallType ==
  /\ NoCall \in RoleCall
  /\ NoCall.pc = "new" /\ NoCall.op = "update" /\ NoCall.todo = {} /\ NoCall.snap = {}
  /\ NoCall.gone = {} /\ NoCall.wish = Keep
BY NoneChosen DEF NoCall, RoleCall

LEMMA DoneType ==
  LET d == [NoCall EXCEPT !.pc = "done"] IN
  /\ d \in RoleCall
  /\ d.pc = "done" /\ d.op = "update" /\ d.todo = {} /\ d.snap = {} /\ d.gone = {}
BY NoCallType DEF RoleCall

LEMMA Typed ==
  ASSUME Inv
  PROVE  /\ roles \in [Roles -> {"unborn", "live", "removed"}]
         /\ grants \in [Roles -> SUBSET GrantRows]
         /\ members \subseteq Tenants \X Roles
         /\ rules \subseteq Rules
         /\ memory \in [Instances -> SUBSET Rules]
         /\ call \in [RoleCalls -> RoleCall]
         /\ \A c \in RoleCalls : call[c] \in RoleCall /\ Shape(c)
         /\ \A c \in RoleCalls :
              /\ call[c].pc \in {"title", "delete", "wait", "insert"} => call[c].op = "update"
              /\ call[c].gone # {} => call[c].pc = "insert"
         /\ restarts \in 0..MaxRestarts
         /\ wished \in [Roles -> SUBSET Permissions]
         /\ settled \in [Roles -> SUBSET Instances]
         /\ crossed \subseteq RoleCalls /\ blurred \subseteq Roles
BY DEF Inv, PolicyTypeOK

LEMMA CallTypes ==
  ASSUME NEW r \in RoleCall
  PROVE  /\ r.inst \in Instances /\ r.role \in Roles /\ r.tenant \in Tenants
         /\ r.wish \in Grantings \cup {Keep} /\ r.gone \in SUBSET GrantRows
         /\ r.snap \in SUBSET (GrantRows \cup Endpoints \cup Tenants)
         /\ r.todo \in SUBSET (Endpoints \cup Tenants) /\ r.named \in BOOLEAN
         /\ r.op \in {"create", "update", "remove", "bind"}
BY DEF RoleCall

(* A call's record is replaced by one of the right shape. *)
ShapeOf(r) ==
  /\ r.pc \in {"title", "delete", "wait", "insert"} => r.op = "update"
  /\ r.gone # {} => r.pc = "insert"
  /\ r.pc \in {"delete", "wait", "insert"} => r.wish \in Grantings
  /\ r.pc = "wait" => r.snap \subseteq GrantRows
  /\ r.op = "bind" /\ r.pc \notin {"new", "done"} => r.pc \in {"add", "add memory"}
  /\ r.op = "bind" => r.todo \subseteq Tenants
  /\ r.op # "bind" => r.todo \subseteq Endpoints
  /\ r.pc = "add memory" => r.snap \subseteq r.todo

CallsOK == /\ call \in [RoleCalls -> RoleCall]
           /\ \A c \in RoleCalls : ShapeOf(call[c])

(* Everything but the calls. *)
TablesOK ==
  /\ roles \in [Roles -> {"unborn", "live", "removed"}]
  /\ grants \in [Roles -> SUBSET GrantRows]
  /\ members \subseteq Tenants \X Roles
  /\ rules \subseteq Rules
  /\ memory \in [Instances -> SUBSET Rules]
  /\ restarts \in 0..MaxRestarts
  /\ wished \in [Roles -> SUBSET Permissions]
  /\ settled \in [Roles -> SUBSET Instances]
  /\ crossed \subseteq RoleCalls /\ blurred \subseteq Roles

LEMMA InvParts == Inv <=> CallsOK /\ TablesOK
BY DEF Inv, PolicyTypeOK, CallsOK, TablesOK, Shape, ShapeOf, Busy

LEMMA InvPartsNext == Inv' <=> CallsOK' /\ TablesOK'
BY DEF Inv, PolicyTypeOK, CallsOK, TablesOK, Shape, ShapeOf, Busy

LEMMA CallStep ==
  ASSUME Inv, NEW c \in RoleCalls, NEW r \in RoleCall, ShapeOf(r), call' = [call EXCEPT ![c] = r]
  PROVE  CallsOK'
BY InvParts DEF CallsOK

LEMMA DoneShape == /\ [NoCall EXCEPT !.pc = "done"] \in RoleCall
                   /\ ShapeOf([NoCall EXCEPT !.pc = "done"])
BY DoneType DEF ShapeOf

LEMMA EndStep ==
  ASSUME Inv, NEW c \in RoleCalls, call' = [call EXCEPT ![c] = [NoCall EXCEPT !.pc = "done"]]
  PROVE  CallsOK'
BY CallStep, DoneShape

LEMMA EndpointTypes ==
  /\ \A p \in Permissions : EndpointFor[p] \in Endpoints
  /\ \A r \in Roles, e \in Endpoints : P(r, e) \in Rules
  /\ \A r \in Roles, t \in Tenants : G(t, r) \in Rules
BY DEF Endpoints, Rules, P, G

LEMMA GrantTypes ==
  ASSUME Inv, NEW r \in Roles
  PROVE  GrantedTo(r) \subseteq Permissions /\ ListRolePermissionEndpoints(r) \subseteq Endpoints
<1>1. grants[r] \subseteq (RoleCalls \cup {Keep}) \X Permissions BY Typed DEF GrantRows
<1>2. \A row \in (RoleCalls \cup {Keep}) \X Permissions : row[2] \in Permissions OBVIOUS
<1> QED BY <1>1, <1>2, EndpointTypes DEF GrantedTo, ListRolePermissionEndpoints

LEMMA WrittenGrants ==
  ASSUME NEW c \in RoleCalls, NEW wish \in Grantings
  PROVE  {c} \X wish \subseteq GrantRows /\ wish \in SUBSET Permissions
BY PolicyAssumption DEF GrantRows

(* A call begins. *)
LEMMA ArriveType ==
  ASSUME Inv, NEW c \in RoleCalls, NEW fields \in RoleCall, ShapeOf(fields), NEW r \in Roles,
         Arrive(c, fields, r),
         roles' \in [Roles -> {"unborn", "live", "removed"}],
         grants' \in [Roles -> SUBSET GrantRows], members' \subseteq Tenants \X Roles,
         wished' \in [Roles -> SUBSET Permissions], blurred' \subseteq Roles
  PROVE  Inv'
<1>1. CallsOK' BY CallStep DEF Arrive
<1>2. crossed' \subseteq RoleCalls /\ settled' \in [Roles -> SUBSET Instances]
  BY Typed DEF Arrive
<1>3. UNCHANGED <<rules, memory, restarts>> BY DEF Arrive
<1>4. TablesOK' BY <1>2, <1>3, Typed DEF TablesOK
<1> QED BY <1>1, <1>4, InvPartsNext

LEMMA CreateRoleType ==
  ASSUME Inv, NEW c \in RoleCalls, NEW i \in Instances, NEW r \in Roles, NEW wish \in Grantings,
         CreateRole(c, i, r, wish)
  PROVE  Inv'
<1> DEFINE f == [NoCall EXCEPT !.pc = "list", !.op = "create", !.inst = i, !.role = r]
<1>1. f \in RoleCall /\ f.pc = "list" /\ f.op = "create" /\ f.gone = {} /\ f.todo = {}
  BY NoCallType DEF RoleCall
<1>2. Arrive(c, f, r) BY DEF CreateRole
<1> HIDE DEF f
<1>3. ShapeOf(f) BY <1>1 DEF ShapeOf
<1>4. /\ roles' \in [Roles -> {"unborn", "live", "removed"}]
      /\ grants' \in [Roles -> SUBSET GrantRows] /\ wished' \in [Roles -> SUBSET Permissions]
      /\ UNCHANGED <<members, blurred>>
  BY Typed, WrittenGrants DEF CreateRole
<1> QED BY <1>1, <1>2, <1>3, <1>4, Typed, ArriveType

LEMMA UpdateRoleType ==
  ASSUME Inv, NEW c \in RoleCalls, NEW i \in Instances, NEW r \in Roles,
         NEW wish \in Grantings \cup {Keep}, NEW named \in BOOLEAN,
         UpdateRole(c, i, r, wish, named)
  PROVE  Inv'
<1> DEFINE pc == IF named THEN "title" ELSE IF wish = Keep THEN "list" ELSE "delete"
           f == [NoCall EXCEPT !.inst = i, !.role = r, !.wish = wish, !.named = named, !.pc = pc]
<1>1. pc \in {"title", "list", "delete"} /\ (pc = "delete" => wish \in Grantings) OBVIOUS
<1>2. Arrive(c, f, r) BY DEF UpdateRole
<1> HIDE DEF pc
<1>3. f \in RoleCall /\ f.pc = pc /\ f.op = "update" /\ f.gone = {} /\ f.todo = {} /\ f.wish = wish
  BY <1>1, NoCallType DEF RoleCall
<1> HIDE DEF f
<1>4. ShapeOf(f) BY <1>1, <1>3 DEF ShapeOf
<1>5. UNCHANGED <<roles, grants, members, wished>> /\ blurred' \subseteq Roles
  BY Typed DEF UpdateRole
<1> QED BY <1>2, <1>3, <1>4, <1>5, Typed, ArriveType

LEMMA RemoveRoleType ==
  ASSUME Inv, NEW c \in RoleCalls, NEW i \in Instances, NEW r \in Roles, RemoveRole(c, i, r)
  PROVE  Inv'
<1> DEFINE f == [NoCall EXCEPT !.pc = "drop", !.op = "remove", !.inst = i, !.role = r]
<1>1. f \in RoleCall /\ f.pc = "drop" /\ f.op = "remove" /\ f.gone = {} /\ f.todo = {}
  BY NoCallType DEF RoleCall
<1>2. Arrive(c, f, r) /\ UNCHANGED <<roles, grants, members, wished, blurred>>
  BY DEF RemoveRole, data
<1> HIDE DEF f
<1>3. ShapeOf(f) BY <1>1 DEF ShapeOf
<1> QED BY <1>1, <1>2, <1>3, Typed, ArriveType

LEMMA RegisterType ==
  ASSUME Inv, NEW c \in RoleCalls, NEW i \in Instances, NEW r \in Roles, NEW t \in Tenants,
         Register(c, i, t, r)
  PROVE  Inv'
<1> DEFINE f == [NoCall EXCEPT !.pc = "add", !.op = "bind", !.inst = i, !.role = r,
                               !.tenant = t, !.todo = {t}]
<1>1. f \in RoleCall /\ f.pc = "add" /\ f.op = "bind" /\ f.gone = {} /\ f.todo = {t}
  BY NoCallType DEF RoleCall
<1>2. Arrive(c, f, r) /\ UNCHANGED <<roles, grants, wished, blurred>>
      /\ members' = members \cup {<<t, r>>}
  BY DEF Register
<1> HIDE DEF f
<1>3. ShapeOf(f) BY <1>1 DEF ShapeOf
<1>4. members' \subseteq Tenants \X Roles BY <1>2, Typed
<1> QED BY <1>1, <1>2, <1>3, <1>4, Typed, ArriveType

-----------------------------------------------------------------------------
(* The steps of a call. *)

LEMMA GotoType ==
  ASSUME Inv, NEW c \in RoleCalls, NEW pc, Goto(c, pc),
         pc \in {"delete", "list", "clear", "clear memory", "ungroup", "ungroup memory", "add"},
         pc = "delete" => call[c].wish \in Grantings /\ call[c].op = "update",
         call[c].op = "bind" => pc = "add", call[c].pc # "insert"
  PROVE  CallsOK'
<1> DEFINE r == [call[c] EXCEPT !.pc = pc]
<1>0. call[c] \in RoleCall /\ Shape(c) /\ call[c].gone = {} BY Typed
<1>1. /\ r \in RoleCall /\ r.pc = pc /\ r.op = call[c].op /\ r.gone = call[c].gone
      /\ r.wish = call[c].wish /\ r.todo = call[c].todo /\ r.snap = call[c].snap
  BY <1>0 DEF RoleCall
<1>2. call' = [call EXCEPT ![c] = r] BY DEF Goto
<1> HIDE DEF r
<1>3. ShapeOf(r) BY <1>0, <1>1 DEF ShapeOf, Shape
<1> QED BY <1>1, <1>2, <1>3, CallStep
LEMMA SettledType ==
  ASSUME Inv, NEW c \in RoleCalls, Abort(c) \/ Done(c)
  PROVE  /\ CallsOK' /\ settled' \in [Roles -> SUBSET Instances] /\ crossed' = crossed
<1>1. CASE Abort(c) BY <1>1, EndStep, Typed DEF Abort
<1>2. CASE Done(c)
  <2>1. call[c].inst \in Instances BY Typed, CallTypes
  <2> QED BY <1>2, <2>1, EndStep, Typed DEF Done
<1> QED BY <1>1, <1>2

LEMMA TransactionType ==
  ASSUME Inv, NEW c \in RoleCalls,
         RenameRole(c) \/ StartDeleteGrants(c) \/ DeleteRolePermissions(c)
         \/ CreateRolePermissions(c) \/ DeleteRole(c)
  PROVE  Inv'
<1>0. call[c] \in RoleCall /\ Shape(c) BY Typed
<1>r. call[c].role \in Roles /\ call[c].wish \in Grantings \cup {Keep} BY <1>0, CallTypes
<1>1. CASE RenameRole(c)
  <2>1. CallsOK' /\ settled' \in [Roles -> SUBSET Instances] /\ crossed' = crossed
    <3>1. CASE call[c].wish # Keep /\ Goto(c, "delete") /\ UNCHANGED <<settled, crossed>>
      BY <1>0, <1>1, <1>r, <3>1, GotoType, Typed DEF RenameRole
    <3>2. CASE Goto(c, "list") /\ UNCHANGED <<settled, crossed>>
      BY <1>1, <3>2, GotoType, Typed DEF RenameRole
    <3>3. CASE Abort(c) BY <3>3, SettledType
    <3> QED BY <1>1, <3>1, <3>2, <3>3 DEF RenameRole
  <2>2. UNCHANGED <<roles, grants, members, wished, blurred, rules, memory, restarts>>
    BY <1>1 DEF RenameRole, data, mirrors
  <2> QED BY <2>1, <2>2, Typed, InvPartsNext DEF TablesOK
<1>2. CASE StartDeleteGrants(c)
  <2> DEFINE r == [call[c] EXCEPT !.pc = "wait", !.snap = grants[call[c].role]]
  <2>1. grants[call[c].role] \subseteq GrantRows BY <1>r, Typed
  <2>2. /\ r \in RoleCall /\ r.pc = "wait" /\ r.op = call[c].op /\ r.gone = call[c].gone
        /\ r.wish = call[c].wish /\ r.todo = call[c].todo /\ r.snap = grants[call[c].role]
    BY <1>0, <2>1 DEF RoleCall
  <2>3. call' = [call EXCEPT ![c] = r] /\ call[c].pc = "delete" BY <1>2 DEF StartDeleteGrants
  <2>4. UNCHANGED <<roles, grants, members, wished, blurred, rules, memory, restarts, settled, crossed>>
    BY <1>2 DEF StartDeleteGrants, data, mirrors
  <2> HIDE DEF r
  <2>5. ShapeOf(r) BY <1>0, <2>1, <2>2, <2>3, Typed DEF ShapeOf, Shape
  <2> QED BY <2>2, <2>3, <2>4, <2>5, CallStep, Typed, InvPartsNext DEF TablesOK
<1>3. CASE DeleteRolePermissions(c)
  <2> DEFINE g == call[c].snap \cap grants[call[c].role]
             r == [call[c] EXCEPT !.pc = "insert", !.snap = {}, !.gone = g]
  <2>1. g \subseteq GrantRows BY <1>r, Typed
  <2>2. call' = [call EXCEPT ![c] = r] /\ call[c].pc = "wait" BY <1>3 DEF DeleteRolePermissions
  <2>3. UNCHANGED <<roles, grants, members, wished, blurred, rules, memory, restarts, settled, crossed>>
    BY <1>3 DEF DeleteRolePermissions, data, mirrors
  <2> HIDE DEF g
  <2>4. /\ r \in RoleCall /\ r.pc = "insert" /\ r.op = call[c].op
        /\ r.wish = call[c].wish /\ r.todo = call[c].todo /\ r.snap = {}
    BY <1>0, <2>1 DEF RoleCall
  <2> HIDE DEF r
  <2>5. ShapeOf(r) BY <1>0, <2>2, <2>4, Typed DEF ShapeOf, Shape
  <2> QED BY <2>2, <2>3, <2>4, <2>5, CallStep, Typed, InvPartsNext DEF TablesOK
<1>4. CASE CreateRolePermissions(c)
  <2>1. call[c].pc = "insert" /\ call[c].wish \in Grantings
        /\ UNCHANGED <<roles, members, blurred, rules, memory, restarts>>
    BY <1>0, <1>4 DEF CreateRolePermissions, mirrors, Shape
  <2>2. CASE /\ grants' = [grants EXCEPT ![call[c].role] = (@ \ call[c].gone) \cup ({c} \X call[c].wish)]
             /\ wished' = [wished EXCEPT ![call[c].role] =
                             IF roles[call[c].role] = "live" THEN call[c].wish ELSE @]
             /\ call' = [call EXCEPT ![c].pc = "list", ![c].gone = {}, ![c].wish = Keep]
             /\ UNCHANGED <<settled, crossed>>
    <3> DEFINE r == [call[c] EXCEPT !.pc = "list", !.gone = {}, !.wish = Keep]
    <3>1. call' = [call EXCEPT ![c] = r] BY <2>2
    <3>2. /\ r \in RoleCall /\ r.pc = "list" /\ r.op = call[c].op /\ r.gone = {}
          /\ r.todo = call[c].todo
      BY <1>0 DEF RoleCall
    <3> HIDE DEF r
    <3>3. call[c].op = "update" BY <2>1, Typed
    <3>4. ShapeOf(r) BY <1>0, <3>2, <3>3 DEF ShapeOf, Shape
    <3>5. {c} \X call[c].wish \subseteq GrantRows /\ call[c].wish \in SUBSET Permissions
      BY <2>1, WrittenGrants
    <3>6. grants' \in [Roles -> SUBSET GrantRows] /\ wished' \in [Roles -> SUBSET Permissions]
      BY <2>2, <3>5, Typed
    <3> QED BY <2>1, <2>2, <3>1, <3>2, <3>4, <3>6, CallStep, Typed, InvPartsNext DEF TablesOK
  <2>3. CASE Abort(c) /\ UNCHANGED <<grants, wished>>
    BY <2>1, <2>3, SettledType, Typed, InvPartsNext DEF TablesOK
  <2> QED BY <1>4, <2>2, <2>3 DEF CreateRolePermissions
<1>5. CASE DeleteRole(c)
  <2>1. UNCHANGED <<rules, memory, restarts>> /\ call[c].pc = "drop" BY <1>5 DEF DeleteRole, mirrors
  <2>2. CASE /\ roles' = [roles EXCEPT ![call[c].role] = "removed"]
             /\ grants' = [grants EXCEPT ![call[c].role] = {}]
             /\ members' = {m \in members : m[2] # call[c].role}
             /\ wished' = [wished EXCEPT ![call[c].role] = {}]
             /\ Goto(c, "clear") /\ UNCHANGED <<settled, crossed, blurred>>
    <3>1. CallsOK'
      <4>1. call[c].op # "bind" BY <1>0, <2>1 DEF Shape, Busy
      <4> QED BY <2>1, <2>2, <4>1, GotoType
    <3>2. /\ roles' \in [Roles -> {"unborn", "live", "removed"}]
          /\ grants' \in [Roles -> SUBSET GrantRows] /\ members' \subseteq Tenants \X Roles
          /\ wished' \in [Roles -> SUBSET Permissions]
      BY <2>2, Typed
    <3> QED BY <2>1, <2>2, <3>1, <3>2, Typed, InvPartsNext DEF TablesOK
  <2>3. CASE Abort(c) /\ UNCHANGED data
    BY <2>1, <2>3, SettledType, Typed, InvPartsNext DEF TablesOK, data
  <2> QED BY <1>5, <2>2, <2>3 DEF DeleteRole
<1> QED BY <1>1, <1>2, <1>3, <1>4, <1>5

LEMMA RuleType ==
  ASSUME Inv, NEW c \in RoleCalls, NEW x \in call[c].todo
  PROVE  RuleOf(c, x) \in Rules
<1>1. call[c].role \in Roles /\ Shape(c) BY Typed, CallTypes
<1>2. CASE call[c].op = "bind" BY <1>1, <1>2, EndpointTypes DEF Shape, RuleOf
<1>3. CASE call[c].op # "bind" BY <1>1, <1>3, EndpointTypes DEF Shape, RuleOf
<1> QED BY <1>2, <1>3

LEMMA SyncType ==
  ASSUME Inv, NEW c \in RoleCalls,
         syncRolePolicies(c) \/ RemoveFilteredStored(c) \/ RemoveFilteredKept(c)
         \/ (\E x \in call[c].todo : AddPolicy(c, x)) \/ AddPolicyKept(c) \/ Return(c)
  PROVE  Inv'
<1>0. call[c] \in RoleCall /\ Shape(c) /\ (call[c].pc # "insert" => call[c].gone = {}) BY Typed
<1>r. call[c].role \in Roles /\ call[c].inst \in Instances BY <1>0, CallTypes
<1>1. CASE syncRolePolicies(c)
  <2>1. UNCHANGED <<roles, grants, members, wished, blurred, rules, memory, restarts>>
    BY <1>1 DEF syncRolePolicies, data, mirrors
  <2>2. CASE /\ call' = [call EXCEPT ![c].pc = "clear",
                                    ![c].todo = ListRolePermissionEndpoints(call[c].role)]
             /\ UNCHANGED <<settled, crossed>>
    <3> DEFINE t == ListRolePermissionEndpoints(call[c].role)
               r == [call[c] EXCEPT !.pc = "clear", !.todo = t]
    <3>1. t \subseteq Endpoints BY <1>r, GrantTypes
    <3>2. call' = [call EXCEPT ![c] = r] BY <2>2
    <3> HIDE DEF t
    <3>3. /\ r \in RoleCall /\ r.pc = "clear" /\ r.op = call[c].op /\ r.gone = call[c].gone /\ r.todo = t
      BY <1>0, <3>1 DEF RoleCall
    <3> HIDE DEF r
    <3>4. call[c].pc = "list" /\ call[c].op # "bind" BY <1>0, <1>1 DEF syncRolePolicies, Shape, Busy
    <3>5. ShapeOf(r) BY <1>0, <3>1, <3>3, <3>4 DEF ShapeOf
    <3> QED BY <2>1, <2>2, <3>2, <3>3, <3>5, CallStep, Typed, InvPartsNext DEF TablesOK
  <2>3. CASE Abort(c) BY <2>1, <2>3, SettledType, Typed, InvPartsNext DEF TablesOK
  <2> QED BY <1>1, <2>2, <2>3 DEF syncRolePolicies
<1>2. CASE RemoveFilteredStored(c)
  <2>1. /\ UNCHANGED <<roles, grants, members, wished, blurred, memory, restarts>>
        /\ call[c].pc \in {"clear", "ungroup"}
    BY <1>2 DEF RemoveFilteredStored, data
  <2>2. rules' \subseteq Rules BY <1>2, Typed DEF RemoveFilteredStored
  <2>3. CallsOK' /\ settled' \in [Roles -> SUBSET Instances] /\ crossed' = crossed
    <3>1. call[c].op # "bind" BY <1>0, <2>1 DEF Shape, Busy
    <3>2. CASE Abort(c) BY <3>2, SettledType
    <3>3. CASE Goto(c, IF call[c].pc = "clear" THEN "clear memory" ELSE "ungroup memory")
               /\ UNCHANGED <<settled, crossed>>
      BY <2>1, <3>1, <3>3, GotoType, Typed
    <3> QED BY <1>2, <3>2, <3>3 DEF RemoveFilteredStored
  <2> QED BY <2>1, <2>2, <2>3, Typed, InvPartsNext DEF TablesOK
<1>3. CASE RemoveFilteredKept(c)
  <2>1. /\ UNCHANGED <<roles, grants, members, wished, blurred, rules, restarts>>
        /\ call[c].pc \in {"clear memory", "ungroup memory"}
    BY <1>3 DEF RemoveFilteredKept, data
  <2>2. memory' \in [Instances -> SUBSET Rules] BY <1>3, Typed DEF RemoveFilteredKept, OfRole
  <2>3. CallsOK' /\ settled' \in [Roles -> SUBSET Instances] /\ crossed' = crossed
    <3>1. call[c].op # "bind" BY <1>0, <2>1 DEF Shape, Busy
    <3>2. CASE Done(c) BY <3>2, SettledType
    <3>3. CASE Goto(c, IF call[c].op = "remove" THEN "ungroup" ELSE "add") /\ UNCHANGED <<settled, crossed>>
      BY <2>1, <3>1, <3>3, GotoType, Typed
    <3> QED BY <1>3, <3>2, <3>3 DEF RemoveFilteredKept
  <2> QED BY <2>1, <2>2, <2>3, Typed, InvPartsNext DEF TablesOK
<1>4. ASSUME NEW x \in call[c].todo, AddPolicy(c, x) PROVE Inv'
  <2>1. /\ UNCHANGED <<roles, grants, members, wished, blurred, memory, restarts>>
        /\ call[c].pc = "add"
    BY <1>4 DEF AddPolicy, data
  <2>2. rules' \subseteq Rules
    <3>1. RuleOf(c, x) \in Rules /\ rules \subseteq Rules BY RuleType, Typed
    <3>2. rules' = rules \/ rules' = rules \cup {RuleOf(c, x)} BY <1>4, Zenon DEF AddPolicy
    <3> QED BY <3>1, <3>2
  <2>3. CallsOK' /\ settled' \in [Roles -> SUBSET Instances] /\ crossed' = crossed
    <3>1. CASE call' = [call EXCEPT ![c].todo = @ \ {x}] /\ UNCHANGED <<settled, crossed>>
      <4> DEFINE t == call[c].todo \ {x}
                 r == [call[c] EXCEPT !.todo = t]
      <4>1. t \subseteq call[c].todo OBVIOUS
      <4>2. call' = [call EXCEPT ![c] = r] BY <3>1
      <4> HIDE DEF t
      <4>3. r \in RoleCall /\ r.pc = "add" /\ r.op = call[c].op /\ r.gone = call[c].gone /\ r.todo = t
        BY <1>0, <2>1, <4>1, CallTypes DEF RoleCall
      <4> HIDE DEF r
      <4>4. ShapeOf(r) BY <1>0, <2>1, <4>1, <4>3 DEF ShapeOf, Shape
      <4> QED BY <3>1, <4>2, <4>3, <4>4, CallStep, Typed
    <3>2. CASE call' = [call EXCEPT ![c].pc = "add memory", ![c].snap = {x}]
               /\ UNCHANGED <<settled, crossed>>
      <4> DEFINE r == [call[c] EXCEPT !.pc = "add memory", !.snap = {x}]
      <4>1. call' = [call EXCEPT ![c] = r] BY <3>2
      <4>2. {x} \in SUBSET (GrantRows \cup Endpoints \cup Tenants) BY <1>0, CallTypes
      <4>3. /\ r \in RoleCall /\ r.pc = "add memory" /\ r.op = call[c].op /\ r.gone = call[c].gone
            /\ r.todo = call[c].todo /\ r.snap = {x}
        BY <1>0, <4>2 DEF RoleCall
      <4> HIDE DEF r
      <4>4. ShapeOf(r) BY <1>0, <2>1, <4>3 DEF ShapeOf, Shape
      <4> QED BY <3>2, <4>1, <4>3, <4>4, CallStep, Typed
    <3>3. CASE Abort(c) BY <3>3, SettledType
    <3> QED BY <1>4, <3>1, <3>2, <3>3 DEF AddPolicy
  <2> QED BY <2>1, <2>2, <2>3, Typed, InvPartsNext DEF TablesOK
<1>5. CASE AddPolicyKept(c)
  <2>1. /\ UNCHANGED <<roles, grants, members, wished, blurred, rules, restarts, settled, crossed>>
        /\ call[c].pc = "add memory"
    BY <1>5 DEF AddPolicyKept, data
  <2>2. memory' \in [Instances -> SUBSET Rules]
    <3>1. {RuleOf(c, x) : x \in call[c].snap} \subseteq Rules BY <1>0, <2>1, RuleType DEF Shape
    <3> QED BY <1>5, <3>1, Typed DEF AddPolicyKept
  <2>3. CallsOK'
    <3> DEFINE t == call[c].todo \ call[c].snap
               r == [call[c] EXCEPT !.pc = "add", !.todo = t, !.snap = {}]
    <3>1. t \subseteq call[c].todo OBVIOUS
    <3>2. call' = [call EXCEPT ![c] = r] BY <1>5 DEF AddPolicyKept
    <3> HIDE DEF t
    <3>3. r \in RoleCall /\ r.pc = "add" /\ r.op = call[c].op /\ r.gone = call[c].gone /\ r.todo = t
      BY <1>0, <3>1, CallTypes DEF RoleCall
    <3> HIDE DEF r
    <3>4. ShapeOf(r) BY <1>0, <2>1, <3>1, <3>3 DEF ShapeOf, Shape
    <3> QED BY <3>2, <3>3, <3>4, CallStep
  <2> QED BY <2>1, <2>2, <2>3, Typed, InvPartsNext DEF TablesOK
<1>6. CASE Return(c)
  <2>1. UNCHANGED <<roles, grants, members, wished, blurred, rules, memory, restarts>> /\ Done(c)
    BY <1>6 DEF Return, data, mirrors
  <2> QED BY <2>1, SettledType, Typed, InvPartsNext DEF TablesOK
<1> QED BY <1>1, <1>2, <1>3, <1>4, <1>5, <1>6

LEMMA RestartType ==
  ASSUME Inv, NEW i \in Instances, Restart(i)
  PROVE  Inv'
<1>1. call' \in [RoleCalls -> RoleCall] /\ \A c \in RoleCalls : ShapeOf(call'[c])
  <2> DEFINE d == [NoCall EXCEPT !.pc = "done"]
  <2>1. d \in RoleCall /\ ShapeOf(d) BY DoneShape
  <2>2. call' = [c \in RoleCalls |-> IF Busy(c) /\ call[c].inst = i THEN d ELSE call[c]]
    BY DEF Restart
  <2> HIDE DEF d
  <2>3. \A c \in RoleCalls : call[c] \in RoleCall /\ ShapeOf(call[c]) BY Typed, InvParts DEF CallsOK
  <2> QED BY <2>1, <2>2, <2>3
<1>2. memory' \in [Instances -> SUBSET Rules] /\ settled' \in [Roles -> SUBSET Instances]
      /\ restarts' \in 0..MaxRestarts
  BY Typed, PolicyAssumption DEF Restart
<1>3. UNCHANGED <<roles, grants, members, wished, blurred, rules, crossed>> BY DEF Restart, data
<1> QED BY <1>1, <1>2, <1>3, Typed, InvPartsNext DEF CallsOK, TablesOK

LEMMA InvStep ==
  ASSUME Inv, [PolicyNext]_policyVars
  PROVE  Inv'
<1>1. CASE UNCHANGED policyVars BY <1>1, InvParts, InvPartsNext DEF policyVars, CallsOK, TablesOK
<1>2. ASSUME NEW c \in RoleCalls, PolicyStep(c) PROVE Inv'
  BY <1>2, CreateRoleType, UpdateRoleType, RemoveRoleType, RegisterType, TransactionType, SyncType
  DEF PolicyStep
<1>3. ASSUME NEW i \in Instances, Restart(i) PROVE Inv' BY <1>3, RestartType
<1> QED BY <1>1, <1>2, <1>3 DEF PolicyNext

LEMMA InvInit == PolicyInit => Inv
<1> SUFFICES ASSUME PolicyInit PROVE Inv OBVIOUS
<1>1. CallsOK
  <2>1. NoCall \in RoleCall /\ ShapeOf(NoCall) BY NoCallType DEF ShapeOf
  <2>2. call = [c \in RoleCalls |-> NoCall] BY DEF PolicyInit
  <2> QED BY <2>1, <2>2 DEF CallsOK
<1>2. roles \in [Roles -> {"unborn", "live", "removed"}] BY DEF PolicyInit
<1>3. \A r \in SeedRoles : SeedGrants[r] \subseteq Permissions /\ r \in Roles BY PolicyAssumption
<1>4. grants \in [Roles -> SUBSET GrantRows]
  <2>1. \A r \in SeedRoles : {Keep} \X SeedGrants[r] \subseteq GrantRows BY <1>3 DEF GrantRows
  <2> QED BY <2>1 DEF PolicyInit
<1>5. wished \in [Roles -> SUBSET Permissions] BY <1>3 DEF PolicyInit
<1>6. members \subseteq Tenants \X Roles BY PolicyAssumption DEF PolicyInit
<1>7. rules \subseteq Rules
  <2> DEFINE granted == UNION {{P(r, EndpointFor[p]) : p \in SeedGrants[r]} : r \in SeedRoles}
             grouped == {G(m[1], m[2]) : m \in SeedMembers}
  <2>1. \A r \in SeedRoles, p \in Permissions : P(r, EndpointFor[p]) \in Rules
    BY <1>3, EndpointTypes
  <2>2. \A m \in SeedMembers : G(m[1], m[2]) \in Rules BY PolicyAssumption, EndpointTypes
  <2>3. granted \subseteq Rules BY <1>3, <2>1
  <2>4. grouped \subseteq Rules BY <2>2
  <2>5. rules = granted \cup grouped BY DEF PolicyInit
  <2> HIDE DEF granted, grouped
  <2> QED BY <2>3, <2>4, <2>5
<1>8. memory \in [Instances -> SUBSET Rules] BY <1>7 DEF PolicyInit
<1>9. /\ restarts \in 0..MaxRestarts /\ settled \in [Roles -> SUBSET Instances]
      /\ crossed \subseteq RoleCalls /\ blurred \subseteq Roles
  BY PolicyAssumption DEF PolicyInit
<1> QED BY <1>1, <1>2, <1>4, <1>5, <1>6, <1>7, <1>8, <1>9, InvParts DEF TablesOK

(* Every variable keeps its type, and a call outside the transaction of an   *)
(* update holds no grants.                                                  *)
THEOREM PolicyTypeCorrect == PolicySpec => []PolicyTypeOK
<1>1. Inv => PolicyTypeOK BY DEF Inv
<1> QED BY <1>1, InvInit, InvStep, PTL DEF PolicySpec
-----------------------------------------------------------------------------
(* The grants are replaced as a whole.                                       *)

Replacing == {"title", "delete", "wait", "insert"}
Holding == {"delete", "wait", "insert"}

(* What the transaction of an update knows of the grants of its role. *)
OnGrants(c) ==
  /\ call[c].pc \in Replacing => roles[call[c].role] # "unborn"
  /\ call[c].pc \in Holding => call[c].wish # Keep
  /\ call[c].role \notin blurred =>
       /\ call[c].pc = "wait" => grants[call[c].role] \subseteq call[c].snap
       /\ call[c].pc = "insert" => call[c].gone = grants[call[c].role]

(* The title is a lock: two updates of a role that both have one are never   *)
(* both past it; any other two that replace the grants blur the role.        *)
Apart(c, d) ==
  /\ ~(/\ call[c].pc \in Holding /\ call[d].pc \in Holding
       /\ call[c].named /\ call[d].named)
  /\ /\ call[c].role \notin blurred
     /\ call[c].pc \in Replacing /\ call[d].pc \in Replacing
     /\ call[c].wish # Keep /\ call[d].wish # Keep
     => call[c].named /\ call[d].named

AllApart == \A c, d \in RoleCalls : c # d /\ call[c].role = call[d].role => Apart(c, d)

NothingLeft == \A r \in Roles : roles[r] # "live" => grants[r] = {} /\ wished[r] = {}

GrantInv == /\ \A c \in RoleCalls : OnGrants(c)
            /\ AllApart /\ NothingLeft /\ GrantsReplaced

LEMMA Exclusive ==
  ASSUME Inv, GrantInv, NEW c \in RoleCalls, NEW d \in RoleCalls, c # d,
         call[c].role = call[d].role, call[c].role \notin blurred, call[c].pc \in Holding
  PROVE  call[d].pc \notin Holding
BY DEF GrantInv, OnGrants, AllApart, Apart, Holding, Replacing

LEMMA WrittenList ==
  ASSUME NEW c, NEW wish
  PROVE  {row[2] : row \in {c} \X wish} = wish
<1>1. \A x \in wish : <<c, x>> \in {c} \X wish /\ <<c, x>>[2] = x OBVIOUS
<1>2. \A row \in {c} \X wish : row[2] \in wish OBVIOUS
<1> QED BY <1>1, <1>2

(* The steps that change no grants and leave calls out of the transaction.   *)
LEMMA OtherSteps ==
  ASSUME GrantInv, UNCHANGED <<roles, grants, wished, blurred>>,
         \A d \in RoleCalls : call'[d] = call[d] \/ call'[d].pc \notin Replacing
  PROVE  GrantInv'
<1>1. \A c \in RoleCalls : OnGrants(c)' BY DEF GrantInv, OnGrants, Holding, Replacing
<1>2. AllApart' BY DEF GrantInv, AllApart, Apart, Holding, Replacing
<1>3. NothingLeft' /\ GrantsReplaced' BY DEF GrantInv, NothingLeft, GrantsReplaced, GrantedTo
<1> QED BY <1>1, <1>2, <1>3 DEF GrantInv

LEMMA OneCall ==
  ASSUME Inv, GrantInv, NEW c \in RoleCalls, NEW r \in RoleCall, r.pc \notin Replacing,
         call' = [call EXCEPT ![c] = r], UNCHANGED <<roles, grants, wished, blurred>>
  PROVE  GrantInv'
BY Typed, OtherSteps

LEMMA EndedGrants ==
  ASSUME Inv, GrantInv, NEW c \in RoleCalls, Abort(c) \/ Done(c),
         UNCHANGED <<roles, grants, wished, blurred>>
  PROVE  GrantInv'
BY OneCall, DoneType DEF Abort, Done, Replacing

LEMMA GotoGrants ==
  ASSUME Inv, GrantInv, NEW c \in RoleCalls, NEW pc, Goto(c, pc),
         pc \in {"list", "clear", "clear memory", "ungroup", "ungroup memory", "add"},
         UNCHANGED <<roles, grants, wished, blurred>>
  PROVE  GrantInv'
<1>1. call[c] \in RoleCall BY Typed
<1>2. [call[c] EXCEPT !.pc = pc] \in RoleCall /\ [call[c] EXCEPT !.pc = pc].pc \notin Replacing
  BY <1>1 DEF RoleCall, Replacing
<1> QED BY <1>2, OneCall DEF Goto

LEMMA CreateRoleGrants ==
  ASSUME Inv, GrantInv, NEW c \in RoleCalls, NEW i \in Instances, NEW r \in Roles,
         NEW wish \in Grantings, CreateRole(c, i, r, wish)
  PROVE  GrantInv'
<1> DEFINE f == [NoCall EXCEPT !.pc = "list", !.op = "create", !.inst = i, !.role = r]
<1>1. f \in RoleCall /\ f.pc = "list" BY NoCallType DEF RoleCall
<1>2. /\ call' = [call EXCEPT ![c] = f] /\ roles[r] = "unborn" /\ blurred' = blurred
      /\ roles' = [roles EXCEPT ![r] = "live"]
      /\ grants' = [grants EXCEPT ![r] = {c} \X wish]
      /\ wished' = [wished EXCEPT ![r] = wish]
  BY DEF CreateRole, Arrive
<1> HIDE DEF f
<1>3. \A d \in RoleCalls : call'[d].pc \in Replacing => call'[d] = call[d] /\ call[d].role # r
  BY <1>1, <1>2, Typed DEF GrantInv, OnGrants, Replacing
<1>4. \A d \in RoleCalls : call[d].role \in Roles BY Typed, CallTypes
<1>5. \A d \in RoleCalls : OnGrants(d)'
  BY <1>2, <1>3, <1>4, Typed DEF GrantInv, OnGrants, Holding, Replacing
<1>6. AllApart' BY <1>2, <1>3 DEF GrantInv, AllApart, Apart, Holding, Replacing
<1>7. NothingLeft' BY <1>2, Typed DEF GrantInv, NothingLeft
<1>8. GrantsReplaced'
  <2>1. {row[2] : row \in {c} \X wish} = wish BY WrittenList
  <2> QED BY <1>2, <2>1, Typed DEF GrantInv, GrantsReplaced, GrantedTo
<1> QED BY <1>5, <1>6, <1>7, <1>8 DEF GrantInv

LEMMA UpdateRoleGrants ==
  ASSUME Inv, GrantInv, NEW c \in RoleCalls, NEW i \in Instances, NEW r \in Roles,
         NEW wish \in Grantings \cup {Keep}, NEW named \in BOOLEAN,
         UpdateRole(c, i, r, wish, named)
  PROVE  GrantInv'
<1> DEFINE pc == IF named THEN "title" ELSE IF wish = Keep THEN "list" ELSE "delete"
           f == [NoCall EXCEPT !.inst = i, !.role = r, !.wish = wish, !.named = named, !.pc = pc]
<1>1. /\ pc \in {"title", "list", "delete"} /\ (pc = "delete" => wish # Keep /\ ~named)
      /\ (named => pc = "title")
  OBVIOUS
<1>2. call' = [call EXCEPT ![c] = f] /\ roles[r] = "live" /\ UNCHANGED <<roles, grants, wished>>
  BY DEF UpdateRole, Arrive, GetRoleById
<1>3. blurred \subseteq blurred'
      /\ \A d \in RoleCalls : /\ r \notin blurred' /\ wish # Keep
                              /\ call[d].role = r /\ call[d].wish # Keep
                              /\ call[d].pc \in Replacing
                              => named /\ call[d].named
  BY DEF UpdateRole, Replacing
<1> HIDE DEF pc
<1>4. f \in RoleCall /\ f.pc = pc /\ f.role = r /\ f.wish = wish /\ f.named = named
  BY <1>1, NoCallType DEF RoleCall
<1> HIDE DEF f
<1>5. call'[c] = f /\ \A d \in RoleCalls : d # c => call'[d] = call[d] BY <1>2, Typed
<1>6. \A d \in RoleCalls : OnGrants(d)'
  BY <1>1, <1>2, <1>3, <1>4, <1>5 DEF GrantInv, OnGrants, Holding, Replacing
<1>7. AllApart'
  <2> SUFFICES ASSUME NEW d \in RoleCalls, NEW e \in RoleCalls, d # e, call'[d].role = call'[e].role
               PROVE  Apart(d, e)'
    BY DEF AllApart
  <2>1. CASE d # c /\ e # c BY <1>3, <1>5, <2>1 DEF GrantInv, AllApart, Apart
  <2>2. CASE d = c BY <1>1, <1>3, <1>4, <1>5, <2>2 DEF Apart, Holding
  <2>3. CASE e = c BY <1>1, <1>3, <1>4, <1>5, <2>3 DEF Apart, Holding
  <2> QED BY <2>1, <2>2, <2>3
<1>8. NothingLeft' /\ GrantsReplaced'
  BY <1>2, <1>3 DEF GrantInv, NothingLeft, GrantsReplaced, GrantedTo
<1> QED BY <1>6, <1>7, <1>8 DEF GrantInv

LEMMA RenameRoleGrants ==
  ASSUME Inv, GrantInv, NEW c \in RoleCalls, RenameRole(c)
  PROVE  GrantInv'
<1>0. UNCHANGED <<roles, grants, wished, blurred>> BY DEF RenameRole, data
<1>1. CASE roles[call[c].role] = "live" /\ call[c].wish # Keep /\ Goto(c, "delete")
  <2> DEFINE f == [call[c] EXCEPT !.pc = "delete"]
  <2>1. call' = [call EXCEPT ![c] = f] BY <1>1 DEF Goto
  <2>2. /\ f.pc = "delete" /\ f.role = call[c].role /\ f.wish = call[c].wish
        /\ f.named = call[c].named
    <3>1. call[c] \in RoleCall BY Typed
    <3> QED BY <3>1 DEF RoleCall
  <2> HIDE DEF f
  <2>3. call'[c] = f /\ \A d \in RoleCalls : d # c => call'[d] = call[d] BY <2>1, Typed
  <2>4. call[c].pc = "title" /\ \A d \in RoleCalls : ~(/\ call[d].role = call[c].role /\ call[d].named
                                                      /\ call[d].pc \in Holding)
    BY DEF RenameRole, Named, Holding
  <2>5. \A d \in RoleCalls : OnGrants(d)'
    BY <1>0, <1>1, <2>2, <2>3 DEF GrantInv, OnGrants, Holding, Replacing
  <2>6. AllApart'
    <3> SUFFICES ASSUME NEW d \in RoleCalls, NEW e \in RoleCalls, d # e, call'[d].role = call'[e].role
                 PROVE  Apart(d, e)'
      BY DEF AllApart
    <3>1. CASE d # c /\ e # c BY <1>0, <2>3, <3>1 DEF GrantInv, AllApart, Apart
    <3>2. CASE d = c
      BY <1>0, <2>2, <2>3, <2>4, <3>2 DEF GrantInv, AllApart, Apart, Holding, Replacing
    <3>3. CASE e = c
      BY <1>0, <2>2, <2>3, <2>4, <3>3 DEF GrantInv, AllApart, Apart, Holding, Replacing
    <3> QED BY <3>1, <3>2, <3>3
  <2>7. NothingLeft' /\ GrantsReplaced' BY <1>0 DEF GrantInv, NothingLeft, GrantsReplaced, GrantedTo
  <2> QED BY <2>5, <2>6, <2>7 DEF GrantInv
<1>2. CASE Goto(c, "list") BY <1>0, <1>2, GotoGrants
<1>3. CASE Abort(c) BY <1>0, <1>3, EndedGrants
<1> QED BY <1>1, <1>2, <1>3 DEF RenameRole

(* A step inside the transaction. *)
LEMMA WithinTransaction ==
  ASSUME Inv, GrantInv, NEW c \in RoleCalls, NEW f, call' = [call EXCEPT ![c] = f],
         call[c].pc \in Holding, f.pc \in Holding,
         f.role = call[c].role, f.wish = call[c].wish, f.named = call[c].named,
         UNCHANGED <<roles, grants, wished, blurred>>,
         f.pc = "wait" => grants[f.role] \subseteq f.snap,
         f.role \notin blurred /\ f.pc = "insert" => f.gone = grants[f.role]
  PROVE  GrantInv'
<1>1. call'[c] = f /\ \A d \in RoleCalls : d # c => call'[d] = call[d] BY Typed
<1>2. \A d \in RoleCalls : OnGrants(d)' BY <1>1 DEF GrantInv, OnGrants, Holding, Replacing
<1>3. AllApart'
  <2> SUFFICES ASSUME NEW d \in RoleCalls, NEW e \in RoleCalls, d # e, call'[d].role = call'[e].role
               PROVE  Apart(d, e)'
    BY DEF AllApart
  <2>1. /\ call[d].role = call[e].role /\ Apart(d, e)
        /\ call'[d].named = call[d].named /\ call'[e].named = call[e].named
        /\ call'[d].wish = call[d].wish /\ call'[e].wish = call[e].wish
        /\ (call'[d].pc \in Holding <=> call[d].pc \in Holding)
        /\ (call'[e].pc \in Holding <=> call[e].pc \in Holding)
        /\ (call'[d].pc \in Replacing <=> call[d].pc \in Replacing)
        /\ (call'[e].pc \in Replacing <=> call[e].pc \in Replacing)
        /\ call'[d].role = call[d].role
    BY <1>1 DEF GrantInv, AllApart, Holding, Replacing
  <2> QED BY <2>1 DEF Apart
<1>4. NothingLeft' /\ GrantsReplaced' BY DEF GrantInv, NothingLeft, GrantsReplaced, GrantedTo
<1> QED BY <1>2, <1>3, <1>4 DEF GrantInv

LEMMA DeleteGrants ==
  ASSUME Inv, GrantInv, NEW c \in RoleCalls, StartDeleteGrants(c) \/ DeleteRolePermissions(c)
  PROVE  GrantInv'
<1>0. call[c] \in RoleCall BY Typed
<1>1. CASE StartDeleteGrants(c)
  <2> DEFINE f == [call[c] EXCEPT !.pc = "wait", !.snap = grants[call[c].role]]
  <2>1. /\ f.pc = "wait" /\ f.role = call[c].role /\ f.wish = call[c].wish
        /\ f.named = call[c].named /\ f.snap = grants[call[c].role]
    BY <1>0 DEF RoleCall
  <2>2. call' = [call EXCEPT ![c] = f] /\ call[c].pc = "delete"
        /\ UNCHANGED <<roles, grants, wished, blurred>>
    BY <1>1 DEF StartDeleteGrants, data
  <2> HIDE DEF f
  <2> QED BY <2>1, <2>2, WithinTransaction DEF Holding
<1>2. CASE DeleteRolePermissions(c)
  <2> DEFINE g == call[c].snap \cap grants[call[c].role]
             f == [call[c] EXCEPT !.pc = "insert", !.snap = {}, !.gone = g]
  <2>1. call' = [call EXCEPT ![c] = f] /\ call[c].pc = "wait"
        /\ UNCHANGED <<roles, grants, wished, blurred>>
    BY <1>2 DEF DeleteRolePermissions, data
  <2>2. call[c].role \notin blurred => g = grants[call[c].role] BY <2>1 DEF GrantInv, OnGrants
  <2> HIDE DEF g
  <2>3. /\ f.pc = "insert" /\ f.role = call[c].role /\ f.wish = call[c].wish
        /\ f.named = call[c].named /\ f.gone = g
    BY <1>0 DEF RoleCall
  <2> HIDE DEF f
  <2> QED BY <2>1, <2>2, <2>3, WithinTransaction DEF Holding
<1> QED BY <1>1, <1>2

LEMMA InsertGrants ==
  ASSUME Inv, GrantInv, NEW c \in RoleCalls, CreateRolePermissions(c)
  PROVE  GrantInv'
<1>p. PICK r \in Roles : r = call[c].role BY Typed, CallTypes
<1> DEFINE wish == call[c].wish
           f == [call[c] EXCEPT !.pc = "list", !.gone = {}, !.wish = Keep]
<1>0. call[c].pc = "insert" /\ UNCHANGED <<roles, blurred>>
  BY DEF CreateRolePermissions
<1>1. CASE Abort(c) /\ UNCHANGED <<grants, wished>> BY <1>0, <1>1, EndedGrants
<1>2. CASE /\ roles[r] = "live" \/ wish = {}
           /\ grants' = [grants EXCEPT ![r] = (@ \ call[c].gone) \cup ({c} \X wish)]
           /\ wished' = [wished EXCEPT ![r] = IF roles[r] = "live" THEN wish ELSE @]
           /\ call' = [call EXCEPT ![c].pc = "list", ![c].gone = {}, ![c].wish = Keep]
  <2>1. call' = [call EXCEPT ![c] = f] BY <1>2
  <2>2. f.pc = "list" BY Typed DEF RoleCall
  <2> HIDE DEF f
  <2>3. call'[c] = f /\ \A d \in RoleCalls : d # c => call'[d] = call[d] BY <2>1, Typed
  <2>4. /\ grants'[r] = (grants[r] \ call[c].gone) \cup ({c} \X wish)
        /\ wished'[r] = IF roles[r] = "live" THEN wish ELSE wished[r]
        /\ \A x \in Roles : x # r => grants'[x] = grants[x] /\ wished'[x] = wished[x]
    BY <1>2, Typed
  <2>5. r \notin blurred => call[c].gone = grants[r] BY <1>0, <1>p DEF GrantInv, OnGrants
  <2> HIDE DEF wish
  <2>6. \A d \in RoleCalls : OnGrants(d)'
    <3> SUFFICES ASSUME NEW d \in RoleCalls PROVE OnGrants(d)' OBVIOUS
    <3>1. CASE d = c BY <2>2, <2>3, <3>1 DEF OnGrants, Holding, Replacing
    <3>2. CASE d # c /\ call[d].role # r
      <4>1. call[d].role \in Roles BY Typed, CallTypes
      <4> QED BY <1>0, <2>3, <2>4, <3>2, <4>1 DEF GrantInv, OnGrants
    <3>3. CASE d # c /\ call[d].role = r
      <4>1. r \notin blurred => call[d].pc \notin Holding BY <1>0, <1>p, <3>3, Exclusive DEF Holding
      <4> QED BY <1>0, <2>3, <3>3, <4>1 DEF GrantInv, OnGrants, Holding
    <3> QED BY <3>1, <3>2, <3>3
  <2>7. AllApart'
    BY <1>0, <2>2, <2>3 DEF GrantInv, AllApart, Apart, Holding, Replacing
  <2>8. NothingLeft'
    <3>1. roles[r] # "live" => grants'[r] = {} /\ wished'[r] = {}
      <4>1. {c} \X {} = {} OBVIOUS
      <4> QED BY <1>0, <1>2, <2>4, <4>1 DEF GrantInv, NothingLeft
    <3> QED BY <1>0, <2>4, <3>1 DEF GrantInv, NothingLeft
  <2>9. GrantsReplaced'
    <3>1. r \notin blurred => GrantedTo(r)' = wished'[r]
      <4> SUFFICES ASSUME r \notin blurred PROVE GrantedTo(r)' = wished'[r] OBVIOUS
      <4>1. grants'[r] = {c} \X wish BY <2>4, <2>5
      <4>2. {row[2] : row \in {c} \X wish} = wish BY WrittenList
      <4>3. roles[r] # "live" => wished[r] = wish BY <1>0, <1>2 DEF GrantInv, NothingLeft, wish
      <4>4. wished'[r] = wish BY <2>4, <4>3
      <4>5. GrantedTo(r)' = {row[2] : row \in grants'[r]} BY DEF GrantedTo
      <4> QED BY <4>1, <4>2, <4>4, <4>5
    <3>2. \A x \in Roles \ blurred : x # r => GrantedTo(x)' = wished'[x]
      BY <2>4 DEF GrantInv, GrantsReplaced, GrantedTo
    <3> QED BY <1>0, <3>1, <3>2 DEF GrantsReplaced
  <2> QED BY <2>6, <2>7, <2>8, <2>9 DEF GrantInv
<1> QED BY <1>p, <1>1, <1>2 DEF CreateRolePermissions

LEMMA DeleteRoleGrants ==
  ASSUME Inv, GrantInv, NEW c \in RoleCalls, DeleteRole(c)
  PROVE  GrantInv'
<1> DEFINE r == call[c].role
           f == [call[c] EXCEPT !.pc = "clear"]
<1>0. call[c].pc = "drop" /\ r \in Roles /\ grants[r] \cap Held(r) = {}
  BY Typed, CallTypes DEF DeleteRole
<1>1. CASE Abort(c) /\ UNCHANGED data BY <1>1, EndedGrants DEF data
<1>2. CASE /\ roles' = [roles EXCEPT ![r] = "removed"]
           /\ grants' = [grants EXCEPT ![r] = {}]
           /\ wished' = [wished EXCEPT ![r] = {}]
           /\ Goto(c, "clear") /\ blurred' = blurred
  <2>1. call' = [call EXCEPT ![c] = f] BY <1>2 DEF Goto
  <2>2. f.pc = "clear" BY Typed DEF RoleCall
  <2> HIDE DEF f
  <2>3. call'[c] = f /\ \A d \in RoleCalls : d # c => call'[d] = call[d] BY <2>1, Typed
  <2>4. /\ grants'[r] = {} /\ wished'[r] = {} /\ roles'[r] = "removed"
        /\ \A x \in Roles : x # r => /\ grants'[x] = grants[x] /\ wished'[x] = wished[x]
                                     /\ roles'[x] = roles[x]
    BY <1>0, <1>2, Typed
  <2>5. \A d \in RoleCalls : OnGrants(d)'
    <3> SUFFICES ASSUME NEW d \in RoleCalls PROVE OnGrants(d)' OBVIOUS
    <3>1. CASE d = c BY <2>2, <2>3, <3>1 DEF OnGrants, Holding, Replacing
    <3>2. CASE d # c /\ call[d].role # r
      <4>1. call[d].role \in Roles BY Typed, CallTypes
      <4> QED BY <1>2, <2>3, <2>4, <3>2, <4>1 DEF GrantInv, OnGrants
    <3>3. CASE d # c /\ call[d].role = r
      <4>1. call[d].gone \subseteq Held(r) BY <3>3 DEF Held
      <4>2. r \notin blurred /\ call[d].pc = "insert" => call[d].gone = {}
        BY <1>0, <3>3, <4>1 DEF GrantInv, OnGrants
      <4> QED BY <1>2, <2>3, <2>4, <3>3, <4>2 DEF GrantInv, OnGrants
    <3> QED BY <3>1, <3>2, <3>3
  <2>6. AllApart' BY <1>2, <2>2, <2>3 DEF GrantInv, AllApart, Apart, Holding, Replacing
  <2>7. NothingLeft' BY <2>4 DEF GrantInv, NothingLeft
  <2>8. GrantsReplaced' BY <1>2, <2>4 DEF GrantInv, GrantsReplaced, GrantedTo
  <2> QED BY <2>5, <2>6, <2>7, <2>8 DEF GrantInv
<1> QED BY <1>1, <1>2 DEF DeleteRole

LEMMA SyncGrants ==
  ASSUME Inv, GrantInv, NEW c \in RoleCalls,
         syncRolePolicies(c) \/ RemoveFilteredStored(c) \/ RemoveFilteredKept(c)
         \/ (\E x \in call[c].todo : AddPolicy(c, x)) \/ AddPolicyKept(c) \/ Return(c)
  PROVE  GrantInv'
<1>0. call[c] \in RoleCall BY Typed
<1>1. UNCHANGED <<roles, grants, wished, blurred>>
  BY DEF syncRolePolicies, RemoveFilteredStored, RemoveFilteredKept, AddPolicy, AddPolicyKept,
         Return, data
<1>2. ASSUME NEW f, f.pc \notin Replacing, call' = [call EXCEPT ![c] = f] PROVE GrantInv'
  BY <1>1, <1>2, Typed, OtherSteps
<1>3. CASE Abort(c) \/ Done(c) BY <1>1, <1>3, EndedGrants
<1>4. CASE syncRolePolicies(c)
  <2> DEFINE f == [call[c] EXCEPT !.pc = "clear",
                                  !.todo = ListRolePermissionEndpoints(call[c].role)]
  <2>1. f.pc \notin Replacing BY <1>0 DEF RoleCall, Replacing
  <2>2. call' = [call EXCEPT ![c] = f] \/ Abort(c) BY <1>4 DEF syncRolePolicies
  <2> HIDE DEF f
  <2> QED BY <1>2, <1>3, <2>1, <2>2
<1>5. CASE RemoveFilteredStored(c) BY <1>1, <1>3, <1>5, GotoGrants DEF RemoveFilteredStored
<1>6. CASE RemoveFilteredKept(c) BY <1>1, <1>3, <1>6, GotoGrants DEF RemoveFilteredKept
<1>7. ASSUME NEW x \in call[c].todo, AddPolicy(c, x) PROVE GrantInv'
  <2> DEFINE f == [call[c] EXCEPT !.todo = @ \ {x}]
             g == [call[c] EXCEPT !.pc = "add memory", !.snap = {x}]
  <2>1. /\ call[c].pc = "add"
        /\ call' = [call EXCEPT ![c] = f] \/ call' = [call EXCEPT ![c] = g] \/ Abort(c)
    BY <1>7 DEF AddPolicy
  <2>2. f.pc \notin Replacing /\ g.pc \notin Replacing BY <1>0, <2>1 DEF RoleCall, Replacing
  <2> HIDE DEF f, g
  <2> QED BY <1>2, <1>3, <2>1, <2>2
<1>8. CASE AddPolicyKept(c)
  <2> DEFINE f == [call[c] EXCEPT !.pc = "add", !.todo = @ \ call[c].snap, !.snap = {}]
  <2>1. f.pc \notin Replacing BY <1>0 DEF RoleCall, Replacing
  <2>2. call' = [call EXCEPT ![c] = f] BY <1>8 DEF AddPolicyKept
  <2> HIDE DEF f
  <2> QED BY <1>2, <2>1, <2>2
<1>9. CASE Return(c) BY <1>3, <1>9 DEF Return
<1> QED BY <1>4, <1>5, <1>6, <1>7, <1>8, <1>9

LEMMA GrantStep ==
  ASSUME Inv, GrantInv, [PolicyNext]_policyVars
  PROVE  GrantInv'
<1>1. CASE UNCHANGED policyVars BY <1>1, OtherSteps DEF policyVars
<1>2. ASSUME NEW c \in RoleCalls, PolicyStep(c) PROVE GrantInv'
  <2>1. ASSUME NEW i \in Instances, NEW r \in Roles,
               RemoveRole(c, i, r) \/ \E t \in Tenants : Register(c, i, t, r)
        PROVE  GrantInv'
    <3> DEFINE f(t) == [NoCall EXCEPT !.pc = "add", !.op = "bind", !.inst = i, !.role = r,
                                      !.tenant = t, !.todo = {t}]
               g == [NoCall EXCEPT !.pc = "drop", !.op = "remove", !.inst = i, !.role = r]
    <3>1. g.pc = "drop" /\ \A t : f(t).pc = "add" BY NoCallType DEF RoleCall
    <3>2. UNCHANGED <<roles, grants, wished, blurred>>
          /\ (call' = [call EXCEPT ![c] = g] \/ \E t \in Tenants : call' = [call EXCEPT ![c] = f(t)])
      BY <2>1 DEF RemoveRole, Register, Arrive, data
    <3> HIDE DEF f, g
    <3> QED BY <3>1, <3>2, Typed, OtherSteps DEF Replacing
  <2> QED BY <1>2, <2>1, CreateRoleGrants, UpdateRoleGrants, RenameRoleGrants, DeleteGrants,
             InsertGrants, DeleteRoleGrants, SyncGrants DEF PolicyStep
<1>3. ASSUME NEW i \in Instances, Restart(i) PROVE GrantInv'
  <2> DEFINE d == [NoCall EXCEPT !.pc = "done"]
  <2>1. d.pc = "done" BY DoneType
  <2>2. /\ call' = [c \in RoleCalls |-> IF Busy(c) /\ call[c].inst = i THEN d ELSE call[c]]
        /\ UNCHANGED <<roles, grants, wished, blurred>>
    BY <1>3 DEF Restart, data
  <2> HIDE DEF d
  <2> QED BY <2>1, <2>2, OtherSteps DEF Replacing
<1> QED BY <1>1, <1>2, <1>3 DEF PolicyNext

LEMMA GrantInit == PolicyInit => GrantInv
<1> SUFFICES ASSUME PolicyInit PROVE GrantInv OBVIOUS
<1>1. \A c \in RoleCalls : call[c].pc = "new" BY NoCallType DEF PolicyInit
<1>2. \A r \in SeedRoles : {row[2] : row \in {Keep} \X SeedGrants[r]} = SeedGrants[r] BY WrittenList
<1>3. GrantsReplaced
  <2> SUFFICES ASSUME NEW r \in Roles PROVE GrantedTo(r) = wished[r] BY DEF GrantsReplaced
  <2>1. CASE r \in SeedRoles
    <3>1. grants[r] = {Keep} \X SeedGrants[r] /\ wished[r] = SeedGrants[r] BY <2>1 DEF PolicyInit
    <3> QED BY <1>2, <2>1, <3>1 DEF GrantedTo
  <2>2. CASE r \notin SeedRoles
    <3>1. grants[r] = {} /\ wished[r] = {} BY <2>2 DEF PolicyInit
    <3> QED BY <3>1 DEF GrantedTo
  <2> QED BY <2>1, <2>2
<1>4. NothingLeft BY DEF PolicyInit, NothingLeft
<1> QED BY <1>1, <1>3, <1>4 DEF GrantInv, OnGrants, AllApart, Apart, Holding, Replacing

(* However updates, removals, errors and restarts interleave, a role that no  *)
(* two unlocked updates replaced at once grants what was asked for last.     *)
THEOREM GrantsAreReplaced == PolicySpec => []GrantsReplaced
<1>1. Inv /\ GrantInv /\ [PolicyNext]_policyVars => Inv' /\ GrantInv' BY InvStep, GrantStep
<1>2. GrantInv => GrantsReplaced BY DEF GrantInv
<1> QED BY <1>1, <1>2, InvInit, GrantInit, PTL DEF PolicySpec
-----------------------------------------------------------------------------
(* The rules mirror the grants.                                              *)

EndpointsOf(rows) == {EndpointFor[p] : p \in {row[2] : row \in rows}}
PolicyRules(r, endpoints) == {P(r, e) : e \in endpoints}

(* The order in which a call of each kind goes on. *)
OpOf(k, role) ==
  /\ k.pc \in {"drop", "ungroup", "ungroup memory"} => k.op = "remove"
  /\ k.pc \in Replacing \cup {"list", "add", "add memory"} => k.op # "remove"
  /\ k.op = "remove" /\ k.pc \in {"clear", "clear memory", "ungroup", "ungroup memory"}
        => role = "removed"
  /\ k.pc = "drop" => k.todo = {}

(* What a call k that met no other knows of its role r: its grants cover     *)
(* endpoints, and its rules are stored in the table, kept in the memory.     *)
Tracks(k, r, role, endpoints, stored, kept, storedGroups) ==
  /\ k.op \in {"create", "update"} => role = "live"
  /\ k.pc \in {"clear", "clear memory"} => k.todo = endpoints
  /\ k.pc \in {"clear memory", "ungroup", "ungroup memory"} => stored = {}
  /\ k.pc \in {"ungroup", "ungroup memory"} => kept = {}
  /\ k.pc = "ungroup memory" => storedGroups = {}
  /\ k.pc \in {"add", "add memory"} =>
       k.todo \subseteq endpoints /\ kept = PolicyRules(r, endpoints \ k.todo)
  /\ k.pc = "add" => stored = kept
  /\ k.pc = "add memory" =>
       \E x \in k.todo : k.snap = {x} /\ stored = PolicyRules(r, (endpoints \ k.todo) \cup {x})

Follows(c) ==
  LET r == call[c].role IN
  Tracks(call[c], r, roles[r], EndpointsOf(grants[r]), OfRole(rules, "p", r),
         OfRole(memory[call[c].inst], "p", r), OfRole(rules, "g", r))

Matches(r, role, endpoints, stored, kept, storedGroups, keptGroups) ==
  /\ stored = PolicyRules(r, endpoints) /\ kept = stored
  /\ role = "removed" => storedGroups = {} /\ keptGroups = {}

Mirror(r, i) ==
  Matches(r, roles[r], EndpointsOf(grants[r]), OfRole(rules, "p", r), OfRole(memory[i], "p", r),
          OfRole(rules, "g", r), OfRole(memory[i], "g", r))

Undisturbed(r) ==
  settled[r] # {} =>
    /\ \A c \in RoleCalls : Busy(c) /\ call[c].role = r => call[c].op = "bind" /\ roles[r] # "removed"
    /\ \A i \in settled[r] : Mirror(r, i)

MirrorInv ==
  /\ \A c \in RoleCalls : OpOf(call[c], roles[call[c].role])
  /\ \A c, d \in RoleCalls : c # d /\ Busy(c) /\ Busy(d) /\ call[c].role = call[d].role
                             => c \in crossed
  /\ \A c \in RoleCalls : Busy(c) /\ call[c].op # "bind" /\ c \notin crossed => Follows(c)
  /\ \A r \in Roles : Undisturbed(r)

(* A step leaves the policies of a role, or all its rules, as they are. *)
SamePolicies(r) ==
  /\ roles'[r] = roles[r] /\ grants'[r] = grants[r]
  /\ OfRole(rules', "p", r) = OfRole(rules, "p", r)
  /\ \A i \in Instances : OfRole(memory'[i], "p", r) = OfRole(memory[i], "p", r)

SameGroups(r) ==
  /\ OfRole(rules', "g", r) = OfRole(rules, "g", r)
  /\ \A i \in Instances : OfRole(memory'[i], "g", r) = OfRole(memory[i], "g", r)

Same(r) == SamePolicies(r) /\ SameGroups(r)

LEMMA MirrorsFollow == (\A r \in Roles : Undisturbed(r)) => SettledMirrors
BY DEF Undisturbed, Mirror, Matches, SettledMirrors, EndpointsOf, PolicyRules,
       ListRolePermissionEndpoints, GrantedTo

LEMMA OfRoleRemoved ==
  ASSUME NEW S, NEW kind, NEW q, NEW k, NEW r
  PROVE  /\ OfRole(S \ OfRole(S, kind, q), kind, q) = {}
         /\ k # kind \/ r # q => OfRole(S \ OfRole(S, kind, q), k, r) = OfRole(S, k, r)
BY DEF OfRole

LEMMA OfRoleAdded ==
  ASSUME NEW S, NEW kind, NEW q, NEW e, NEW k, NEW r
  PROVE  /\ OfRole(S \cup {<<kind, q, e>>}, kind, q) = OfRole(S, kind, q) \cup {<<kind, q, e>>}
         /\ k # kind \/ r # q => OfRole(S \cup {<<kind, q, e>>}, k, r) = OfRole(S, k, r)
BY DEF OfRole

(* One step of a busy call: what it must say of its own role. *)
LEMMA BusyStep ==
  ASSUME Inv, MirrorInv, NEW c \in RoleCalls, Busy(c), NEW q \in Roles, q = call[c].role,
         NEW k \in RoleCall, call' = [call EXCEPT ![c] = k], OpOf(k, roles'[k.role]),
         k.pc = "done" \/ (k.pc # "new" /\ k.role = q /\ k.op = call[c].op),
         crossed' = crossed,
         \A r \in Roles : roles[r] = "removed" => roles'[r] = "removed",
         \A r \in Roles \ {q} : Same(r) /\ settled'[r] = settled[r],
         \/ /\ call[c].op # "bind" /\ settled'[q] = settled[q]
            /\ c \in crossed \/ k.pc = "done" \/ Follows(c)'
         \/ call[c].op = "bind" /\ settled'[q] = settled[q] /\ SamePolicies(q)
         \/ /\ k.pc = "done" /\ call[c].op # "bind" /\ c \notin crossed
            /\ \A i \in settled'[q] : Mirror(q, i)'
  PROVE  MirrorInv'
<1>0. call'[c] = k /\ \A d \in RoleCalls : d # c => call'[d] = call[d] BY Typed
<1>r. /\ \A d \in RoleCalls : call[d].role \in Roles /\ call[d].inst \in Instances
      /\ \A r \in Roles : settled[r] \subseteq Instances
  BY Typed, CallTypes
<1>b. \A d \in RoleCalls : Busy(d)' => /\ Busy(d) /\ call'[d].role = call[d].role
                                       /\ call'[d].op = call[d].op
  BY <1>0 DEF Busy
<1>1. \A d \in RoleCalls : OpOf(call'[d], roles'[call'[d].role])
  <2> SUFFICES ASSUME NEW d \in RoleCalls, d # c PROVE OpOf(call[d], roles'[call[d].role])
    BY <1>0
  <2>1. OpOf(call[d], roles[call[d].role]) BY DEF MirrorInv
  <2> QED BY <1>r, <2>1 DEF OpOf
<1>2. \A d, e \in RoleCalls : d # e /\ Busy(d)' /\ Busy(e)' /\ call'[d].role = call'[e].role
                              => d \in crossed'
  BY <1>b DEF MirrorInv
<1>3. ASSUME NEW d \in RoleCalls, Busy(d)', call'[d].op # "bind", d \notin crossed'
      PROVE  Follows(d)'
  <2>1. CASE d = c
    BY <1>0, <1>b, <1>3, <2>1 DEF Busy
  <2>2. CASE d # c
    <3>1. Busy(d) /\ call'[d] = call[d] /\ Follows(d) BY <1>0, <1>b, <1>3, <2>2 DEF MirrorInv
    <3>2. call[d].role # q BY <1>3, <2>2, <3>1 DEF MirrorInv
    <3>3. Same(call[d].role) BY <1>r, <3>2
    <3> QED BY <1>r, <3>1, <3>3 DEF Follows, Same, SamePolicies, SameGroups
  <2> QED BY <2>1, <2>2
<1>4. ASSUME NEW r \in Roles PROVE Undisturbed(r)'
  <2>1. CASE r # q
    <3>1. Same(r) /\ settled'[r] = settled[r] /\ Undisturbed(r) BY <2>1 DEF MirrorInv
    <3>2. \A i \in Instances : Mirror(r, i) => Mirror(r, i)'
      BY <3>1 DEF Mirror, Same, SamePolicies, SameGroups
    <3>3. roles'[r] = roles[r] BY <3>1 DEF Same, SamePolicies
    <3> QED BY <1>b, <1>r, <3>1, <3>2, <3>3 DEF Undisturbed
  <2>2. CASE r = q /\ call[c].op # "bind" /\ settled'[q] = settled[q]
    BY <2>2 DEF MirrorInv, Undisturbed
  <2>3. CASE r = q /\ call[c].op = "bind" /\ settled'[q] = settled[q] /\ SamePolicies(q)
    <3> SUFFICES ASSUME settled[q] # {} PROVE Undisturbed(q)' BY <2>3 DEF Undisturbed
    <3>1. Undisturbed(q) BY DEF MirrorInv
    <3>2. roles[q] # "removed" /\ roles'[q] = roles[q]
      BY <2>3, <3>1 DEF Undisturbed, SamePolicies
    <3>3. \A i \in Instances : Mirror(q, i) => Mirror(q, i)'
      BY <2>3, <3>2 DEF Mirror, SamePolicies, Matches
    <3> QED BY <1>b, <1>r, <2>3, <3>1, <3>2, <3>3 DEF Undisturbed
  <2>4. CASE r = q /\ /\ k.pc = "done" /\ call[c].op # "bind" /\ c \notin crossed
                      /\ \A i \in settled'[q] : Mirror(q, i)'
    <3>1. \A d \in RoleCalls : Busy(d)' => call'[d].role # q
      <4> SUFFICES ASSUME NEW d \in RoleCalls, Busy(d)', call'[d].role = q PROVE FALSE OBVIOUS
      <4>1. d # c BY <1>0, <2>4 DEF Busy
      <4> QED BY <1>b, <2>4, <4>1 DEF MirrorInv
    <3> QED BY <2>4, <3>1 DEF Undisturbed
  <2> QED BY <2>1, <2>2, <2>3, <2>4
<1> QED BY <1>1, <1>2, <1>3, <1>4 DEF MirrorInv

LEMMA UnchangedSame ==
  ASSUME NEW r \in Roles, UNCHANGED <<roles, grants, rules, memory>>
  PROVE  Same(r)
BY DEF Same, SamePolicies, SameGroups

LEMMA AbortMirrors ==
  ASSUME Inv, MirrorInv, NEW c \in RoleCalls, Busy(c), Abort(c),
         UNCHANGED <<roles, grants, rules, memory>>
  PROVE  MirrorInv'
<1> DEFINE k == [NoCall EXCEPT !.pc = "done"]
<1>1. call' = [call EXCEPT ![c] = k] /\ UNCHANGED <<settled, crossed>> BY DEF Abort
<1>2. k \in RoleCall /\ k.pc = "done" /\ k.op = "update" BY DoneType
<1> HIDE DEF k
<1>3. OpOf(k, roles'[k.role]) BY <1>2 DEF OpOf, Replacing
<1>4. PICK q \in Roles : q = call[c].role BY Typed, CallTypes
<1>5. \A r \in Roles : Same(r) /\ settled'[r] = settled[r] BY <1>1, UnchangedSame
<1> QED BY <1>1, <1>2, <1>3, <1>4, <1>5, BusyStep DEF Same

-----------------------------------------------------------------------------
(* Calls that arrive. *)

LEMMA ArriveMirrors ==
  ASSUME Inv, MirrorInv, NEW c \in RoleCalls, NEW k \in RoleCall, NEW q \in Roles, k.role = q,
         Arrive(c, k, q), k.pc \notin {"new", "done"}, OpOf(k, roles'[q]),
         k.op = "bind" => roles[q] = "live",
         \A r \in Roles \ {q} : Same(r),
         \A r \in Roles : roles[r] = "removed" => roles'[r] = "removed",
         k.op = "bind" => Same(q),
         k.op # "bind" => /\ k.op \in {"create", "update"} => roles'[q] = "live"
                          /\ k.pc \in {"title", "delete", "list", "drop"}
                          /\ Same(q) \/ roles[q] = "unborn"
  PROVE  MirrorInv'
<1> DEFINE others == {d \in RoleCalls : Busy(d) /\ call[d].role = q}
<1>0. /\ call'[c] = k /\ \A d \in RoleCalls : d # c => call'[d] = call[d]
      /\ call[c].pc = "new"
  BY Typed DEF Arrive
<1>1. crossed' = IF others = {} THEN crossed ELSE crossed \cup others \cup {c} BY DEF Arrive
<1>2. settled' = IF k.op = "bind" THEN settled ELSE [settled EXCEPT ![q] = {}] BY DEF Arrive
<1>3. /\ \A r \in Roles : r # q => settled'[r] = settled[r]
      /\ k.op # "bind" => settled'[q] = {}
      /\ k.op = "bind" => settled'[q] = settled[q]
  BY <1>2, Typed
<1>r. /\ \A d \in RoleCalls : call[d].role \in Roles /\ call[d].inst \in Instances
      /\ \A r \in Roles : settled[r] \subseteq Instances
  BY Typed, CallTypes
<1>b. \A d \in RoleCalls : Busy(d)' => d = c \/ (Busy(d) /\ call'[d] = call[d])
  BY <1>0 DEF Busy
<1>4. \A d \in RoleCalls : OpOf(call'[d], roles'[call'[d].role])
  <2> SUFFICES ASSUME NEW d \in RoleCalls, d # c PROVE OpOf(call[d], roles'[call[d].role])
    BY <1>0
  <2>1. OpOf(call[d], roles[call[d].role]) BY DEF MirrorInv
  <2> QED BY <1>r, <2>1 DEF OpOf
<1>5. ASSUME NEW d \in RoleCalls, NEW e \in RoleCalls, d # e, Busy(d)', Busy(e)',
             call'[d].role = call'[e].role
      PROVE  d \in crossed'
  <2>1. CASE d # c /\ e # c BY <1>0, <1>1, <1>b, <1>5, <2>1 DEF MirrorInv
  <2>2. CASE d = c
    <3>1. e \in others BY <1>0, <1>b, <1>5, <2>2
    <3> QED BY <1>1, <2>2, <3>1
  <2>3. CASE e = c
    <3>1. d \in others BY <1>0, <1>b, <1>5, <2>3
    <3> QED BY <1>1, <3>1
  <2> QED BY <2>1, <2>2, <2>3
<1>6. ASSUME NEW d \in RoleCalls, Busy(d)', call'[d].op # "bind", d \notin crossed'
      PROVE  Follows(d)'
  <2>1. CASE d = c
    BY <1>0, <1>6, <2>1 DEF Follows, Tracks
  <2>2. CASE d # c
    <3>1. Busy(d) /\ call'[d] = call[d] BY <1>b, <2>2, <1>6
    <3>2. call[d].role # q
      <4> SUFFICES ASSUME call[d].role = q PROVE FALSE OBVIOUS
      <4>1. d \in others BY <3>1
      <4> QED BY <1>1, <1>6, <4>1
    <3>3. Follows(d) BY <1>1, <1>6, <3>1 DEF MirrorInv
    <3>4. Same(call[d].role) BY <1>r, <3>2
    <3> QED BY <1>r, <3>1, <3>3, <3>4 DEF Follows, Same, SamePolicies, SameGroups
  <2> QED BY <2>1, <2>2
<1>7. ASSUME NEW r \in Roles PROVE Undisturbed(r)'
  <2>1. CASE r = q /\ k.op # "bind" BY <1>3, <2>1 DEF Undisturbed
  <2>2. CASE r # q \/ k.op = "bind"
    <3>1. Same(r) /\ settled'[r] = settled[r] /\ Undisturbed(r) BY <1>3, <2>2 DEF MirrorInv
    <3>2. \A i \in Instances : Mirror(r, i) => Mirror(r, i)'
      BY <3>1 DEF Mirror, Same, SamePolicies, SameGroups
    <3>3. roles'[r] = roles[r] BY <3>1 DEF Same, SamePolicies
    <3>4. settled[r] # {} =>
            \A d \in RoleCalls : Busy(d)' /\ call'[d].role = r
                                 => call'[d].op = "bind" /\ roles'[r] # "removed"
      BY <1>0, <1>b, <2>2, <3>1, <3>3 DEF Undisturbed
    <3> QED BY <1>r, <3>1, <3>2, <3>4 DEF Undisturbed
  <2> QED BY <2>1, <2>2
<1> QED BY <1>4, <1>5, <1>6, <1>7 DEF MirrorInv

LEMMA ArrivalMirrors ==
  ASSUME Inv, MirrorInv, NEW c \in RoleCalls, NEW i \in Instances, NEW r \in Roles,
         \/ \E wish \in Grantings : CreateRole(c, i, r, wish)
         \/ \E wish \in Grantings \cup {Keep}, named \in BOOLEAN : UpdateRole(c, i, r, wish, named)
         \/ RemoveRole(c, i, r)
         \/ \E t \in Tenants : Register(c, i, t, r)
  PROVE  MirrorInv'
<1>1. ASSUME NEW wish \in Grantings, CreateRole(c, i, r, wish) PROVE MirrorInv'
  <2> DEFINE k == [NoCall EXCEPT !.pc = "list", !.op = "create", !.inst = i, !.role = r]
  <2>1. k \in RoleCall /\ k.pc = "list" /\ k.op = "create" /\ k.role = r BY NoCallType DEF RoleCall
  <2>2. /\ Arrive(c, k, r) /\ roles[r] = "unborn"
        /\ roles' = [roles EXCEPT ![r] = "live"] /\ grants' = [grants EXCEPT ![r] = {c} \X wish]
        /\ UNCHANGED <<rules, memory>>
    BY <1>1 DEF CreateRole, Arrive
  <2> HIDE DEF k
  <2>3. OpOf(k, roles'[r]) BY <2>1 DEF OpOf, Replacing
  <2>4. roles'[r] = "live" /\ \A x \in Roles : roles[x] = "removed" => roles'[x] = "removed"
    BY <2>2, Typed
  <2>5. \A x \in Roles \ {r} : Same(x) BY <2>2, Typed DEF Same, SamePolicies, SameGroups
  <2> QED BY <2>1, <2>2, <2>3, <2>4, <2>5, ArriveMirrors
<1>2. ASSUME NEW wish \in Grantings \cup {Keep}, NEW named \in BOOLEAN,
             UpdateRole(c, i, r, wish, named)
      PROVE  MirrorInv'
  <2> DEFINE pc == IF named THEN "title" ELSE IF wish = Keep THEN "list" ELSE "delete"
             k == [NoCall EXCEPT !.inst = i, !.role = r, !.wish = wish, !.named = named, !.pc = pc]
  <2>1. pc \in {"title", "list", "delete"} OBVIOUS
  <2>2. Arrive(c, k, r) /\ roles[r] = "live" /\ UNCHANGED <<roles, grants, rules, memory>>
    BY <1>2 DEF UpdateRole, Arrive, GetRoleById
  <2> HIDE DEF pc
  <2>3. k \in RoleCall /\ k.pc = pc /\ k.op = "update" /\ k.role = r
    BY <2>1, NoCallType DEF RoleCall
  <2> HIDE DEF k
  <2>4. OpOf(k, roles'[r]) BY <2>1, <2>3 DEF OpOf, Replacing
  <2>5. \A x \in Roles : Same(x) BY <2>2, UnchangedSame
  <2> QED BY <2>1, <2>2, <2>3, <2>4, <2>5, ArriveMirrors
<1>3. CASE RemoveRole(c, i, r)
  <2> DEFINE k == [NoCall EXCEPT !.pc = "drop", !.op = "remove", !.inst = i, !.role = r]
  <2>1. k \in RoleCall /\ k.pc = "drop" /\ k.op = "remove" /\ k.role = r /\ k.todo = {}
    BY NoCallType DEF RoleCall
  <2>2. Arrive(c, k, r) /\ UNCHANGED <<roles, grants, rules, memory>>
    BY <1>3 DEF RemoveRole, Arrive, data
  <2> HIDE DEF k
  <2>3. OpOf(k, roles'[r]) BY <2>1 DEF OpOf, Replacing
  <2>4. \A x \in Roles : Same(x) BY <2>2, UnchangedSame
  <2> QED BY <2>1, <2>2, <2>3, <2>4, ArriveMirrors
<1>4. ASSUME NEW t \in Tenants, Register(c, i, t, r) PROVE MirrorInv'
  <2> DEFINE k == [NoCall EXCEPT !.pc = "add", !.op = "bind", !.inst = i, !.role = r,
                                 !.tenant = t, !.todo = {t}]
  <2>1. k \in RoleCall /\ k.pc = "add" /\ k.op = "bind" /\ k.role = r BY NoCallType DEF RoleCall
  <2>2. Arrive(c, k, r) /\ roles[r] = "live" /\ UNCHANGED <<roles, grants, rules, memory>>
    BY <1>4 DEF Register, Arrive, GetRoleById
  <2> HIDE DEF k
  <2>3. OpOf(k, roles'[r]) BY <2>1 DEF OpOf, Replacing
  <2>4. \A x \in Roles : Same(x) BY <2>2, UnchangedSame
  <2> QED BY <2>1, <2>2, <2>3, <2>4, ArriveMirrors
<1> QED BY <1>1, <1>2, <1>3, <1>4
-----------------------------------------------------------------------------
(* The steps of the transaction. *)

(* A step that moves a call on without touching roles, grants or rules. *)
LEMMA MovedMirrors ==
  ASSUME Inv, MirrorInv, NEW c \in RoleCalls, Busy(c), call[c].op # "bind", NEW k \in RoleCall,
         call' = [call EXCEPT ![c] = k], k.role = call[c].role, k.op = call[c].op,
         k.inst = call[c].inst, OpOf(k, roles[k.role]),
         k.pc \in {"delete", "wait", "insert", "list"}
         \/ (k.pc = "clear" /\ k.todo = EndpointsOf(grants[k.role])),
         UNCHANGED <<roles, grants, rules, memory, settled, crossed>>
  PROVE  MirrorInv'
<1>1. PICK q \in Roles : q = call[c].role BY Typed, CallTypes
<1>2. \A r \in Roles : Same(r) BY UnchangedSame
<1>3. c \in crossed \/ Follows(c)'
  <2>1. call'[c] = k BY Typed
  <2>2. c \notin crossed => Follows(c) BY DEF MirrorInv
  <2> QED BY <2>1, <2>2 DEF Follows, Tracks
<1> QED BY <1>1, <1>2, <1>3, BusyStep

LEMMA TransactionMirrors ==
  ASSUME Inv, GrantInv, MirrorInv, NEW c \in RoleCalls,
         RenameRole(c) \/ StartDeleteGrants(c) \/ DeleteRolePermissions(c)
         \/ CreateRolePermissions(c) \/ DeleteRole(c)
  PROVE  MirrorInv'
<1>0. call[c] \in RoleCall /\ Shape(c) /\ OpOf(call[c], roles[call[c].role])
  BY Typed DEF MirrorInv
<1>i. Busy(c) /\ call[c].op # "bind"
      /\ (call[c].pc \in Replacing => call[c].op = "update")
  BY <1>0, Typed DEF RenameRole, StartDeleteGrants, DeleteRolePermissions, CreateRolePermissions,
                     DeleteRole, Shape, Busy, Replacing
<1>1. CASE RenameRole(c)
  <2>1. UNCHANGED <<roles, grants, rules, memory>> /\ call[c].pc = "title"
    BY <1>1 DEF RenameRole, data, mirrors
  <2>2. ASSUME NEW pc \in {"delete", "list"}, Goto(c, pc), UNCHANGED <<settled, crossed>>
        PROVE  MirrorInv'
    <3> DEFINE k == [call[c] EXCEPT !.pc = pc]
    <3>1. /\ k \in RoleCall /\ k.pc = pc /\ k.role = call[c].role /\ k.op = call[c].op
          /\ k.inst = call[c].inst
      BY <1>0 DEF RoleCall
    <3>2. call' = [call EXCEPT ![c] = k] BY <2>2 DEF Goto
    <3> HIDE DEF k
    <3>3. OpOf(k, roles[k.role]) BY <1>i, <2>1, <3>1 DEF OpOf, Replacing
    <3> QED BY <1>i, <2>1, <2>2, <3>1, <3>2, <3>3, MovedMirrors
  <2> QED BY <1>1, <1>i, <2>1, <2>2, AbortMirrors DEF RenameRole
<1>2. CASE StartDeleteGrants(c)
  <2> DEFINE k == [call[c] EXCEPT !.pc = "wait", !.snap = grants[call[c].role]]
  <2>1. /\ call' = [call EXCEPT ![c] = k] /\ call[c].pc = "delete"
        /\ UNCHANGED <<roles, grants, rules, memory, settled, crossed>>
    BY <1>2 DEF StartDeleteGrants, data, mirrors
  <2>2. grants[call[c].role] \subseteq GrantRows BY <1>0, Typed, CallTypes
  <2>3. /\ k \in RoleCall /\ k.pc = "wait" /\ k.role = call[c].role /\ k.op = call[c].op
        /\ k.inst = call[c].inst
    BY <1>0, <2>2 DEF RoleCall
  <2> HIDE DEF k
  <2>4. OpOf(k, roles[k.role]) BY <1>i, <2>1, <2>3 DEF OpOf, Replacing
  <2> QED BY <1>i, <2>1, <2>3, <2>4, MovedMirrors
<1>3. CASE DeleteRolePermissions(c)
  <2> DEFINE g == call[c].snap \cap grants[call[c].role]
             k == [call[c] EXCEPT !.pc = "insert", !.snap = {}, !.gone = g]
  <2>1. /\ call' = [call EXCEPT ![c] = k] /\ call[c].pc = "wait"
        /\ UNCHANGED <<roles, grants, rules, memory, settled, crossed>>
    BY <1>3 DEF DeleteRolePermissions, data, mirrors
  <2>2. g \subseteq GrantRows BY <1>0, Typed, CallTypes
  <2> HIDE DEF g
  <2>3. /\ k \in RoleCall /\ k.pc = "insert" /\ k.role = call[c].role /\ k.op = call[c].op
        /\ k.inst = call[c].inst
    BY <1>0, <2>2 DEF RoleCall
  <2> HIDE DEF k
  <2>4. OpOf(k, roles[k.role]) BY <1>i, <2>1, <2>3 DEF OpOf, Replacing
  <2> QED BY <1>i, <2>1, <2>3, <2>4, MovedMirrors
<1>4. CASE CreateRolePermissions(c)
  <2>1. UNCHANGED <<roles, rules, memory>> /\ call[c].pc = "insert"
    BY <1>4 DEF CreateRolePermissions, mirrors
  <2>2. CASE Abort(c) /\ UNCHANGED <<grants, wished>> BY <1>i, <2>1, <2>2, AbortMirrors
  <2>3. CASE /\ grants' = [grants EXCEPT ![call[c].role] = (@ \ call[c].gone) \cup ({c} \X call[c].wish)]
             /\ call' = [call EXCEPT ![c].pc = "list", ![c].gone = {}, ![c].wish = Keep]
             /\ UNCHANGED <<settled, crossed>>
    <3> DEFINE k == [call[c] EXCEPT !.pc = "list", !.gone = {}, !.wish = Keep]
    <3>1. call' = [call EXCEPT ![c] = k] BY <2>3
    <3>2. /\ k \in RoleCall /\ k.pc = "list" /\ k.role = call[c].role /\ k.op = call[c].op
          /\ k.inst = call[c].inst
      BY <1>0 DEF RoleCall
    <3> HIDE DEF k
    <3>3. OpOf(k, roles'[k.role]) BY <1>i, <2>1, <3>2 DEF OpOf, Replacing
    <3>4. PICK q \in Roles : q = call[c].role BY Typed, CallTypes
    <3>5. \A r \in Roles \ {q} : Same(r)
      BY <2>1, <2>3, <3>4, Typed DEF Same, SamePolicies, SameGroups
    <3>6. c \in crossed \/ Follows(c)'
      <4>1. call'[c] = k BY <3>1, Typed
      <4>2. c \notin crossed => Follows(c) BY <1>i DEF MirrorInv
      <4> QED BY <2>1, <3>2, <4>1, <4>2 DEF Follows, Tracks
    <3> QED BY <1>i, <2>1, <2>3, <3>1, <3>2, <3>3, <3>4, <3>5, <3>6, BusyStep
  <2> QED BY <1>4, <2>2, <2>3 DEF CreateRolePermissions
<1>5. CASE DeleteRole(c)
  <2>1. UNCHANGED <<rules, memory>> /\ call[c].pc = "drop" BY <1>5 DEF DeleteRole, mirrors
  <2>2. CASE Abort(c) /\ UNCHANGED data BY <1>i, <2>1, <2>2, AbortMirrors DEF data
  <2>3. CASE /\ roles' = [roles EXCEPT ![call[c].role] = "removed"]
             /\ grants' = [grants EXCEPT ![call[c].role] = {}]
             /\ Goto(c, "clear") /\ UNCHANGED <<settled, crossed>>
    <3> DEFINE k == [call[c] EXCEPT !.pc = "clear"]
    <3>1. call' = [call EXCEPT ![c] = k] BY <2>3 DEF Goto
    <3>2. /\ k \in RoleCall /\ k.pc = "clear" /\ k.role = call[c].role /\ k.op = "remove"
          /\ call[c].op = "remove" /\ k.inst = call[c].inst /\ k.todo = {}
      BY <1>0, <2>1 DEF RoleCall, OpOf
    <3> HIDE DEF k
    <3>3. PICK q \in Roles : q = call[c].role BY Typed, CallTypes
    <3>4. /\ roles'[q] = "removed" /\ grants'[q] = {}
          /\ \A r \in Roles : roles[r] = "removed" => roles'[r] = "removed"
      BY <2>3, <3>3, Typed
    <3>5. OpOf(k, roles'[k.role]) BY <3>2, <3>3, <3>4 DEF OpOf, Replacing
    <3>6. \A r \in Roles \ {q} : Same(r)
      BY <2>1, <2>3, <3>3, Typed DEF Same, SamePolicies, SameGroups
    <3>7. EndpointsOf({}) = {} BY DEF EndpointsOf
    <3>8. Follows(c)'
      <4>1. call'[c] = k BY <3>1, Typed
      <4> QED BY <3>2, <3>3, <3>4, <3>7, <4>1 DEF Follows, Tracks
    <3> QED BY <1>i, <2>1, <2>3, <3>1, <3>2, <3>3, <3>4, <3>5, <3>6, <3>8, BusyStep
  <2> QED BY <1>5, <2>2, <2>3 DEF DeleteRole
<1> QED BY <1>1, <1>2, <1>3, <1>4, <1>5

-----------------------------------------------------------------------------
(* The steps of syncRolePolicies and of Remove. *)

LEMMA ListMirrors ==
  ASSUME Inv, MirrorInv, NEW c \in RoleCalls, syncRolePolicies(c)
  PROVE  MirrorInv'
<1>0. call[c] \in RoleCall /\ Shape(c) /\ OpOf(call[c], roles[call[c].role])
  BY Typed DEF MirrorInv
<1>1. call[c].pc = "list" /\ UNCHANGED <<roles, grants, rules, memory>>
  BY DEF syncRolePolicies, data, mirrors
<1>2. Busy(c) /\ call[c].op \notin {"bind", "remove"}
  BY <1>0, <1>1 DEF Busy, Shape, OpOf
<1>3. CASE Abort(c) BY <1>1, <1>2, <1>3, AbortMirrors
<1>4. CASE /\ call' = [call EXCEPT ![c].pc = "clear",
                                  ![c].todo = ListRolePermissionEndpoints(call[c].role)]
           /\ UNCHANGED <<settled, crossed>>
  <2> DEFINE t == ListRolePermissionEndpoints(call[c].role)
             k == [call[c] EXCEPT !.pc = "clear", !.todo = t]
  <2>1. t = EndpointsOf(grants[call[c].role]) /\ t \subseteq Endpoints
    BY <1>0, CallTypes, GrantTypes DEF EndpointsOf, ListRolePermissionEndpoints, GrantedTo
  <2>2. call' = [call EXCEPT ![c] = k] BY <1>4
  <2> HIDE DEF t
  <2>3. /\ k \in RoleCall /\ k.pc = "clear" /\ k.role = call[c].role /\ k.op = call[c].op
        /\ k.inst = call[c].inst /\ k.todo = t
    BY <1>0, <2>1 DEF RoleCall
  <2> HIDE DEF k
  <2>4. OpOf(k, roles[k.role]) BY <1>2, <2>3 DEF OpOf, Replacing
  <2>5. k.todo = EndpointsOf(grants[k.role]) BY <2>1, <2>3
  <2> QED BY <1>1, <1>2, <1>4, <2>2, <2>3, <2>4, <2>5, MovedMirrors
<1> QED BY <1>3, <1>4 DEF syncRolePolicies

(* Only rules of the role are removed or added. *)
LEMMA OnlyItsRules ==
  ASSUME Inv, NEW q \in Roles, NEW i \in Instances, NEW r \in Roles \ {q}, NEW kind,
         UNCHANGED <<roles, grants>>,
         \/ rules' = rules
         \/ rules' = rules \ OfRole(rules, kind, q)
         \/ \E x : rules' = rules \cup {<<kind, q, x>>},
         \/ memory' = memory
         \/ memory' = [memory EXCEPT ![i] = memory[i] \ OfRole(memory[i], kind, q)]
         \/ \E x : memory' = [memory EXCEPT ![i] = memory[i] \cup {<<kind, q, x>>}]
  PROVE  Same(r)
<1>0. \A S, x, k : /\ OfRole(S \ OfRole(S, kind, q), k, r) = OfRole(S, k, r)
                   /\ OfRole(S \cup {<<kind, q, x>>}, k, r) = OfRole(S, k, r)
  <2> TAKE S, x, k
  <2>1. OfRole(S \ OfRole(S, kind, q), k, r) = OfRole(S, k, r) BY OfRoleRemoved
  <2>2. OfRole(S \cup {<<kind, q, x>>}, k, r) = OfRole(S, k, r) BY DEF OfRole
  <2> QED BY <2>1, <2>2
<1>1. \A k : OfRole(rules', k, r) = OfRole(rules, k, r)
  <2>1. CASE rules' = rules BY <2>1
  <2>2. CASE rules' = rules \ OfRole(rules, kind, q) BY <1>0, <2>2
  <2>3. ASSUME NEW x, rules' = rules \cup {<<kind, q, x>>}
        PROVE  \A k : OfRole(rules', k, r) = OfRole(rules, k, r)
    <3>1. \A k : OfRole(rules \cup {<<kind, q, x>>}, k, r) = OfRole(rules, k, r) BY <1>0, Zenon
    <3> QED BY <2>3, <3>1, Zenon
  <2> QED BY <2>1, <2>2, <2>3
<1>2. \A k : OfRole(memory'[i], k, r) = OfRole(memory[i], k, r)
  <2>1. CASE memory' = memory BY <2>1
  <2>2. CASE memory' = [memory EXCEPT ![i] = memory[i] \ OfRole(memory[i], kind, q)]
    <3>1. memory'[i] = memory[i] \ OfRole(memory[i], kind, q) BY <2>2, Typed
    <3> QED BY <1>0, <3>1
  <2>3. ASSUME NEW x, memory' = [memory EXCEPT ![i] = memory[i] \cup {<<kind, q, x>>}]
        PROVE  \A k : OfRole(memory'[i], k, r) = OfRole(memory[i], k, r)
    <3>1. memory'[i] = memory[i] \cup {<<kind, q, x>>} BY <2>3, Typed
    <3>2. \A k : OfRole(memory[i] \cup {<<kind, q, x>>}, k, r) = OfRole(memory[i], k, r)
      BY <1>0, Zenon
    <3> QED BY <3>1, <3>2, Zenon
  <2> QED BY <2>1, <2>2, <2>3
<1>3. \A j \in Instances : j # i => memory'[j] = memory[j] BY Typed
<1> QED BY <1>1, <1>2, <1>3 DEF Same, SamePolicies, SameGroups

LEMMA StoredRemovedMirrors ==
  ASSUME Inv, MirrorInv, NEW c \in RoleCalls, RemoveFilteredStored(c)
  PROVE  MirrorInv'
<1>0. call[c] \in RoleCall /\ Shape(c) /\ OpOf(call[c], roles[call[c].role])
  BY Typed DEF MirrorInv
<1>1. call[c].pc \in {"clear", "ungroup"} /\ UNCHANGED <<roles, grants, memory>>
  BY DEF RemoveFilteredStored, data
<1>2. Busy(c) /\ call[c].op # "bind" /\ (call[c].pc = "ungroup" => call[c].op = "remove")
  BY <1>0, <1>1 DEF Busy, Shape, OpOf
<1>3. CASE Abort(c) /\ UNCHANGED rules BY <1>1, <1>2, <1>3, AbortMirrors
<1>4. CASE /\ rules' = rules \ OfRole(rules, Kind(c), call[c].role)
           /\ Goto(c, IF call[c].pc = "clear" THEN "clear memory" ELSE "ungroup memory")
           /\ UNCHANGED <<settled, crossed>>
  <2>1. PICK q \in Roles, i \in Instances : q = call[c].role /\ i = call[c].inst
    BY Typed, CallTypes
  <2> DEFINE pc == IF call[c].pc = "clear" THEN "clear memory" ELSE "ungroup memory"
             k == [call[c] EXCEPT !.pc = pc]
  <2>2. pc \in {"clear memory", "ungroup memory"} OBVIOUS
  <2>3. call' = [call EXCEPT ![c] = k] BY <1>4 DEF Goto
  <2>4. /\ k \in RoleCall /\ k.pc = pc /\ k.role = call[c].role /\ k.op = call[c].op
        /\ k.inst = call[c].inst /\ k.todo = call[c].todo
    BY <1>0, <2>2 DEF RoleCall
  <2>5. Kind(c) = IF call[c].pc = "ungroup" THEN "g" ELSE "p" BY <1>1, <1>2 DEF Kind
  <2>6. pc = IF call[c].pc = "clear" THEN "clear memory" ELSE "ungroup memory" OBVIOUS
  <2> HIDE DEF k, pc
  <2>7. OpOf(k, roles'[k.role]) BY <1>0, <1>1, <1>2, <2>2, <2>4, <2>6 DEF OpOf, Replacing
  <2>8. \A r \in Roles \ {q} : Same(r) BY <1>1, <1>4, <2>1, OnlyItsRules
  <2>9. c \in crossed \/ Follows(c)'
    <3> SUFFICES ASSUME c \notin crossed PROVE Follows(c)' OBVIOUS
    <3>1. Follows(c) BY <1>2 DEF MirrorInv
    <3>2. call'[c] = k BY <2>3, Typed
    <3>3. CASE call[c].pc = "clear"
      <4>1. OfRole(rules', "p", q) = {} BY <1>4, <2>1, <2>5, <3>3, OfRoleRemoved
      <4> QED BY <1>1, <2>1, <2>4, <2>6, <3>1, <3>2, <3>3, <4>1 DEF Follows, Tracks
    <3>4. CASE call[c].pc = "ungroup"
      <4>0. rules' = rules \ OfRole(rules, "g", q) BY <1>4, <2>1, <2>5, <3>4
      <4>1. OfRole(rules', "g", q) = {} /\ OfRole(rules', "p", q) = OfRole(rules, "p", q)
        BY <4>0 DEF OfRole
      <4> QED BY <1>1, <2>1, <2>4, <2>6, <3>1, <3>2, <3>4, <4>1 DEF Follows, Tracks
    <3> QED BY <1>1, <3>3, <3>4
  <2>10. k.pc # "new" BY <2>2, <2>4
  <2> QED BY <1>1, <1>2, <1>4, <2>1, <2>3, <2>4, <2>7, <2>8, <2>9, <2>10, BusyStep
<1> QED BY <1>3, <1>4 DEF RemoveFilteredStored

LEMMA KeptRemovedMirrors ==
  ASSUME Inv, GrantInv, MirrorInv, NEW c \in RoleCalls, RemoveFilteredKept(c)
  PROVE  MirrorInv'
<1>0. call[c] \in RoleCall /\ Shape(c) /\ OpOf(call[c], roles[call[c].role])
  BY Typed DEF MirrorInv
<1>1. /\ call[c].pc \in {"clear memory", "ungroup memory"} /\ UNCHANGED <<roles, grants, rules>>
      /\ memory' = [memory EXCEPT ![call[c].inst] = @ \ OfRole(@, Kind(c), call[c].role)]
  BY DEF RemoveFilteredKept, data
<1>2. Busy(c) /\ call[c].op # "bind" /\ (call[c].pc = "ungroup memory" => call[c].op = "remove")
  BY <1>0, <1>1 DEF Busy, Shape, OpOf
<1>3. PICK q \in Roles, i \in Instances : q = call[c].role /\ i = call[c].inst
  BY Typed, CallTypes
<1>4. Kind(c) = IF call[c].pc = "ungroup memory" THEN "g" ELSE "p" BY <1>1, <1>2 DEF Kind
<1>5. \A r \in Roles \ {q} : Same(r) BY <1>1, <1>3, OnlyItsRules
<1>6. memory'[i] = memory[i] \ OfRole(memory[i], Kind(c), q) BY <1>1, <1>3, Typed
<1>7. CASE call[c].pc = "clear memory" /\ Goto(c, IF call[c].op = "remove" THEN "ungroup" ELSE "add")
           /\ UNCHANGED <<settled, crossed>>
  <2> DEFINE pc == IF call[c].op = "remove" THEN "ungroup" ELSE "add"
             k == [call[c] EXCEPT !.pc = pc]
  <2>1. pc \in {"ungroup", "add"} /\ (pc = "ungroup" <=> call[c].op = "remove") OBVIOUS
  <2>2. call' = [call EXCEPT ![c] = k] BY <1>7 DEF Goto
  <2> HIDE DEF pc
  <2>3. /\ k \in RoleCall /\ k.pc = pc /\ k.role = call[c].role /\ k.op = call[c].op
        /\ k.inst = call[c].inst /\ k.todo = call[c].todo
    BY <1>0, <2>1 DEF RoleCall
  <2> HIDE DEF k
  <2>4. OpOf(k, roles'[k.role]) BY <1>0, <1>1, <1>7, <2>1, <2>3 DEF OpOf, Replacing
  <2>5. c \in crossed \/ Follows(c)'
    <3> SUFFICES ASSUME c \notin crossed PROVE Follows(c)' OBVIOUS
    <3>1. Follows(c) BY <1>2 DEF MirrorInv
    <3>2. call'[c] = k BY <2>2, Typed
    <3>0. memory'[i] = memory[i] \ OfRole(memory[i], "p", q) BY <1>4, <1>6, <1>7
    <3>3. OfRole(memory'[i], "p", q) = {} BY <3>0 DEF OfRole
    <3>4. PolicyRules(q, EndpointsOf(grants[q]) \ EndpointsOf(grants[q])) = {} BY DEF PolicyRules
    <3> QED BY <1>1, <1>3, <1>7, <2>1, <2>3, <3>1, <3>2, <3>3, <3>4 DEF Follows, Tracks
  <2> QED BY <1>1, <1>2, <1>3, <1>5, <1>7, <2>1, <2>2, <2>3, <2>4, <2>5, BusyStep
<1>8. CASE call[c].pc = "ungroup memory" /\ Done(c)
  <2> DEFINE k == [NoCall EXCEPT !.pc = "done"]
  <2>1. k \in RoleCall /\ k.pc = "done" /\ k.op = "update" BY DoneType
  <2>2. /\ call' = [call EXCEPT ![c] = k] /\ crossed' = crossed
        /\ settled' = IF c \in crossed THEN settled ELSE [settled EXCEPT ![q] = {i}]
    BY <1>2, <1>3, <1>8 DEF Done
  <2> HIDE DEF k
  <2>3. OpOf(k, roles'[k.role]) BY <2>1 DEF OpOf, Replacing
  <2>4. \A r \in Roles \ {q} : settled'[r] = settled[r] BY <2>2, Typed
  <2>5. CASE c \in crossed
    BY <1>1, <1>2, <1>3, <1>5, <2>1, <2>2, <2>3, <2>4, <2>5, BusyStep
  <2>6. CASE c \notin crossed
    <3>1. settled'[q] = {i} BY <2>2, <2>6, Typed
    <3>2. Follows(c) BY <1>2, <2>6 DEF MirrorInv
    <3>3. OfRole(memory'[i], "g", q) = {} /\ OfRole(memory'[i], "p", q) = OfRole(memory[i], "p", q)
      <4>1. memory'[i] = memory[i] \ OfRole(memory[i], "g", q) BY <1>4, <1>6, <1>8
      <4> QED BY <4>1 DEF OfRole
    <3>4. roles[q] = "removed" BY <1>0, <1>2, <1>3, <1>8 DEF OpOf
    <3>5. grants[q] = {} BY <3>4 DEF GrantInv, NothingLeft
    <3>6. PolicyRules(q, EndpointsOf({})) = {} BY DEF EndpointsOf, PolicyRules
    <3>7. Mirror(q, i)'
      BY <1>1, <1>3, <1>8, <3>2, <3>3, <3>5, <3>6 DEF Follows, Tracks, Mirror, Matches
    <3>8. \A j \in settled'[q] : Mirror(q, j)' BY <3>1, <3>7
    <3>9. \A r \in Roles \ {q} : Same(r) /\ settled'[r] = settled[r] BY <1>5, <2>4
    <3> QED BY <1>1, <1>2, <1>3, <2>1, <2>2, <2>3, <2>6, <3>8, <3>9, BusyStep, Zenon
  <2> QED BY <2>5, <2>6
<1> QED BY <1>7, <1>8 DEF RemoveFilteredKept
(* The rules of a call carry its kind and its role. *)
LEMMA RulesOf ==
  ASSUME NEW c
  PROVE  \A x : /\ RuleOf(c, x)[1] = (IF call[c].op = "bind" THEN "g" ELSE "p")
                /\ RuleOf(c, x)[2] = call[c].role
BY DEF RuleOf, P, G

LEMMA AddPolicyMirrors ==
  ASSUME Inv, MirrorInv, NEW c \in RoleCalls, NEW x \in call[c].todo, AddPolicy(c, x)
  PROVE  MirrorInv'
<1>0. call[c] \in RoleCall /\ Shape(c) /\ OpOf(call[c], roles[call[c].role])
  BY Typed DEF MirrorInv
<1>1. call[c].pc = "add" /\ UNCHANGED <<roles, grants, memory>> BY DEF AddPolicy, data
<1>2. Busy(c) /\ call[c].op # "remove" BY <1>0, <1>1 DEF Busy, OpOf
<1>3. CASE Abort(c) /\ UNCHANGED rules BY <1>1, <1>2, <1>3, AbortMirrors
<1>4. PICK q \in Roles, i \in Instances : q = call[c].role /\ i = call[c].inst
  BY Typed, CallTypes
<1>5. CASE /\ RuleOf(c, x) \in memory[i] /\ call' = [call EXCEPT ![c].todo = @ \ {x}]
           /\ UNCHANGED <<rules, settled, crossed>>
  <2> DEFINE t == call[c].todo \ {x}
             k == [call[c] EXCEPT !.todo = t]
  <2>1. call' = [call EXCEPT ![c] = k] BY <1>5
  <2>2. t \in SUBSET (Endpoints \cup Tenants) BY <1>0, CallTypes
  <2> HIDE DEF t
  <2>3. /\ k \in RoleCall /\ k.pc = "add" /\ k.role = call[c].role /\ k.op = call[c].op
    BY <1>0, <1>1, <2>2 DEF RoleCall
  <2> HIDE DEF k
  <2>4. OpOf(k, roles'[k.role]) BY <1>2, <2>3 DEF OpOf, Replacing
  <2>5. \A r \in Roles : Same(r) BY <1>1, <1>5, UnchangedSame
  <2>6. call[c].op = "bind" \/ c \in crossed
    <3> SUFFICES ASSUME call[c].op # "bind", c \notin crossed PROVE FALSE OBVIOUS
    <3>1. Follows(c) BY <1>2 DEF MirrorInv
    <3>2. P(q, x) \in OfRole(memory[i], "p", q) BY <1>4, <1>5 DEF RuleOf, P, OfRole
    <3>3. P(q, x) \in PolicyRules(q, EndpointsOf(grants[q]) \ call[c].todo)
      BY <1>1, <1>4, <3>1, <3>2 DEF Follows, Tracks
    <3> QED BY <3>3 DEF PolicyRules, P
  <2>7. SamePolicies(q) /\ settled'[q] = settled[q] BY <1>5, <2>5 DEF Same
  <2>8. \A r \in Roles \ {q} : Same(r) /\ settled'[r] = settled[r] BY <1>5, <2>5
  <2>9. k.pc # "new" /\ crossed' = crossed
        /\ \A r \in Roles : roles[r] = "removed" => roles'[r] = "removed"
    BY <1>1, <1>5, <2>3
  <2>10. CASE call[c].op = "bind"
    BY <1>2, <1>4, <2>1, <2>3, <2>4, <2>7, <2>8, <2>9, <2>10, BusyStep
  <2>11. CASE call[c].op # "bind"
    BY <1>2, <1>4, <2>1, <2>3, <2>4, <2>6, <2>7, <2>8, <2>9, <2>11, BusyStep
  <2> QED BY <2>10, <2>11
<1>6. CASE /\ RuleOf(c, x) \notin memory[i] /\ rules' = rules \cup {RuleOf(c, x)}
           /\ call' = [call EXCEPT ![c].pc = "add memory", ![c].snap = {x}]
           /\ UNCHANGED <<settled, crossed>>
  <2> DEFINE k == [call[c] EXCEPT !.pc = "add memory", !.snap = {x}]
  <2>1. call' = [call EXCEPT ![c] = k] BY <1>6
  <2>2. {x} \in SUBSET (GrantRows \cup Endpoints \cup Tenants) BY <1>0, CallTypes
  <2>3. /\ k \in RoleCall /\ k.pc = "add memory" /\ k.role = call[c].role /\ k.op = call[c].op
        /\ k.inst = call[c].inst /\ k.todo = call[c].todo /\ k.snap = {x}
    BY <1>0, <2>2 DEF RoleCall
  <2> HIDE DEF k
  <2>4. OpOf(k, roles'[k.role]) BY <1>2, <2>3 DEF OpOf, Replacing
  <2>5. \A kind, r : kind # (IF call[c].op = "bind" THEN "g" ELSE "p") \/ r # q
                     => OfRole(rules', kind, r) = OfRole(rules, kind, r)
    <3>1. /\ RuleOf(c, x)[1] = (IF call[c].op = "bind" THEN "g" ELSE "p")
          /\ RuleOf(c, x)[2] = q
      BY <1>4, RulesOf
    <3>2. PICK own, y : own = (IF call[c].op = "bind" THEN "g" ELSE "p") /\ y = RuleOf(c, x)
      OBVIOUS
    <3>3. rules' = rules \cup {y} /\ y[1] = own /\ y[2] = q BY <1>6, <3>1, <3>2
    <3>4. \A kind, r : kind # own \/ r # q => OfRole(rules', kind, r) = OfRole(rules, kind, r)
      BY <3>3 DEF OfRole
    <3> QED BY <3>2, <3>4
  <2>6. \A r \in Roles \ {q} : Same(r) BY <1>1, <2>5 DEF Same, SamePolicies, SameGroups
  <2>7. CASE call[c].op = "bind"
    <3>1. SamePolicies(q) BY <1>1, <2>5, <2>7 DEF SamePolicies
    <3> QED BY <1>1, <1>2, <1>4, <1>6, <2>1, <2>3, <2>4, <2>6, <2>7, <3>1, BusyStep
  <2>8. CASE call[c].op # "bind"
    <3>1. c \in crossed \/ Follows(c)'
      <4> SUFFICES ASSUME c \notin crossed PROVE Follows(c)' OBVIOUS
      <4>1. Follows(c) BY <1>2, <2>8 DEF MirrorInv
      <4>2. call'[c] = k BY <2>1, Typed
      <4>3. OfRole(rules', "p", q) = OfRole(rules, "p", q) \cup {P(q, x)}
        <5>1. rules' = rules \cup {<<"p", q, x>>} BY <1>4, <1>6, <2>8 DEF RuleOf, P
        <5> QED BY <5>1 DEF OfRole, P
      <4>4. \A s : PolicyRules(q, s) \cup {P(q, x)} = PolicyRules(q, s \cup {x}) BY DEF PolicyRules
      <4> DEFINE E == EndpointsOf(grants[q])
      <4>5. /\ call[c].todo \subseteq E
            /\ OfRole(memory[i], "p", q) = PolicyRules(q, E \ call[c].todo)
            /\ OfRole(rules, "p", q) = PolicyRules(q, E \ call[c].todo)
            /\ call[c].op \in {"create", "update"} => roles[q] = "live"
        BY <1>1, <1>4, <4>1 DEF Follows, Tracks
      <4> HIDE DEF E
      <4>6. OfRole(rules', "p", q) = PolicyRules(q, (E \ call[c].todo) \cup {x})
        BY <4>3, <4>4, <4>5
      <4> QED BY <1>1, <1>4, <2>3, <4>2, <4>5, <4>6 DEF Follows, Tracks, E
    <3> QED BY <1>1, <1>2, <1>4, <1>6, <2>1, <2>3, <2>4, <2>6, <2>8, <3>1, BusyStep
  <2> QED BY <2>7, <2>8
<1> QED BY <1>3, <1>4, <1>5, <1>6 DEF AddPolicy

LEMMA PolicyKeptMirrors ==
  ASSUME Inv, MirrorInv, NEW c \in RoleCalls, AddPolicyKept(c)
  PROVE  MirrorInv'
<1>0. call[c] \in RoleCall /\ Shape(c) /\ OpOf(call[c], roles[call[c].role])
  BY Typed DEF MirrorInv
<1>1. /\ call[c].pc = "add memory" /\ UNCHANGED <<roles, grants, rules, settled, crossed>>
  BY DEF AddPolicyKept, data
<1>2. Busy(c) /\ call[c].op # "remove" BY <1>0, <1>1 DEF Busy, OpOf
<1>3. PICK q \in Roles, i \in Instances : q = call[c].role /\ i = call[c].inst
  BY Typed, CallTypes
<1> DEFINE t == call[c].todo \ call[c].snap
           k == [call[c] EXCEPT !.pc = "add", !.todo = t, !.snap = {}]
           Y == {RuleOf(c, x) : x \in call[c].snap}
<1>4. call' = [call EXCEPT ![c] = k] /\ memory' = [memory EXCEPT ![i] = memory[i] \cup Y]
  BY <1>3 DEF AddPolicyKept
<1>5. t \in SUBSET (Endpoints \cup Tenants) BY <1>0, CallTypes
<1>6. t = call[c].todo \ call[c].snap OBVIOUS
<1> HIDE DEF t
<1>7. /\ k \in RoleCall /\ k.pc = "add" /\ k.role = call[c].role /\ k.op = call[c].op
      /\ k.inst = call[c].inst /\ k.todo = t
  BY <1>0, <1>5 DEF RoleCall
<1>8. \A y \in Y : y[1] = (IF call[c].op = "bind" THEN "g" ELSE "p") /\ y[2] = q
  BY <1>3, RulesOf
<1>9. \A z : call[c].op # "bind" /\ call[c].snap = {z} => Y = {P(q, z)} BY <1>3 DEF RuleOf
<1> HIDE DEF k, Y
<1>10. OpOf(k, roles'[k.role]) BY <1>2, <1>7 DEF OpOf, Replacing
<1>11. memory'[i] = memory[i] \cup Y /\ \A j \in Instances : j # i => memory'[j] = memory[j]
  BY <1>4, Typed
<1>12. \A kind, r : kind # (IF call[c].op = "bind" THEN "g" ELSE "p") \/ r # q
                    => OfRole(memory'[i], kind, r) = OfRole(memory[i], kind, r)
  <2>1. PICK own : own = (IF call[c].op = "bind" THEN "g" ELSE "p") OBVIOUS
  <2>2. \A y \in Y : y[1] = own /\ y[2] = q BY <1>8, <2>1
  <2>3. \A kind, r : kind # own \/ r # q => OfRole(memory'[i], kind, r) = OfRole(memory[i], kind, r)
    BY <1>11, <2>2 DEF OfRole
  <2> QED BY <2>1, <2>3
<1>13. \A r \in Roles \ {q} : Same(r) BY <1>1, <1>11, <1>12 DEF Same, SamePolicies, SameGroups
<1>14. CASE call[c].op = "bind"
  <2>1. SamePolicies(q) BY <1>1, <1>11, <1>12, <1>14 DEF SamePolicies
  <2> QED BY <1>1, <1>2, <1>3, <1>4, <1>7, <1>10, <1>13, <1>14, <2>1, BusyStep
<1>15. CASE call[c].op # "bind"
  <2>1. c \in crossed \/ Follows(c)'
    <3> SUFFICES ASSUME c \notin crossed PROVE Follows(c)' OBVIOUS
    <3>1. Follows(c) BY <1>2, <1>15 DEF MirrorInv
    <3>2. call'[c] = k BY <1>4, Typed
    <3> DEFINE E == EndpointsOf(grants[q])
    <3>3. PICK z \in call[c].todo :
            call[c].snap = {z} /\ OfRole(rules, "p", q) = PolicyRules(q, (E \ call[c].todo) \cup {z})
      BY <1>1, <1>3, <3>1 DEF Follows, Tracks
    <3>4. call[c].todo \subseteq E /\ OfRole(memory[i], "p", q) = PolicyRules(q, E \ call[c].todo)
      BY <1>1, <1>3, <3>1 DEF Follows, Tracks
    <3> HIDE DEF E
    <3>5. OfRole(memory'[i], "p", q) = OfRole(memory[i], "p", q) \cup {P(q, z)}
      <4>1. memory'[i] = memory[i] \cup {<<"p", q, z>>} BY <1>9, <1>11, <1>15, <3>3 DEF P
      <4> QED BY <4>1 DEF OfRole, P
    <3>6. (E \ call[c].todo) \cup {z} = E \ t /\ t \subseteq E BY <1>6, <3>3, <3>4
    <3>7. PolicyRules(q, E \ call[c].todo) \cup {P(q, z)} = PolicyRules(q, E \ t)
      <4>1. \A s : PolicyRules(q, s) \cup {P(q, z)} = PolicyRules(q, s \cup {z}) BY DEF PolicyRules
      <4> QED BY <3>6, <4>1
    <3>8. OfRole(memory'[i], "p", q) = PolicyRules(q, E \ t) BY <3>4, <3>5, <3>7
    <3>9. OfRole(rules', "p", q) = PolicyRules(q, E \ t) BY <1>1, <3>3, <3>6
    <3>10. call[c].op \in {"create", "update"} => roles[q] = "live"
      BY <1>3, <3>1 DEF Follows, Tracks
    <3> QED BY <1>1, <1>3, <1>7, <3>2, <3>6, <3>8, <3>9, <3>10 DEF Follows, Tracks, E
  <2> QED BY <1>1, <1>2, <1>3, <1>4, <1>7, <1>10, <1>13, <1>15, <2>1, BusyStep
<1> QED BY <1>14, <1>15

LEMMA ReturnMirrors ==
  ASSUME Inv, MirrorInv, NEW c \in RoleCalls, Return(c)
  PROVE  MirrorInv'
<1>0. call[c] \in RoleCall /\ Shape(c) /\ OpOf(call[c], roles[call[c].role])
  BY Typed DEF MirrorInv
<1>1. /\ call[c].pc = "add" /\ call[c].todo = {} /\ Done(c)
      /\ UNCHANGED <<roles, grants, rules, memory>>
  BY DEF Return, data, mirrors
<1>2. Busy(c) /\ call[c].op # "remove" BY <1>0, <1>1 DEF Busy, OpOf
<1>3. PICK q \in Roles, i \in Instances : q = call[c].role /\ i = call[c].inst
  BY Typed, CallTypes
<1> DEFINE k == [NoCall EXCEPT !.pc = "done"]
<1>4. k \in RoleCall /\ k.pc = "done" /\ k.op = "update" BY DoneType
<1>5. /\ call' = [call EXCEPT ![c] = k] /\ crossed' = crossed
      /\ settled' = IF c \in crossed \/ call[c].op = "bind" THEN settled
                    ELSE [settled EXCEPT ![q] = {i}]
  BY <1>1, <1>3 DEF Done
<1> HIDE DEF k
<1>6. OpOf(k, roles'[k.role]) BY <1>4 DEF OpOf, Replacing
<1>7. \A r \in Roles : Same(r) BY <1>1, UnchangedSame
<1>8. \A r \in Roles \ {q} : settled'[r] = settled[r] BY <1>5, Typed
<1>9. CASE c \in crossed \/ call[c].op = "bind"
  BY <1>1, <1>2, <1>3, <1>4, <1>5, <1>6, <1>7, <1>9, BusyStep DEF Same
<1>10. CASE c \notin crossed /\ call[c].op # "bind"
  <2>1. settled'[q] = {i} BY <1>5, <1>10, Typed
  <2>2. Follows(c) BY <1>2, <1>10 DEF MirrorInv
  <2>3. roles[q] = "live"
    <3>1. call[c].op \in {"create", "update"} BY <1>0, <1>2, <1>10, CallTypes
    <3> QED BY <1>3, <2>2, <3>1 DEF Follows, Tracks
  <2>4. EndpointsOf(grants[q]) \ {} = EndpointsOf(grants[q]) OBVIOUS
  <2>5. Mirror(q, i)'
    BY <1>1, <1>3, <2>2, <2>3, <2>4 DEF Follows, Tracks, Mirror, Matches
  <2>6. \A j \in settled'[q] : Mirror(q, j)' BY <2>1, <2>5
  <2>7. \A r \in Roles \ {q} : Same(r) /\ settled'[r] = settled[r] BY <1>7, <1>8
  <2> QED BY <1>1, <1>2, <1>3, <1>4, <1>5, <1>6, <1>10, <2>6, <2>7, BusyStep
<1> QED BY <1>9, <1>10

-----------------------------------------------------------------------------
(* A restart, and the whole. *)

LEMMA RestartMirrors ==
  ASSUME Inv, MirrorInv, NEW i \in Instances, Restart(i)
  PROVE  MirrorInv'
<1> DEFINE k == [NoCall EXCEPT !.pc = "done"]
<1>1. k \in RoleCall /\ k.pc = "done" /\ k.op = "update" BY DoneType
<1>2. /\ call' = [c \in RoleCalls |-> IF Busy(c) /\ call[c].inst = i THEN k ELSE call[c]]
      /\ memory' = [memory EXCEPT ![i] = rules]
      /\ settled' = [r \in Roles |-> IF settled[r] = {} THEN {} ELSE settled[r] \cup {i}]
      /\ UNCHANGED <<roles, grants, rules, crossed>>
  BY DEF Restart, data
<1> HIDE DEF k
<1>3. memory'[i] = rules /\ \A j \in Instances : j # i => memory'[j] = memory[j] BY <1>2, Typed
<1>r. /\ \A d \in RoleCalls : call[d].role \in Roles /\ call[d].inst \in Instances
      /\ \A r \in Roles : settled[r] \subseteq Instances
  BY Typed, CallTypes
<1>b. \A d \in RoleCalls : Busy(d)' => Busy(d) /\ call'[d] = call[d] /\ call[d].inst # i
  BY <1>1, <1>2 DEF Busy
<1>4. \A d \in RoleCalls : OpOf(call'[d], roles'[call'[d].role])
  <2>1. \A role : OpOf(k, role) BY <1>1 DEF OpOf, Replacing
  <2>2. \A d \in RoleCalls : call'[d] = k \/ call'[d] = call[d] BY <1>2
  <2>3. \A d \in RoleCalls : OpOf(call[d], roles[call[d].role]) BY DEF MirrorInv
  <2> SUFFICES ASSUME NEW d \in RoleCalls PROVE OpOf(call'[d], roles'[call'[d].role]) OBVIOUS
  <2>4. CASE call'[d] = k BY <2>1, <2>4
  <2>5. CASE call'[d] = call[d] BY <1>2, <2>3, <2>5
  <2> QED BY <2>2, <2>4, <2>5
<1>5. \A c, d \in RoleCalls : c # d /\ Busy(c)' /\ Busy(d)' /\ call'[c].role = call'[d].role
                              => c \in crossed'
  BY <1>2, <1>b DEF MirrorInv
<1>6. ASSUME NEW d \in RoleCalls, Busy(d)', call'[d].op # "bind", d \notin crossed'
      PROVE  Follows(d)'
  <2>1. Follows(d) /\ call'[d] = call[d] /\ memory'[call[d].inst] = memory[call[d].inst]
    BY <1>2, <1>3, <1>6, <1>b, <1>r DEF MirrorInv
  <2> QED BY <1>2, <2>1 DEF Follows
<1>7. ASSUME NEW r \in Roles PROVE Undisturbed(r)'
  <2>1. CASE settled[r] = {} BY <1>2, <2>1 DEF Undisturbed
  <2>2. CASE settled[r] # {}
    <3>1. PICK j \in settled[r] : TRUE BY <2>2
    <3>2. settled'[r] = settled[r] \cup {i} BY <1>2, <2>2
    <3>3. Undisturbed(r) BY DEF MirrorInv
    <3>4. ASSUME NEW n \in settled'[r] PROVE Mirror(r, n)'
      <4>1. CASE n = i
        <5>1. Mirror(r, j) BY <2>2, <3>1, <3>3 DEF Undisturbed
        <5> QED BY <1>2, <1>3, <4>1, <5>1 DEF Mirror, Matches
      <4>2. CASE n # i
        <5>1. n \in settled[r] /\ memory'[n] = memory[n] BY <1>3, <1>r, <3>2, <3>4, <4>2
        <5>2. Mirror(r, n) BY <2>2, <3>3, <5>1 DEF Undisturbed
        <5> QED BY <1>2, <5>1, <5>2 DEF Mirror
      <4> QED BY <4>1, <4>2
    <3>5. \A c \in RoleCalls : Busy(c)' /\ call'[c].role = r
                               => call'[c].op = "bind" /\ roles'[r] # "removed"
      BY <1>2, <1>b, <2>2, <3>3 DEF Undisturbed
    <3> QED BY <3>4, <3>5 DEF Undisturbed
  <2> QED BY <2>1, <2>2
<1> QED BY <1>4, <1>5, <1>6, <1>7 DEF MirrorInv

LEMMA MirrorStep ==
  ASSUME Inv, GrantInv, MirrorInv, [PolicyNext]_policyVars
  PROVE  MirrorInv'
<1>1. CASE UNCHANGED policyVars
  BY <1>1 DEF policyVars, MirrorInv, Busy, Follows, Undisturbed, Mirror
<1>2. ASSUME NEW c \in RoleCalls, PolicyStep(c) PROVE MirrorInv'
  BY <1>2, ArrivalMirrors, TransactionMirrors, ListMirrors, StoredRemovedMirrors,
     KeptRemovedMirrors, AddPolicyMirrors, PolicyKeptMirrors, ReturnMirrors DEF PolicyStep
<1>3. ASSUME NEW i \in Instances, Restart(i) PROVE MirrorInv' BY <1>3, RestartMirrors
<1> QED BY <1>1, <1>2, <1>3 DEF PolicyNext

LEMMA MirrorInit == PolicyInit => MirrorInv
<1> SUFFICES ASSUME PolicyInit PROVE MirrorInv OBVIOUS
<1>1. \A c \in RoleCalls : call[c].pc = "new" /\ call[c].op = "update"
  BY NoCallType DEF PolicyInit
<1>2. \A c \in RoleCalls : ~Busy(c) /\ OpOf(call[c], roles[call[c].role])
  BY <1>1 DEF Busy, OpOf, Replacing
<1>3. ASSUME NEW r \in Roles, NEW i \in Instances PROVE Mirror(r, i)
  <2> DEFINE granted == UNION {{P(q, EndpointFor[p]) : p \in SeedGrants[q]} : q \in SeedRoles}
             grouped == {G(m[1], m[2]) : m \in SeedMembers}
  <2>1. rules = granted \cup grouped /\ memory[i] = rules BY DEF PolicyInit
  <2>2. OfRole(granted \cup grouped, "p", r) = OfRole(granted, "p", r) BY DEF OfRole, G
  <2>3. roles[r] # "removed" BY DEF PolicyInit
  <2>4. OfRole(granted, "p", r) = PolicyRules(r, EndpointsOf(grants[r]))
    <3>1. CASE r \in SeedRoles
      <4>1. grants[r] = {Keep} \X SeedGrants[r] BY <3>1 DEF PolicyInit
      <4>2. EndpointsOf(grants[r]) = {EndpointFor[p] : p \in SeedGrants[r]}
        <5>1. {row[2] : row \in {Keep} \X SeedGrants[r]} = SeedGrants[r] BY WrittenList
        <5> QED BY <4>1, <5>1 DEF EndpointsOf
      <4>3. OfRole(granted, "p", r) = {P(r, EndpointFor[p]) : p \in SeedGrants[r]}
        BY <3>1 DEF OfRole, P
      <4> QED BY <4>2, <4>3 DEF PolicyRules
    <3>2. CASE r \notin SeedRoles
      <4>1. EndpointsOf(grants[r]) = {} BY <3>2 DEF PolicyInit, EndpointsOf
      <4>2. OfRole(granted, "p", r) = {} BY <3>2 DEF OfRole, P
      <4> QED BY <4>1, <4>2 DEF PolicyRules
    <3> QED BY <3>1, <3>2
  <2> HIDE DEF granted, grouped
  <2> QED BY <2>1, <2>2, <2>3, <2>4 DEF Mirror, Matches
<1>4. \A r \in Roles : settled[r] = Instances BY DEF PolicyInit
<1> QED BY <1>2, <1>3, <1>4 DEF MirrorInv, Undisturbed

(* A call on a role that meets no other and succeeds makes the rules of the   *)
(* role equal to its grants, in the table and where it ran; restarts keep it.*)
THEOREM SettledRolesMirror == PolicySpec => []SettledMirrors
<1>1. Inv /\ GrantInv /\ MirrorInv /\ [PolicyNext]_policyVars => Inv' /\ GrantInv' /\ MirrorInv'
  BY InvStep, GrantStep, MirrorStep
<1>2. MirrorInv => SettledMirrors BY MirrorsFollow DEF MirrorInv
<1> QED BY <1>1, <1>2, InvInit, GrantInit, MirrorInit, PTL DEF PolicySpec

(* What the middleware answers follows from the mirrored rules alone. *)
LEMMA AccessFollows ==
  ASSUME Inv, SettledMirrors
  PROVE  AccessFollowsGrants
<1> SUFFICES ASSUME NEW i \in Instances, NEW t \in Tenants,
                    \A r \in Roles : i \in settled[r] /\ (<<t, r>> \in members <=> G(t, r) \in memory[i])
             PROVE  \A pattern \in Patterns :
                      CasbinMiddleware(i, t, pattern) <=>
                        \E r \in Roles, p \in Permissions :
                          /\ <<t, r>> \in members /\ p \in GrantedTo(r)
                          /\ {<<pattern, EndpointFor[p]>>, <<WithSlash[pattern], EndpointFor[p]>>}
                                \cap KeyMatch2 # {}
  BY DEF AccessFollowsGrants
<1>1. memory[i] \subseteq Rules BY Typed
<1>2. \A r \in Roles : GrantedTo(r) \subseteq Permissions BY GrantTypes
<1>3. \A r \in Roles : OfRole(memory[i], "p", r) = {P(r, e) : e \in ListRolePermissionEndpoints(r)}
  BY DEF SettledMirrors
<1>4. \A r \in Roles : \A e : <<"p", r, e>> \in memory[i] <=> e \in ListRolePermissionEndpoints(r)
  <2> SUFFICES ASSUME NEW r \in Roles, NEW e
               PROVE  <<"p", r, e>> \in memory[i] <=> e \in ListRolePermissionEndpoints(r)
    OBVIOUS
  <2>1. <<"p", r, e>> \in memory[i] <=> <<"p", r, e>> \in OfRole(memory[i], "p", r) BY DEF OfRole
  <2>2. <<"p", r, e>> \in {P(r, f) : f \in ListRolePermissionEndpoints(r)}
        <=> e \in ListRolePermissionEndpoints(r)
    BY DEF P
  <2> QED BY <1>3, <2>1, <2>2
<1>5. \A x : Enforce(i, t, x) <=>
               \E r \in Roles, p \in Permissions : /\ <<t, r>> \in members /\ p \in GrantedTo(r)
                                                   /\ <<x, EndpointFor[p]>> \in KeyMatch2
  <2> TAKE x
  <2>1. ASSUME Enforce(i, t, x)
        PROVE  \E r \in Roles, p \in Permissions : /\ <<t, r>> \in members /\ p \in GrantedTo(r)
                                                   /\ <<x, EndpointFor[p]>> \in KeyMatch2
    <3>1. PICK g \in memory[i], y \in memory[i] : /\ g[1] = "g" /\ g[3] = t
                                                  /\ y[1] = "p" /\ y[2] = g[2]
                                                  /\ <<x, y[3]>> \in KeyMatch2
      BY <2>1 DEF Enforce
    <3>2. PICK r \in Roles : r = g[2] /\ g = <<"g", r, t>> BY <1>1, <3>1 DEF Rules
    <3>3. PICK e : y = <<"p", r, e>> BY <1>1, <3>1, <3>2 DEF Rules
    <3>4. <<t, r>> \in members BY <3>2 DEF G
    <3>5. e \in ListRolePermissionEndpoints(r) BY <1>4, <3>3
    <3>6. PICK p \in GrantedTo(r) : e = EndpointFor[p] BY <3>5 DEF ListRolePermissionEndpoints
    <3> QED BY <1>2, <3>1, <3>3, <3>4, <3>6
  <2>2. ASSUME NEW r \in Roles, NEW p \in Permissions, <<t, r>> \in members, p \in GrantedTo(r),
               <<x, EndpointFor[p]>> \in KeyMatch2
        PROVE  Enforce(i, t, x)
    <3>1. <<"g", r, t>> \in memory[i] BY <2>2 DEF G
    <3>2. <<"p", r, EndpointFor[p]>> \in memory[i]
      BY <1>4, <2>2 DEF ListRolePermissionEndpoints
    <3> QED BY <2>2, <3>1, <3>2 DEF Enforce
  <2> QED BY <2>1, <2>2
<1>6. \A a, b : {a, b} \cap KeyMatch2 # {} <=> a \in KeyMatch2 \/ b \in KeyMatch2 OBVIOUS
<1> TAKE pattern \in Patterns
<1>7. CasbinMiddleware(i, t, pattern) <=> Enforce(i, t, pattern) \/ Enforce(i, t, WithSlash[pattern])
  BY DEF CasbinMiddleware
<1>8. \A p : {<<pattern, EndpointFor[p]>>, <<WithSlash[pattern], EndpointFor[p]>>} \cap KeyMatch2 # {}
            <=> \/ <<pattern, EndpointFor[p]>> \in KeyMatch2
                \/ <<WithSlash[pattern], EndpointFor[p]>> \in KeyMatch2
  BY <1>6
<1> QED BY <1>5, <1>7, <1>8, Zenon

(* Where the roles are settled, a tenant reaches what its roles are granted. *)
THEOREM AccessFollowsTheGrants == PolicySpec => []AccessFollowsGrants
<1>1. Inv /\ SettledMirrors => AccessFollowsGrants BY AccessFollows
<1> QED BY <1>1, SettledRolesMirror, InvInit, InvStep, PTL DEF PolicySpec
=============================================================================
