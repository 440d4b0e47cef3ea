--------------------------- MODULE Catalog_proofs ---------------------------
(***************************************************************************)
(* Theorems about Catalog, for any tenants, boards, widgets, files and      *)
(* calls.                                                                   *)
(***************************************************************************)
EXTENDS Catalog, FiniteSetTheorems, SequenceTheorems, TLAPS

-----------------------------------------------------------------------------
(* Types.                                                                    *)

LEMMA FirstSlug == \A b \in DOMAIN FirstBoards : FirstBoards[b].slug \in Slugs
BY CatalogAssumption DEF Slugs

LEMMA TriesType == Attempts \in Nat /\ 0 \in 0..Attempts /\ Attempts \in 0..Attempts
<1>1. Attempts \in Nat BY CatalogAssumption
<1> QED BY <1>1

LEMMA NoTaskType == NoTask \in Task
BY TriesType DEF NoTask, Task

LEMMA CatalogInitTypeOK == CatalogInit => CatalogTypeOK
<1> SUFFICES ASSUME CatalogInit PROVE CatalogTypeOK
  OBVIOUS
<1>1. boards \in [Boards -> BoardRow]
  BY CatalogAssumption, FirstSlug DEF CatalogInit, BoardRow, NoBoard
<1>2. items \in [Items -> ItemRow]
  BY CatalogAssumption DEF CatalogInit, ItemRow, NoItem
<1>3. task \in [CatalogCalls -> Task]
  BY NoTaskType DEF CatalogInit
<1>4. /\ \A b \in Boards : boards[b].state = "live" => boards[b].owner \in tenants
      /\ \A w \in Items : items[w].state = "live" => items[w].owner \in tenants
  BY CatalogAssumption DEF CatalogInit, NoBoard, NoItem
<1> QED BY <1>1, <1>2, <1>3, <1>4 DEF CatalogTypeOK, CatalogInit

LEMMA TaskField ==
  ASSUME CatalogTypeOK, NEW c \in CatalogCalls, NEW r \in Task,
         task' = [task EXCEPT ![c] = r],
         UNCHANGED <<tenants, boards, items>>, clock' \in Nat, rivals' \subseteq CatalogCalls
  PROVE  CatalogTypeOK'
BY DEF CatalogTypeOK

LEMMA MovedTask ==
  ASSUME NEW r \in Task
  PROVE  [r EXCEPT !.pc = "update item"] \in Task /\ [r EXCEPT !.pc = "update item"].pc # "slug"
BY ZenonT(60), TriesType DEF Task

LEMMA EndedTask ==
  ASSUME NEW how \in {"done", "failed"}
  PROVE  [NoTask EXCEPT !.pc = how] \in Task
BY TriesType DEF NoTask, Task

LEMMA RowsCounted ==
  ASSUME NEW f \in Files
  PROVE  Cardinality(parseCsv(f)) \in Nat
<1>1. f \in Seq(Kinds) BY CatalogAssumption
<1>2. DOMAIN f = 1..Len(f) /\ Len(f) \in Nat BY <1>1, LenProperties
<1>3. IsFiniteSet(1..Len(f)) BY <1>2, FS_Interval
<1>4. parseCsv(f) \subseteq 1..Len(f) BY <1>2 DEF parseCsv
<1>5. IsFiniteSet(parseCsv(f)) BY <1>3, <1>4, FS_Subset
<1> QED BY <1>5, FS_CardinalityType

(* The base of a board that is being named. *)
Based == \A c \in CatalogCalls : task[c].pc = "slug" => task[c].base \in Bases

TypeInv == CatalogTypeOK /\ Based

LEMMA TaskStep ==
  ASSUME TypeInv, NEW c \in CatalogCalls, NEW r \in Task,
         r.pc = "slug" => r.base \in Bases,
         task' = [task EXCEPT ![c] = r],
         UNCHANGED <<tenants, boards, items>>, clock' \in Nat, rivals' \subseteq CatalogCalls
  PROVE  TypeInv'
BY TaskField DEF TypeInv, Based, CatalogTypeOK

LEMMA EndStep ==
  ASSUME TypeInv, NEW c \in CatalogCalls, NEW how \in {"done", "failed"}, Ended(c, how),
         tenants' = tenants, clock' = clock, rivals' = rivals,
         boards' \in [Boards -> BoardRow], items' \in [Items -> ItemRow],
         \A b \in Boards : boards'[b].state = "live" => boards'[b].owner \in tenants,
         \A w \in Items : items'[w].state = "live" => items'[w].owner \in tenants
  PROVE  TypeInv'
<1>1. /\ task' = [task EXCEPT ![c] = [NoTask EXCEPT !.pc = how]]
      /\ [NoTask EXCEPT !.pc = how] \in Task
      /\ [NoTask EXCEPT !.pc = how].pc = how
  BY EndedTask DEF Ended, NoTask
<1>2. task' \in [CatalogCalls -> Task]
  BY <1>1 DEF TypeInv, CatalogTypeOK
<1>3. Based'
  BY <1>1 DEF TypeInv, Based, CatalogTypeOK
<1> QED BY <1>2, <1>3 DEF TypeInv, CatalogTypeOK

(* What the type invariant says of one call, board and widget. *)
LEMMA Typed ==
  ASSUME TypeInv
  PROVE  /\ \A c \in CatalogCalls : task[c] \in Task
         /\ \A b \in Boards : boards[b] \in BoardRow
         /\ \A w \in Items : items[w] \in ItemRow
         /\ boards \in [Boards -> BoardRow] /\ items \in [Items -> ItemRow]
         /\ tenants \subseteq Owners /\ clock \in Nat /\ rivals \subseteq CatalogCalls
         /\ \A b \in Boards : boards[b].state = "live" => boards[b].owner \in tenants
         /\ \A w \in Items : items[w].state = "live" => items[w].owner \in tenants
BY DEF TypeInv, CatalogTypeOK

LEMMA SlugType ==
  ASSUME TypeInv, NEW c \in CatalogCalls, uniqueSlug(c)
  PROVE  TypeInv'
<1>0. /\ task[c] \in Task /\ (task[c].pc = "slug" => task[c].base \in Bases)
      /\ tenants \subseteq Owners /\ clock \in Nat /\ rivals \subseteq CatalogCalls
  BY Typed DEF TypeInv, Based
<1>01. UNCHANGED <<tenants, boards, items, rivals>> /\ task[c].pc = "slug" BY DEF uniqueSlug
<1>02. task[c].tries \in 0..Attempts /\ task[c].base \in Bases
  BY <1>0, <1>01 DEF Task
<1>1. CASE task' = [task EXCEPT ![c].pc = "insert"] /\ clock' = clock
  <2> DEFINE r == [task[c] EXCEPT !.pc = "insert"]
  <2>1. r \in Task /\ r.pc = "insert" BY <1>0 DEF Task
  <2>2. task' = [task EXCEPT ![c] = r] BY <1>1
  <2> HIDE DEF r
  <2> QED BY <1>0, <1>01, <1>1, <2>1, <2>2, TaskStep
<1>2. ASSUME NEW s \in Suffixes, task[c].tries > 0, clock' = clock,
             task' = [task EXCEPT ![c].slug = Slug(task[c].base, s), ![c].tries = @ - 1]
      PROVE  TypeInv'
  <2> DEFINE q == task[c].tries - 1
             r == [task[c] EXCEPT !.slug = Slug(task[c].base, s), !.tries = q]
  <2>1. Slug(task[c].base, s) \in Slugs BY <1>02 DEF Slug, Slugs
  <2>20. task[c].tries > 0 BY <1>2
  <2>21. \A n \in 0..Attempts : n > 0 => n - 1 \in 0..Attempts BY TriesType
  <2>2. q \in 0..Attempts BY <1>02, <2>20, <2>21
  <2>3. task' = [task EXCEPT ![c] = r] BY <1>0, <1>2, Typed DEF TypeInv, CatalogTypeOK, Task
  <2> HIDE DEF q
  <2>4. r \in Task /\ r.base = task[c].base BY <1>0, <2>1, <2>2 DEF Task
  <2> HIDE DEF r
  <2> QED BY <1>0, <1>01, <1>02, <1>2, <2>3, <2>4, TaskStep
<1>3. CASE /\ clock' = clock + 1
           /\ task' = [task EXCEPT ![c].pc = "insert", ![c].slug = Stamped(task[c].base, clock)]
  <2> DEFINE r == [task[c] EXCEPT !.pc = "insert", !.slug = Stamped(task[c].base, clock)]
  <2>10. clock \in Nat /\ task[c].base \in Bases BY <1>0, <1>02
  <2>1. Stamped(task[c].base, clock) \in Slugs BY <2>10 DEF Stamped, Slugs
  <2>2. r \in Task /\ r.pc = "insert" BY <1>0, <2>1 DEF Task
  <2>3. task' = [task EXCEPT ![c] = r]
    BY <1>0, <1>3 DEF TypeInv, CatalogTypeOK, Task
  <2>4. clock' \in Nat
    <3>1. clock' = clock + 1 BY <1>3
    <3> QED BY <2>10, <3>1
  <2> HIDE DEF r
  <2> QED BY <1>0, <1>01, <2>2, <2>3, <2>4, TaskStep
<1> QED BY <1>1, <1>2, <1>3 DEF uniqueSlug

LEMMA BoardCallType ==
  ASSUME TypeInv, NEW c \in CatalogCalls,
         \/ \E t \in Owners, base \in Bases : CreateBoard(c, t, base)
         \/ \E t \in Owners, b \in Boards : \/ FindBoard(c, "update board", t, b)
                                            \/ FindBoard(c, "remove board", t, b)
         \/ uniqueSlug(c)
         \/ \E b \in Boards : InsertBoard(c, b)
         \/ \E access \in {"restricted", "public"} : UpdateBoard(c, access)
         \/ DeleteBoard(c)
  PROVE  TypeInv'
<1>0. /\ task[c] \in Task /\ (task[c].pc = "slug" => task[c].base \in Bases)
      /\ tenants \subseteq Owners /\ clock \in Nat /\ rivals \subseteq CatalogCalls
  BY Typed DEF TypeInv, Based
<1>1. ASSUME NEW t \in Owners, NEW base \in Bases, CreateBoard(c, t, base) PROVE TypeInv'
  <2> DEFINE r == [NoTask EXCEPT !.pc = "slug", !.owner = t, !.base = base,
                                 !.slug = Slug(base, Plain), !.tries = Attempts]
  <2>1. Slug(base, Plain) \in Slugs BY DEF Slug, Slugs
  <2>2. r \in Task /\ r.base = base BY <2>1, TriesType DEF NoTask, Task
  <2>3. task' = [task EXCEPT ![c] = r] /\ UNCHANGED <<tenants, boards, items, clock>>
    BY <1>1 DEF CreateBoard, Call
  <2>4. rivals' \subseteq CatalogCalls BY <1>0, <1>1 DEF CreateBoard
  <2> HIDE DEF r
  <2> QED BY <1>0, <2>2, <2>3, <2>4, TaskStep
<1>2. ASSUME NEW t \in Owners, NEW b \in Boards, NEW op \in {"update board", "remove board"},
             FindBoard(c, op, t, b) PROVE TypeInv'
  <2> DEFINE r == [NoTask EXCEPT !.pc = op, !.op = op, !.owner = t, !.row = b]
  <2>1. r \in Task /\ r.pc = op BY TriesType DEF NoTask, Task
  <2>2. task' = [task EXCEPT ![c] = r] /\ UNCHANGED <<tenants, boards, items, clock, rivals>>
    BY <1>2 DEF FindBoard, Call
  <2> HIDE DEF r
  <2> QED BY <1>0, <2>1, <2>2, TaskStep
<1>3. CASE uniqueSlug(c) BY <1>3, SlugType
<1>4. ASSUME NEW b \in Boards, InsertBoard(c, b) PROVE TypeInv'
  <2> DEFINE t == task[c].owner
             row == [NoBoard EXCEPT !.state = "live", !.owner = t, !.slug = task[c].slug]
  <2>1. CASE t \in tenants /\ boards' = [boards EXCEPT ![b] = row] /\ Ended(c, "done")
    <3>1. row \in BoardRow /\ row.owner = t BY <1>0, <2>1 DEF BoardRow, NoBoard, Task
    <3> HIDE DEF row
    <3>2. /\ boards' \in [Boards -> BoardRow]
          /\ \A a \in Boards : boards'[a].state = "live" => boards'[a].owner \in tenants
      BY <2>1, <3>1, Typed
    <3>3. UNCHANGED <<tenants, items, clock, rivals>> BY <1>4 DEF InsertBoard
    <3> QED BY <2>1, <3>2, <3>3, Typed, EndStep
  <2>2. CASE task' = [task EXCEPT ![c].pc = "conflict"] /\ boards' = boards
    <3> DEFINE r == [task[c] EXCEPT !.pc = "conflict"]
    <3>1. r \in Task /\ r.pc = "conflict" BY <1>0 DEF Task
    <3>2. task' = [task EXCEPT ![c] = r] BY <2>2
    <3>3. UNCHANGED <<tenants, items, clock, rivals>> BY <1>4 DEF InsertBoard
    <3> HIDE DEF r
    <3> QED BY <1>0, <2>2, <3>1, <3>2, <3>3, TaskStep
  <2>3. CASE Ended(c, "failed") /\ boards' = boards
    <3>1. UNCHANGED <<tenants, items, clock, rivals>> BY <1>4 DEF InsertBoard
    <3> QED BY <2>3, <3>1, Typed, EndStep
  <2> QED BY <1>4, <2>1, <2>2, <2>3 DEF InsertBoard
<1>5. ASSUME NEW access \in {"restricted", "public"}, UpdateBoard(c, access) PROVE TypeInv'
  <2>1. UNCHANGED <<tenants, items, clock, rivals>> BY <1>5 DEF UpdateBoard
  <2>2. CASE /\ boards' = [boards EXCEPT ![task[c].row].access = access] /\ Ended(c, "done")
    <3>1. /\ boards' \in [Boards -> BoardRow]
          /\ \A a \in Boards : boards'[a].state = "live" => boards'[a].owner \in tenants
      BY ZenonT(60), <2>2, Typed DEF BoardRow
    <3> QED BY <2>1, <2>2, <3>1, Typed, EndStep
  <2>3. CASE Ended(c, "failed") /\ boards' = boards
    BY <2>1, <2>3, Typed, EndStep
  <2> QED BY <1>5, <2>2, <2>3 DEF UpdateBoard
<1>6. CASE DeleteBoard(c)
  <2> DEFINE b == task[c].row
  <2>1. [NoBoard EXCEPT !.state = "removed"] \in BoardRow
        /\ [NoBoard EXCEPT !.state = "removed"].state = "removed"
    BY DEF NoBoard, BoardRow
  <2>2. boards' = [boards EXCEPT ![b] = [NoBoard EXCEPT !.state = "removed"]] BY <1>6 DEF DeleteBoard
  <2>3. /\ boards' \in [Boards -> BoardRow]
        /\ \A a \in Boards : boards'[a].state = "live" => boards'[a].owner \in tenants
    BY <2>1, <2>2, Typed
  <2>4. items' = [w \in Items |-> IF items[w].board = b THEN [items[w] EXCEPT !.board = Nothing]
                                  ELSE items[w]] BY <1>6 DEF DeleteBoard
  <2>5. /\ items' \in [Items -> ItemRow]
        /\ \A w \in Items : items'[w].state = "live" => items'[w].owner \in tenants
    BY <2>4, Typed DEF ItemRow
  <2>6. UNCHANGED <<tenants, clock, rivals>> /\ Ended(c, "done") BY <1>6 DEF DeleteBoard
  <2> QED BY <2>3, <2>5, <2>6, EndStep
<1> QED BY <1>1, <1>2, <1>3, <1>4, <1>5, <1>6

(* A new call of the inventory: its record, whichever call it is. *)
LEMMA NewItemCall ==
  ASSUME NEW pc \in {"create items", "own", "update item", "remove item"},
         NEW op \in {"create items", "update item", "remove item"},
         NEW t \in Owners, NEW w \in Items \cup {Nothing}, NEW b \in Boards \cup {Nothing},
         NEW n \in Nat
  PROVE  /\ [NoTask EXCEPT !.pc = pc, !.op = op, !.owner = t, !.board = b, !.count = n] \in Task
         /\ [NoTask EXCEPT !.pc = pc, !.op = op, !.owner = t, !.row = w, !.board = b] \in Task
         /\ [NoTask EXCEPT !.pc = pc, !.op = op, !.owner = t, !.board = b, !.count = n].pc # "slug"
         /\ [NoTask EXCEPT !.pc = pc, !.op = op, !.owner = t, !.row = w, !.board = b].pc # "slug"
BY TriesType DEF NoTask, Task

LEMMA CreateItemsType ==
  ASSUME TypeInv, NEW c \in CatalogCalls, NEW t \in Owners, NEW b \in Boards \cup {Nothing},
         NEW n \in Nat, CreateItems(c, t, b, n)
  PROVE  TypeInv'
<1> DEFINE r == [NoTask EXCEPT !.pc = "create items", !.op = "create items", !.owner = t,
                               !.board = b, !.count = n]
<1>1. r \in Task /\ r.pc # "slug" BY ZenonT(60), NewItemCall
<1>2. task' = [task EXCEPT ![c] = r] /\ UNCHANGED <<tenants, boards, items, clock, rivals>>
  BY DEF CreateItems, Call
<1> HIDE DEF r
<1> QED BY <1>1, <1>2, Typed, TaskStep

LEMMA FindItemType ==
  ASSUME TypeInv, NEW c \in CatalogCalls, NEW t \in Owners, NEW w \in Items,
         NEW b \in Boards \cup {Nothing}, NEW op \in {"update item", "remove item"},
         FindItem(c, op, t, w, b)
  PROVE  TypeInv'
<1> DEFINE pc == IF b = Nothing THEN op ELSE "own"
           r == [NoTask EXCEPT !.pc = pc, !.op = op, !.owner = t, !.row = w, !.board = b]
<1>1. pc \in {"create items", "own", "update item", "remove item"} OBVIOUS
<1>2. task' = [task EXCEPT ![c] = r] /\ UNCHANGED <<tenants, boards, items, clock, rivals>>
  BY DEF FindItem, Call
<1> HIDE DEF pc
<1>3. r \in Task /\ r.pc # "slug" BY <1>1, TriesType DEF NoTask, Task
<1> HIDE DEF r
<1> QED BY <1>2, <1>3, Typed, TaskStep

(* A call of the inventory past its look at the rows: each of its steps ends  *)
(* the call, or lets it write next.                                         *)
LEMMA ItemWriteType ==
  ASSUME TypeInv, NEW c \in CatalogCalls,
         \/ assertBoardOwned(c) \/ UpdateSmartWidget(c) \/ DeleteSmartWidget(c)
         \/ \E new \in SUBSET Items : CreateSmartWidgets(c, new)
         \/ QueryFails(c)
  PROVE  TypeInv'
<1>0. task[c] \in Task BY Typed
<1>1. CASE assertBoardOwned(c)
  <2>1. UNCHANGED <<tenants, boards, items, clock, rivals>> BY <1>1 DEF assertBoardOwned
  <2>2. CASE task' = [task EXCEPT ![c].pc = "update item"]
    <3> DEFINE r == [task[c] EXCEPT !.pc = "update item"]
    <3>1. r \in Task /\ r.pc # "slug" BY <1>0, MovedTask
    <3>2. task' = [task EXCEPT ![c] = r] BY <2>2
    <3> HIDE DEF r
    <3> QED BY <2>1, <3>1, <3>2, Typed, TaskStep
  <2>3. CASE Ended(c, "failed") BY <2>1, <2>3, Typed, EndStep
  <2> QED BY <1>1, <2>2, <2>3 DEF assertBoardOwned
<1>2. CASE UpdateSmartWidget(c)
  <2> DEFINE w == task[c].row  b == task[c].board
  <2>1. UNCHANGED <<tenants, boards, clock, rivals>> BY <1>2 DEF UpdateSmartWidget
  <2>2. CASE items' = [items EXCEPT ![w].board = IF b = Nothing THEN @ ELSE b] /\ Ended(c, "done")
    <3>1. b \in Boards \cup {Nothing} BY <1>0 DEF Task
    <3>2. /\ items' \in [Items -> ItemRow]
          /\ \A v \in Items : items'[v].state = "live" => items'[v].owner \in tenants
      BY ZenonT(60), <2>2, <3>1, Typed DEF ItemRow
    <3> QED BY <2>1, <2>2, <3>2, Typed, EndStep
  <2>3. CASE Ended(c, "failed") /\ items' = items BY <2>1, <2>3, Typed, EndStep
  <2> QED BY <1>2, <2>2, <2>3 DEF UpdateSmartWidget
<1>3. CASE DeleteSmartWidget(c)
  <2>1. /\ UNCHANGED <<tenants, boards, clock, rivals>> /\ Ended(c, "done")
        /\ items' = [items EXCEPT ![task[c].row] = [NoItem EXCEPT !.state = "removed"]]
    BY <1>3 DEF DeleteSmartWidget
  <2>2. /\ [NoItem EXCEPT !.state = "removed"] \in ItemRow
        /\ [NoItem EXCEPT !.state = "removed"].state = "removed"
    BY DEF NoItem, ItemRow
  <2>3. /\ items' \in [Items -> ItemRow]
        /\ \A v \in Items : items'[v].state = "live" => items'[v].owner \in tenants
    BY <2>1, <2>2, Typed
  <2> QED BY <2>1, <2>3, Typed, EndStep
<1>4. ASSUME NEW new \in SUBSET Items, CreateSmartWidgets(c, new) PROVE TypeInv'
  <2> DEFINE t == task[c].owner  b == task[c].board
             row == [state |-> "live", owner |-> t, board |-> b]
  <2>1. UNCHANGED <<tenants, boards, clock, rivals>> BY <1>4 DEF CreateSmartWidgets
  <2>2. CASE /\ t \in tenants /\ Ended(c, "done")
             /\ items' = [w \in Items |-> IF w \in new THEN row ELSE items[w]]
    <3>1. row \in ItemRow /\ row.owner = t BY <1>0 DEF Task, ItemRow
    <3> HIDE DEF row
    <3>2. /\ items' \in [Items -> ItemRow]
          /\ \A v \in Items : items'[v].state = "live" => items'[v].owner \in tenants
      BY <2>2, <3>1, Typed
    <3> QED BY <2>1, <2>2, <3>2, Typed, EndStep
  <2>3. CASE Ended(c, "failed") /\ items' = items BY <2>1, <2>3, Typed, EndStep
  <2> QED BY <1>4, <2>2, <2>3 DEF CreateSmartWidgets
<1>5. CASE QueryFails(c)
  BY <1>5, Typed, EndStep DEF QueryFails
<1> QED BY <1>1, <1>2, <1>3, <1>4, <1>5

LEMMA OthersType ==
  ASSUME TypeInv, (\E w \in Items : Sell(w)) \/ (\E t \in Owners : DeleteTenant(t))
  PROVE  TypeInv'
<1>0. /\ [NoItem EXCEPT !.state = "removed"] \in ItemRow
      /\ [NoItem EXCEPT !.state = "removed"].state = "removed"
      /\ [NoBoard EXCEPT !.state = "removed"] \in BoardRow
      /\ [NoBoard EXCEPT !.state = "removed"].state = "removed"
  BY DEF NoItem, ItemRow, NoBoard, BoardRow
<1>1. ASSUME NEW w \in Items, Sell(w) PROVE TypeInv'
  <2>1. /\ items' = [items EXCEPT ![w] = [NoItem EXCEPT !.state = "removed"]]
        /\ UNCHANGED <<tenants, boards, task, clock, rivals>>
    BY <1>1 DEF Sell
  <2>2. /\ items' \in [Items -> ItemRow]
        /\ \A v \in Items : items'[v].state = "live" => items'[v].owner \in tenants
    BY <1>0, <2>1, Typed
  <2> QED BY <2>1, <2>2 DEF TypeInv, CatalogTypeOK, Based
<1>2. ASSUME NEW t \in Owners, DeleteTenant(t) PROVE TypeInv'
  <2>1. /\ tenants' = tenants \ {t} /\ UNCHANGED <<task, clock, rivals>>
        /\ boards' = [b \in Boards |-> IF boards[b].owner = t
                        THEN [NoBoard EXCEPT !.state = "removed"] ELSE boards[b]]
        /\ items' = [w \in Items |-> IF items[w].owner = t
                        THEN [NoItem EXCEPT !.state = "removed"] ELSE items[w]]
    BY <1>2 DEF DeleteTenant
  <2>2. /\ items' \in [Items -> ItemRow]
        /\ \A v \in Items : items'[v].state = "live" => items'[v].owner \in tenants'
    BY <1>0, <2>1, Typed
  <2>3. /\ boards' \in [Boards -> BoardRow]
        /\ \A b \in Boards : boards'[b].state = "live" => boards'[b].owner \in tenants'
    BY <1>0, <2>1, Typed
  <2> QED BY <2>1, <2>2, <2>3 DEF TypeInv, CatalogTypeOK, Based
<1> QED BY <1>1, <1>2

LEMMA CatalogTypeStep == TypeInv /\ [CatalogNext]_catalogVars => TypeInv'
<1> SUFFICES ASSUME TypeInv, [CatalogNext]_catalogVars PROVE TypeInv'
  OBVIOUS
<1>1. ASSUME NEW c \in CatalogCalls, CatalogStep(c) PROVE TypeInv'
  <2>1. ASSUME NEW t \in Owners, NEW b \in Boards \cup {Nothing}, NEW f \in Files,
               ImportCsv(c, t, b, f) PROVE TypeInv'
    BY <2>1, RowsCounted, CreateItemsType DEF ImportCsv
  <2>2. ASSUME NEW t \in Owners, NEW b \in Boards \cup {Nothing},
               CreateItems(c, t, b, 1) PROVE TypeInv'
    BY <2>2, CreateItemsType
  <2>3. ASSUME NEW t \in Owners, NEW w \in Items, NEW b \in Boards \cup {Nothing},
               FindItem(c, "update item", t, w, b) PROVE TypeInv'
    BY <2>3, FindItemType
  <2>4. ASSUME NEW t \in Owners, NEW w \in Items,
               FindItem(c, "remove item", t, w, Nothing) PROVE TypeInv'
    BY <2>4, FindItemType
  <2> QED BY <1>1, <2>1, <2>2, <2>3, <2>4, BoardCallType, ItemWriteType DEF CatalogStep
<1>2. CASE (\E w \in Items : Sell(w)) \/ (\E t \in Owners : DeleteTenant(t))
  BY <1>2, OthersType
<1>3. CASE UNCHANGED catalogVars
  BY <1>3 DEF catalogVars, TypeInv, CatalogTypeOK, Based
<1> QED BY <1>1, <1>2, <1>3 DEF CatalogNext

(* Every variable of the catalog has its type in every reachable state, and  *)
(* a row that is there belongs to a tenant who is there: the deletion of a   *)
(* tenant leaves none of his boards and widgets, whoever was writing them.   *)
THEOREM CatalogTypeCorrect == CatalogSpec => []CatalogTypeOK
<1>1. CatalogInit => TypeInv
  <2>1. ASSUME CatalogInit PROVE Based
    <3>1. NoTask.pc = "new" BY DEF NoTask
    <3>2. \A c \in CatalogCalls : task[c].pc = "new" BY <2>1, <3>1 DEF CatalogInit
    <3> QED BY <3>2 DEF Based
  <2> QED BY <2>1, CatalogInitTypeOK DEF TypeInv
<1>2. TypeInv => CatalogTypeOK BY DEF TypeInv
<1> QED BY <1>1, <1>2, CatalogTypeStep, PTL DEF CatalogSpec
-----------------------------------------------------------------------------
(* Ownership.  The services look at the owner once and write by the id: what *)
(* they saw stays true, since a row's owner never changes and its id is not  *)
(* given out again.                                                         *)

OwnBoard(b, t) == boards[b].state # "unborn" /\ (boards[b].state = "live" => boards[b].owner = t)
OwnItem(w, t) == items[w].state # "unborn" /\ (items[w].state = "live" => items[w].owner = t)

TaskOwn(c) ==
  /\ task[c].pc \in {"update board", "remove board"} =>
        task[c].row \in Boards /\ OwnBoard(task[c].row, task[c].owner)
  /\ task[c].pc \in {"own", "update item", "remove item"} =>
        task[c].row \in Items /\ OwnItem(task[c].row, task[c].owner)
  /\ task[c].pc \in {"create items", "update item"} /\ task[c].board # Nothing =>
        task[c].board \in Boards /\ OwnBoard(task[c].board, task[c].owner)

OwnInv == TypeInv /\ WidgetOnOwnBoard /\ \A c \in CatalogCalls : TaskOwn(c)

(* What a step may make of a row that was there once. *)
BoardsKept ==
  \A b \in Boards : boards[b].state # "unborn" =>
     /\ boards'[b].state # "unborn"
     /\ boards'[b].state = "live" =>
           boards[b].state = "live" /\ boards'[b].owner = boards[b].owner

ItemsKept ==
  \A w \in Items : items[w].state # "unborn" =>
     /\ items'[w].state # "unborn"
     /\ items'[w].state = "live" =>
           items[w].state = "live" /\ items'[w].owner = items[w].owner

LEMMA BoardsKeptStep ==
  ASSUME TypeInv, CatalogNext
  PROVE  BoardsKept
<1>0. boards \in [Boards -> BoardRow] BY Typed
<1>1. ASSUME NEW c \in CatalogCalls, NEW b \in Boards, InsertBoard(c, b) PROVE BoardsKept
  BY <1>0, <1>1 DEF InsertBoard, BoardsKept
<1>2. ASSUME NEW c \in CatalogCalls, NEW access \in {"restricted", "public"},
             UpdateBoard(c, access) PROVE BoardsKept
  <2>1. CASE boards' = [boards EXCEPT ![task[c].row].access = access]
    BY <1>0, <2>1 DEF BoardsKept, BoardRow
  <2>2. CASE boards' = boards BY <2>2 DEF BoardsKept
  <2> QED BY <1>2, <2>1, <2>2 DEF UpdateBoard
<1>3. ASSUME NEW c \in CatalogCalls, DeleteBoard(c) PROVE BoardsKept
  BY <1>0, <1>3 DEF DeleteBoard, BoardsKept, NoBoard
<1>4. ASSUME NEW t \in Owners, DeleteTenant(t) PROVE BoardsKept
  BY <1>0, <1>4 DEF DeleteTenant, BoardsKept, NoBoard
<1>5. CASE boards' = boards BY <1>5 DEF BoardsKept
<1>6. ASSUME NEW c \in CatalogCalls, CatalogStep(c) PROVE BoardsKept
  BY <1>1, <1>2, <1>3, <1>5, <1>6 DEF CatalogStep, CreateBoard, FindBoard, uniqueSlug,
     CreateItems, ImportCsv, FindItem, assertBoardOwned, UpdateSmartWidget,
     DeleteSmartWidget, CreateSmartWidgets, QueryFails
<1>7. ASSUME NEW w \in Items, Sell(w) PROVE BoardsKept
  BY <1>5, <1>7 DEF Sell
<1> QED BY <1>4, <1>6, <1>7 DEF CatalogNext

LEMMA ItemsKeptStep ==
  ASSUME TypeInv, CatalogNext
  PROVE  ItemsKept
<1>0. items \in [Items -> ItemRow] BY Typed
<1>1. ASSUME NEW c \in CatalogCalls, UpdateSmartWidget(c) PROVE ItemsKept
  <2> DEFINE to == IF task[c].board = Nothing THEN items[task[c].row].board ELSE task[c].board
  <2>1. CASE items' = [items EXCEPT ![task[c].row].board = to]
    <3> HIDE DEF to
    <3> QED BY <1>0, <2>1 DEF ItemsKept, ItemRow
  <2>2. CASE items' = items BY <2>2 DEF ItemsKept
  <2> QED BY <1>1, <2>1, <2>2 DEF UpdateSmartWidget
<1>2. ASSUME NEW c \in CatalogCalls, DeleteSmartWidget(c) PROVE ItemsKept
  BY <1>0, <1>2 DEF DeleteSmartWidget, ItemsKept, NoItem
<1>3. ASSUME NEW c \in CatalogCalls, NEW new \in SUBSET Items, CreateSmartWidgets(c, new)
      PROVE  ItemsKept
  BY <1>0, <1>3 DEF CreateSmartWidgets, ItemsKept
<1>4. ASSUME NEW c \in CatalogCalls, DeleteBoard(c) PROVE ItemsKept
  <2>1. items' = [w \in Items |-> IF items[w].board = task[c].row
                    THEN [items[w] EXCEPT !.board = Nothing] ELSE items[w]]
    BY <1>4 DEF DeleteBoard
  <2>2. ASSUME NEW row \in ItemRow
        PROVE  /\ [row EXCEPT !.board = Nothing].state = row.state
               /\ [row EXCEPT !.board = Nothing].owner = row.owner
    BY DEF ItemRow
  <2>3. ASSUME NEW w \in Items
        PROVE  items'[w].state = items[w].state /\ items'[w].owner = items[w].owner
    <3>1. items[w] \in ItemRow BY <1>0
    <3>2. items'[w] = IF items[w].board = task[c].row
                      THEN [items[w] EXCEPT !.board = Nothing] ELSE items[w]
      BY <2>1
    <3> QED BY <2>2, <3>1, <3>2
  <2> QED BY <2>3 DEF ItemsKept
<1>5. ASSUME NEW w \in Items, Sell(w) PROVE ItemsKept
  BY <1>0, <1>5 DEF Sell, ItemsKept, NoItem
<1>6. ASSUME NEW t \in Owners, DeleteTenant(t) PROVE ItemsKept
  BY <1>0, <1>6 DEF DeleteTenant, ItemsKept, NoItem
<1>7. CASE items' = items BY <1>7 DEF ItemsKept
<1>8. ASSUME NEW c \in CatalogCalls, CatalogStep(c) PROVE ItemsKept
  <2>1. \/ \E new \in SUBSET Items : CreateSmartWidgets(c, new)
        \/ UpdateSmartWidget(c) \/ DeleteSmartWidget(c) \/ DeleteBoard(c)
        \/ items' = items
    BY <1>8 DEF CatalogStep, CreateBoard, FindBoard, uniqueSlug, InsertBoard, UpdateBoard,
       CreateItems, ImportCsv, FindItem, assertBoardOwned, QueryFails
  <2> QED BY <1>1, <1>2, <1>3, <1>4, <1>7, <2>1
<1> QED BY <1>5, <1>6, <1>8 DEF CatalogNext

LEMMA TaskOwnKept ==
  ASSUME BoardsKept, ItemsKept, NEW c \in CatalogCalls, task'[c] = task[c], TaskOwn(c)
  PROVE  TaskOwn(c)'
<1>1. ASSUME NEW b \in Boards, NEW t, OwnBoard(b, t) PROVE OwnBoard(b, t)'
  BY <1>1 DEF BoardsKept, OwnBoard
<1>2. ASSUME NEW w \in Items, NEW t, OwnItem(w, t) PROVE OwnItem(w, t)'
  BY <1>2 DEF ItemsKept, OwnItem
<1>3. PICK r : r = task[c] OBVIOUS
<1>4. /\ r.pc \in {"update board", "remove board"} =>
            r.row \in Boards /\ OwnBoard(r.row, r.owner)
      /\ r.pc \in {"own", "update item", "remove item"} =>
            r.row \in Items /\ OwnItem(r.row, r.owner)
      /\ r.pc \in {"create items", "update item"} /\ r.board # Nothing =>
            r.board \in Boards /\ OwnBoard(r.board, r.owner)
  BY <1>3 DEF TaskOwn
<1>5. r = task'[c] BY <1>3
<1> QED BY <1>1, <1>2, <1>4, <1>5 DEF TaskOwn, OwnBoard, OwnItem

(* A step of one call leaves the records of the others. *)
LEMMA OthersTask ==
  ASSUME TypeInv, NEW c \in CatalogCalls, CatalogStep(c),
         NEW d \in CatalogCalls, d # c
  PROVE  task'[d] = task[d]
BY Typed DEF TypeInv, CatalogTypeOK, CatalogStep, CreateBoard, FindBoard, uniqueSlug, InsertBoard,
   UpdateBoard, DeleteBoard, CreateItems, ImportCsv, FindItem, assertBoardOwned,
   UpdateSmartWidget, DeleteSmartWidget, CreateSmartWidgets, QueryFails, Call, Ended

LEMMA EndedOwn ==
  ASSUME TypeInv, NEW c \in CatalogCalls, NEW how \in {"done", "failed"}, Ended(c, how)
  PROVE  TaskOwn(c)' /\ task'[c].pc = how
<1>1. task'[c] = [NoTask EXCEPT !.pc = how] BY DEF TypeInv, CatalogTypeOK, Ended
<1>2. task'[c].pc = how BY <1>1 DEF NoTask
<1> QED BY <1>2 DEF TaskOwn

LEMMA OwnStep ==
  ASSUME OwnInv, NEW c \in CatalogCalls, CatalogStep(c), BoardsKept, ItemsKept
  PROVE  TaskOwn(c)'
<1>0. TypeInv /\ TaskOwn(c) /\ task \in [CatalogCalls -> Task]
  BY DEF OwnInv, TypeInv, CatalogTypeOK
<1>1. ASSUME NEW t \in Owners, NEW base \in Bases, CreateBoard(c, t, base) PROVE TaskOwn(c)'
  <2>1. task'[c].pc = "slug" BY <1>0, <1>1 DEF CreateBoard, Call, NoTask
  <2> QED BY <2>1 DEF TaskOwn
<1>2. ASSUME NEW t \in Owners, NEW b \in Boards, NEW op \in {"update board", "remove board"},
             FindBoard(c, op, t, b) PROVE TaskOwn(c)'
  <2>1. task'[c].pc = op /\ task'[c].row = b /\ task'[c].owner = t /\ boards' = boards
    BY <1>0, <1>2 DEF FindBoard, Call, NoTask
  <2>2. OwnBoard(b, t)' BY <1>2, <2>1 DEF FindBoard, GetBoardById, OwnBoard
  <2> QED BY <2>1, <2>2 DEF TaskOwn
<1>3. ASSUME NEW t \in Owners, NEW b \in Boards \cup {Nothing}, NEW n, CreateItems(c, t, b, n)
      PROVE  TaskOwn(c)'
  <2>1. task'[c].pc = "create items" /\ task'[c].board = b /\ task'[c].owner = t /\ boards' = boards
    BY <1>0, <1>3 DEF CreateItems, Call, NoTask
  <2>2. b # Nothing => b \in Boards /\ OwnBoard(b, t)'
    BY <1>3, <2>1 DEF CreateItems, GetBoardExistsForUser, OwnBoard
  <2> QED BY <2>1, <2>2 DEF TaskOwn
<1>4. ASSUME NEW t \in Owners, NEW w \in Items, NEW b \in Boards \cup {Nothing},
             NEW op \in {"update item", "remove item"}, FindItem(c, op, t, w, b),
             op = "remove item" => b = Nothing
      PROVE  TaskOwn(c)'
  <2>1. /\ task'[c].pc = (IF b = Nothing THEN op ELSE "own") /\ task'[c].row = w
        /\ task'[c].owner = t /\ task'[c].board = b /\ items' = items
    BY <1>0, <1>4 DEF FindItem, Call, NoTask
  <2>2. OwnItem(w, t)' BY <1>4, <2>1 DEF FindItem, GetSmartWidgetById, OwnItem
  <2> QED BY <1>4, <2>1, <2>2 DEF TaskOwn
<1>5. CASE uniqueSlug(c)
  <2>1. task'[c].pc \in {"slug", "insert"} BY ZenonT(60), <1>0, <1>5 DEF uniqueSlug, Task
  <2> QED BY <2>1 DEF TaskOwn
<1>6. CASE assertBoardOwned(c)
  <2>1. CASE /\ GetBoardExistsForUser(task[c].board, task[c].owner)
             /\ task' = [task EXCEPT ![c].pc = "update item"]
    <3>1. /\ task'[c].pc = "update item" /\ task'[c].row = task[c].row
          /\ task'[c].owner = task[c].owner /\ task'[c].board = task[c].board
      BY <1>0, <2>1 DEF Task
    <3>2. task[c].pc = "own" /\ UNCHANGED <<boards, items>> BY <1>6 DEF assertBoardOwned
    <3>3. task[c].row \in Items /\ OwnItem(task[c].row, task[c].owner)
      BY <1>0, <3>2 DEF TaskOwn
    <3>4. task[c].board \in Boards /\ OwnBoard(task[c].board, task[c].owner)
      BY <2>1 DEF GetBoardExistsForUser, OwnBoard
    <3> QED BY <3>1, <3>2, <3>3, <3>4 DEF TaskOwn, OwnBoard, OwnItem
  <2>2. CASE Ended(c, "failed") BY <1>0, <2>2, EndedOwn
  <2> QED BY <1>6, <2>1, <2>2 DEF assertBoardOwned
<1>7. ASSUME NEW b \in Boards, InsertBoard(c, b) PROVE TaskOwn(c)'
  <2>1. CASE task' = [task EXCEPT ![c].pc = "conflict"]
    <3>1. task'[c].pc = "conflict" BY <1>0, <2>1 DEF Task
    <3> QED BY <3>1 DEF TaskOwn
  <2>2. CASE Ended(c, "done") \/ Ended(c, "failed") BY <1>0, <2>2, EndedOwn
  <2> QED BY <1>7, <2>1, <2>2 DEF InsertBoard
<1>8. CASE Ended(c, "done") \/ Ended(c, "failed")
  BY <1>0, <1>8, EndedOwn
<1>9. ASSUME NEW t \in Owners, NEW b \in Boards \cup {Nothing}, NEW f \in Files,
             ImportCsv(c, t, b, f) PROVE TaskOwn(c)'
  BY <1>3, <1>9 DEF ImportCsv
<1>10. ASSUME NEW t \in Owners, NEW b \in Boards \cup {Nothing}, CreateItems(c, t, b, 1)
       PROVE  TaskOwn(c)'
  BY <1>3, <1>10
<1>11. ASSUME NEW t \in Owners, NEW w \in Items, NEW b \in Boards \cup {Nothing},
              FindItem(c, "update item", t, w, b) PROVE TaskOwn(c)'
  BY <1>4, <1>11
<1>12. ASSUME NEW t \in Owners, NEW w \in Items, FindItem(c, "remove item", t, w, Nothing)
       PROVE  TaskOwn(c)'
  BY <1>4, <1>12
<1>13. CASE \/ \E access \in {"restricted", "public"} : UpdateBoard(c, access)
            \/ DeleteBoard(c) \/ UpdateSmartWidget(c) \/ DeleteSmartWidget(c)
            \/ \E new \in SUBSET Items : CreateSmartWidgets(c, new)
            \/ QueryFails(c)
  <2>1. Ended(c, "done") \/ Ended(c, "failed")
    BY <1>13 DEF UpdateBoard, DeleteBoard, UpdateSmartWidget, DeleteSmartWidget,
       CreateSmartWidgets, QueryFails
  <2> QED BY <2>1, <1>8
<1> QED
  BY <1>1, <1>2, <1>5, <1>6, <1>7, <1>9, <1>10, <1>11, <1>12, <1>13 DEF CatalogStep

(* A step that adds no widget and takes away no board leaves each widget on  *)
(* a board of its tenant.                                                   *)
LEMMA SameBoards ==
  ASSUME OwnInv, BoardsKept,
         \A b \in Boards : boards[b].state = "live" => boards'[b].state = "live",
         items' = items
  PROVE  WidgetOnOwnBoard'
<1>1. \A w \in Items : items[w].board \in Boards \cup {Nothing}
  BY Typed DEF OwnInv, ItemRow
<1> QED BY <1>1 DEF OwnInv, WidgetOnOwnBoard, BoardsKept

LEMMA WidgetStep ==
  ASSUME OwnInv, CatalogNext, BoardsKept, ItemsKept
  PROVE  WidgetOnOwnBoard'
<1>0. /\ boards \in [Boards -> BoardRow] /\ items \in [Items -> ItemRow] /\ TypeInv
      /\ \A w \in Items : items[w].board \in Boards \cup {Nothing}
      /\ \A c \in CatalogCalls : task[c].board \in Boards \cup {Nothing}
  BY Typed DEF OwnInv, ItemRow, Task
<1>1. ASSUME NEW c \in CatalogCalls, NEW b \in Boards, InsertBoard(c, b)
      PROVE  WidgetOnOwnBoard'
  <2>1. \A a \in Boards : boards[a].state = "live" => boards'[a].state = "live"
    BY <1>0, <1>1 DEF InsertBoard
  <2> QED BY <1>1, <2>1, SameBoards DEF InsertBoard
<1>2. ASSUME NEW c \in CatalogCalls, NEW access \in {"restricted", "public"},
             UpdateBoard(c, access) PROVE WidgetOnOwnBoard'
  <2>1. CASE boards' = [boards EXCEPT ![task[c].row].access = access]
    <3>1. \A a \in Boards : boards[a].state = "live" => boards'[a].state = "live"
      BY <1>0, <2>1 DEF BoardRow
    <3> QED BY <1>2, <3>1, SameBoards DEF UpdateBoard
  <2>2. CASE boards' = boards BY <1>2, <2>2, SameBoards DEF UpdateBoard
  <2> QED BY <1>2, <2>1, <2>2 DEF UpdateBoard
<1>3. ASSUME NEW c \in CatalogCalls, DeleteBoard(c) PROVE WidgetOnOwnBoard'
  <2> DEFINE b == task[c].row
  <2>1. /\ boards' = [boards EXCEPT ![b] = [NoBoard EXCEPT !.state = "removed"]]
        /\ items' = [w \in Items |-> IF items[w].board = b THEN [items[w] EXCEPT !.board = Nothing]
                                      ELSE items[w]]
    BY <1>3 DEF DeleteBoard
  <2>2. ASSUME NEW w \in Items, items'[w].state = "live", items'[w].board # Nothing
        PROVE  boards'[items'[w].board].state = "live"
               /\ boards'[items'[w].board].owner = items'[w].owner
    <3>1. items'[w] = items[w] /\ items[w].board # b
      BY <1>0, <2>1, <2>2 DEF ItemRow
    <3>2. boards'[items[w].board] = boards[items[w].board]
      BY <1>0, <2>1, <2>2, <3>1
    <3> QED BY <2>2, <3>1, <3>2 DEF OwnInv, WidgetOnOwnBoard
  <2> QED BY <2>2 DEF WidgetOnOwnBoard
<1>4. ASSUME NEW c \in CatalogCalls, NEW new \in SUBSET Items, CreateSmartWidgets(c, new)
      PROVE  WidgetOnOwnBoard'
  <2>1. boards' = boards BY <1>4 DEF CreateSmartWidgets
  <2>2. CASE /\ task[c].board # Nothing => boards[task[c].board].state = "live"
             /\ items' = [w \in Items |-> IF w \in new
                            THEN [state |-> "live", owner |-> task[c].owner, board |-> task[c].board]
                            ELSE items[w]]
    <3>1. task[c].board # Nothing => boards[task[c].board].owner = task[c].owner
      BY <1>4, <2>2 DEF OwnInv, TaskOwn, OwnBoard, CreateSmartWidgets
    <3> QED BY <2>1, <2>2, <3>1 DEF OwnInv, WidgetOnOwnBoard
  <2>3. CASE items' = items BY <2>1, <2>3 DEF OwnInv, WidgetOnOwnBoard
  <2> QED BY <1>4, <2>2, <2>3 DEF CreateSmartWidgets
<1>5. ASSUME NEW c \in CatalogCalls, UpdateSmartWidget(c) PROVE WidgetOnOwnBoard'
  <2> DEFINE w == task[c].row  b == task[c].board
  <2>1. boards' = boards /\ task[c].pc = "update item" BY <1>5 DEF UpdateSmartWidget
  <2>2. CASE /\ items[w].state = "live" /\ (b # Nothing => boards[b].state = "live")
             /\ items' = [items EXCEPT ![w].board = IF b = Nothing THEN @ ELSE b]
    <3>1. w \in Items /\ items[w].owner = task[c].owner
      BY <2>1, <2>2 DEF OwnInv, TaskOwn, OwnItem
    <3>2. b # Nothing => boards[b].owner = task[c].owner
      BY <2>1, <2>2 DEF OwnInv, TaskOwn, OwnBoard
    <3>3. /\ items'[w].owner = items[w].owner
          /\ items'[w].board = (IF b = Nothing THEN items[w].board ELSE b)
          /\ \A v \in Items : v # w => items'[v] = items[v]
      BY <1>0, <2>2, <3>1 DEF ItemRow
    <3>4. WidgetOnOwnBoard BY DEF OwnInv
    <3>5. ASSUME NEW v \in Items, items'[v].state = "live", items'[v].board # Nothing
          PROVE  boards[items'[v].board].state = "live"
                 /\ boards[items'[v].board].owner = items'[v].owner
      <4>1. CASE v = w /\ b # Nothing BY <2>2, <3>1, <3>2, <3>3, <4>1
      <4>2. CASE v = w /\ b = Nothing
        BY <2>2, <3>1, <3>3, <3>4, <3>5, <4>2 DEF WidgetOnOwnBoard
      <4>3. CASE v # w BY <3>3, <3>4, <3>5, <4>3 DEF WidgetOnOwnBoard
      <4> QED BY <4>1, <4>2, <4>3
    <3> QED BY <2>1, <3>5 DEF WidgetOnOwnBoard
  <2>3. CASE items' = items BY <2>1, <2>3 DEF OwnInv, WidgetOnOwnBoard
  <2> QED BY <1>5, <2>2, <2>3 DEF UpdateSmartWidget
<1>6. ASSUME NEW w, items' = [items EXCEPT ![w] = [NoItem EXCEPT !.state = "removed"]],
             boards' = boards PROVE WidgetOnOwnBoard'
  BY <1>0, <1>6 DEF OwnInv, WidgetOnOwnBoard, NoItem
<1>7. ASSUME NEW t \in Owners, DeleteTenant(t) PROVE WidgetOnOwnBoard'
  <2>1. /\ boards' = [b \in Boards |-> IF boards[b].owner = t
                        THEN [NoBoard EXCEPT !.state = "removed"] ELSE boards[b]]
        /\ items' = [w \in Items |-> IF items[w].owner = t
                        THEN [NoItem EXCEPT !.state = "removed"] ELSE items[w]]
    BY <1>7 DEF DeleteTenant
  <2>2. ASSUME NEW w \in Items, items'[w].state = "live", items'[w].board # Nothing
        PROVE  boards'[items'[w].board].state = "live"
               /\ boards'[items'[w].board].owner = items'[w].owner
    <3>1. items'[w] = items[w] /\ items[w].owner # t BY <2>1, <2>2 DEF NoItem
    <3>2. boards[items[w].board].owner = items[w].owner /\ items[w].board \in Boards
      BY <1>0, <2>2, <3>1 DEF OwnInv, WidgetOnOwnBoard
    <3>3. boards'[items[w].board] = boards[items[w].board] BY <2>1, <3>1, <3>2
    <3> QED BY <2>2, <3>1, <3>3 DEF OwnInv, WidgetOnOwnBoard
  <2> QED BY <2>2 DEF WidgetOnOwnBoard
<1>8. CASE boards' = boards /\ items' = items
  BY <1>8 DEF OwnInv, WidgetOnOwnBoard
<1>9. ASSUME NEW c \in CatalogCalls, CatalogStep(c) PROVE WidgetOnOwnBoard'
  BY <1>1, <1>2, <1>3, <1>4, <1>5, <1>6, <1>8, <1>9 DEF CatalogStep, CreateBoard, FindBoard,
     uniqueSlug, CreateItems, ImportCsv, FindItem, assertBoardOwned, DeleteSmartWidget,
     QueryFails
<1>10. ASSUME NEW w \in Items, Sell(w) PROVE WidgetOnOwnBoard'
  BY <1>6, <1>10 DEF Sell
<1> QED BY <1>7, <1>9, <1>10 DEF CatalogNext

LEMMA OwnInvStep == OwnInv /\ [CatalogNext]_catalogVars => OwnInv'
<1> SUFFICES ASSUME OwnInv, [CatalogNext]_catalogVars PROVE OwnInv'
  OBVIOUS
<1>0. TypeInv BY DEF OwnInv
<1>1. TypeInv' BY <1>0, CatalogTypeStep
<1>2. CASE CatalogNext
  <2>1. BoardsKept /\ ItemsKept BY <1>0, <1>2, BoardsKeptStep, ItemsKeptStep
  <2>2. WidgetOnOwnBoard' BY <1>2, <2>1, WidgetStep
  <2>3. ASSUME NEW d \in CatalogCalls PROVE TaskOwn(d)'
    <3>0. TaskOwn(d) BY DEF OwnInv
    <3>1. CASE task'[d] = task[d] BY <2>1, <3>0, <3>1, TaskOwnKept
    <3>2. ASSUME NEW c \in CatalogCalls, CatalogStep(c) PROVE TaskOwn(d)'
      <4>1. CASE c = d BY <2>1, <3>2, <4>1, OwnStep
      <4>2. CASE c # d BY <1>0, <3>1, <3>2, <4>2, OthersTask
      <4> QED BY <4>1, <4>2
    <3> QED BY <1>2, <3>1, <3>2 DEF CatalogNext, Sell, DeleteTenant
  <2> QED BY <1>1, <2>2, <2>3 DEF OwnInv
<1>3. CASE UNCHANGED catalogVars
  BY <1>1, <1>3 DEF catalogVars, OwnInv, WidgetOnOwnBoard, TaskOwn, OwnBoard, OwnItem
<1> QED BY <1>2, <1>3

LEMMA OwnInvInit == CatalogInit => OwnInv
<1> SUFFICES ASSUME CatalogInit PROVE OwnInv
  OBVIOUS
<1>1. \A c \in CatalogCalls : task[c].pc = "new"
  <2>1. NoTask.pc = "new" BY DEF NoTask
  <2> QED BY <2>1 DEF CatalogInit
<1>2. TypeInv
  <2>1. Based BY <1>1 DEF Based
  <2> QED BY <2>1, CatalogInitTypeOK DEF TypeInv
<1>3. \A c \in CatalogCalls : TaskOwn(c) BY <1>1 DEF TaskOwn
<1>4. ASSUME NEW w \in Items, items[w].state = "live", items[w].board # Nothing
      PROVE  boards[items[w].board].state = "live"
             /\ boards[items[w].board].owner = items[w].owner
  <2>1. /\ w \in DOMAIN FirstItems /\ items[w].board = FirstItems[w].board
        /\ items[w].owner = FirstItems[w].owner
    BY <1>4 DEF CatalogInit, NoItem
  <2>2. /\ FirstItems[w].board \in DOMAIN FirstBoards
        /\ FirstBoards[FirstItems[w].board].owner = FirstItems[w].owner
        /\ DOMAIN FirstBoards \subseteq Boards
    BY <1>4, <2>1, CatalogAssumption
  <2>3. /\ boards[FirstItems[w].board].state = "live"
        /\ boards[FirstItems[w].board].owner = FirstBoards[FirstItems[w].board].owner
    BY <2>2 DEF CatalogInit, NoBoard
  <2> QED BY <2>1, <2>2, <2>3
<1> QED BY <1>2, <1>3, <1>4 DEF OwnInv, WidgetOnOwnBoard

(* A widget lies on a board that is there and is its own tenant's, in every  *)
(* reachable state: between the look at the owner and the write the board    *)
(* may go, but it never becomes another tenant's.                           *)
THEOREM WidgetBoardCorrect == CatalogSpec => []WidgetOnOwnBoard
<1>1. OwnInv => WidgetOnOwnBoard BY DEF OwnInv
<1> QED BY <1>1, OwnInvInit, OwnInvStep, PTL DEF CatalogSpec

-----------------------------------------------------------------------------
(* Who changes a row.                                                        *)

LEMMA WriterIsOwner ==
  ASSUME OwnInv, NEW c \in CatalogCalls, CatalogStep(c)
  PROVE  /\ \A b \in Boards : boards[b].state = "live" /\ boards'[b] # boards[b] =>
               task[c].owner = boards[b].owner /\ task'[c].pc # task[c].pc
         /\ \A w \in Items : items[w].state = "live" /\ items'[w] # items[w] =>
               task[c].owner = items[w].owner /\ task'[c].pc # task[c].pc
<1> DEFINE Goal ==
      /\ \A b \in Boards : boards[b].state = "live" /\ boards'[b] # boards[b] =>
            task[c].owner = boards[b].owner /\ task'[c].pc # task[c].pc
      /\ \A w \in Items : items[w].state = "live" /\ items'[w] # items[w] =>
            task[c].owner = items[w].owner /\ task'[c].pc # task[c].pc
<1>0. /\ boards \in [Boards -> BoardRow] /\ items \in [Items -> ItemRow] /\ TypeInv
      /\ TaskOwn(c)
  BY Typed DEF OwnInv
<1>1. CASE boards' = boards /\ items' = items
  BY <1>1
<1>2. ASSUME NEW b \in Boards, InsertBoard(c, b) PROVE Goal
  BY <1>0, <1>2 DEF InsertBoard
<1>3. ASSUME NEW access \in {"restricted", "public"}, UpdateBoard(c, access) PROVE Goal
  <2>1. task[c].pc = "update board" /\ items' = items BY <1>3 DEF UpdateBoard
  <2>2. \A b \in Boards : b # task[c].row => boards'[b] = boards[b]
    BY <1>0, <1>3 DEF UpdateBoard
  <2>3. boards' = boards \/ task'[c].pc = "done"
    BY <1>0, <1>3, EndedOwn DEF UpdateBoard
  <2>4. boards[task[c].row].state = "live" => boards[task[c].row].owner = task[c].owner
    BY <1>0, <2>1 DEF TaskOwn, OwnBoard
  <2> QED BY <2>1, <2>2, <2>3, <2>4
<1>4. CASE DeleteBoard(c)
  <2>1. /\ task[c].pc = "remove board"
        /\ boards' = [boards EXCEPT ![task[c].row] = [NoBoard EXCEPT !.state = "removed"]]
        /\ items' = [w \in Items |-> IF items[w].board = task[c].row
                        THEN [items[w] EXCEPT !.board = Nothing] ELSE items[w]]
    BY <1>4 DEF DeleteBoard
  <2>2. task'[c].pc # task[c].pc BY <1>0, <1>4, <2>1, EndedOwn DEF DeleteBoard
  <2>3. /\ task[c].row \in Boards
        /\ boards[task[c].row].state = "live" => boards[task[c].row].owner = task[c].owner
    BY <1>0, <2>1 DEF TaskOwn, OwnBoard
  <2>4. ASSUME NEW w \in Items, items[w].state = "live", items'[w] # items[w]
        PROVE  task[c].owner = items[w].owner
    <3>1. items[w].board = task[c].row BY <2>1, <2>4
    <3>2. items[w].board # Nothing BY <2>3, <3>1, CatalogAssumption
    <3> QED BY <2>3, <2>4, <3>1, <3>2 DEF OwnInv, WidgetOnOwnBoard
  <2>5. ASSUME NEW b \in Boards, boards[b].state = "live", boards'[b] # boards[b]
        PROVE  task[c].owner = boards[b].owner
    BY <1>0, <2>1, <2>3, <2>5
  <2> QED BY <2>2, <2>4, <2>5
<1>5. CASE UpdateSmartWidget(c) \/ DeleteSmartWidget(c)
  <2>1. /\ task[c].pc \in {"update item", "remove item"} /\ boards' = boards
        /\ \A w \in Items : w # task[c].row => items'[w] = items[w]
    BY <1>0, <1>5 DEF UpdateSmartWidget, DeleteSmartWidget
  <2>2. items' = items \/ task'[c].pc = "done"
    BY <1>0, <1>5, EndedOwn DEF UpdateSmartWidget, DeleteSmartWidget
  <2>3. items[task[c].row].state = "live" => items[task[c].row].owner = task[c].owner
    BY <1>0, <2>1 DEF TaskOwn, OwnItem
  <2> QED BY <2>1, <2>2, <2>3
<1>6. ASSUME NEW new \in SUBSET Items, CreateSmartWidgets(c, new) PROVE Goal
  BY <1>0, <1>6 DEF CreateSmartWidgets
<1> QED
  BY <1>1, <1>2, <1>3, <1>4, <1>5, <1>6 DEF CatalogStep, CreateBoard, FindBoard, uniqueSlug,
     CreateItems, ImportCsv, FindItem, assertBoardOwned, QueryFails

LEMMA OwnersStep ==
  ASSUME OwnInv, CatalogNext
  PROVE  /\ \A b \in Boards : boards[b].state = "live" /\ boards'[b] # boards[b] =>
               \/ \E c \in CatalogCalls : /\ task[c].owner = boards[b].owner
                                          /\ task'[c].pc # task[c].pc
               \/ boards[b].owner \notin tenants'
         /\ \A w \in Items : items[w].state = "live" /\ items'[w] # items[w] =>
               \/ \E c \in CatalogCalls : /\ task[c].owner = items[w].owner
                                          /\ task'[c].pc # task[c].pc
               \/ items[w].owner \notin tenants'
               \/ items'[w].state = "removed" /\ task' = task
<1>0. boards \in [Boards -> BoardRow] /\ items \in [Items -> ItemRow]
  BY Typed DEF OwnInv
<1>1. ASSUME NEW w \in Items, Sell(w)
      PROVE  /\ boards' = boards /\ task' = task
             /\ \A v \in Items : items'[v] # items[v] => items'[v].state = "removed"
  BY <1>0, <1>1 DEF Sell, NoItem
<1>2. ASSUME NEW t \in Owners, DeleteTenant(t)
      PROVE  /\ \A b \in Boards : boards'[b] # boards[b] => boards[b].owner \notin tenants'
             /\ \A w \in Items : items'[w] # items[w] => items[w].owner \notin tenants'
  BY <1>0, <1>2 DEF DeleteTenant
<1> QED BY <1>1, <1>2, WriterIsOwner DEF CatalogNext

(* A board or a widget changes only by a call of its own tenant, by a sale   *)
(* that no call makes, or with the tenant, though every write names the row  *)
(* by its id alone: another tenant's call neither changes nor removes it.    *)
THEOREM OwnersChangeCorrect == CatalogSpec => OnlyOwnersChange
<1>1. OwnInv /\ [CatalogNext]_catalogVars =>
        [LET mine(row) == \E c \in CatalogCalls : /\ task[c].owner = row.owner
                                                  /\ task'[c].pc # task[c].pc
             gone(row) == row.owner \notin tenants' IN
         /\ \A b \in Boards : boards[b].state = "live" /\ boards'[b] # boards[b] =>
               mine(boards[b]) \/ gone(boards[b])
         /\ \A w \in Items : items[w].state = "live" /\ items'[w] # items[w] =>
               \/ mine(items[w]) \/ gone(items[w])
               \/ items'[w].state = "removed" /\ task' = task]_catalogVars
  BY OwnersStep
<1> QED BY <1>1, OwnInvInit, OwnInvStep, PTL DEF CatalogSpec, OnlyOwnersChange

-----------------------------------------------------------------------------
(* Slugs.  A creation that met no other one keeps the slug it found free;    *)
(* the slugs taken from the clock are those of its past values.             *)

Naming(c) == task[c].pc \in {"slug", "insert"}

SlugInv ==
  /\ \A c \in CatalogCalls : task[c].pc = "insert" /\ c \notin rivals =>
        GetBoardIdBySlug(task[c].slug) = {}
  /\ \A c, d \in CatalogCalls : c # d /\ Naming(c) /\ Naming(d) => c \in rivals
  /\ SlugConflictOnlyIfRaced
  /\ \A b \in Boards, base \in Bases, n \in Nat :
        boards[b].state = "live" /\ boards[b].slug = Stamped(base, n) => n < clock
  /\ \A c \in CatalogCalls, base \in Bases, n \in Nat :
        Naming(c) /\ task[c].slug = Stamped(base, n) => n < clock

LEMMA NotStamped ==
  \A a, b, s, n : Slug(a, s) # Stamped(b, n) /\ <<a, s>> # Stamped(b, n)
BY DEF Slug, Stamped

LEMMA StampedOnce == \A a, b, m, n : Stamped(a, m) = Stamped(b, n) => m = n
BY DEF Stamped

(* A step by which no board gets a slug and nobody starts to name one. *)
LEMMA SlugFrame ==
  ASSUME SlugInv, TypeInv,
         \A b \in Boards : boards'[b].state = "live" =>
            boards[b].state = "live" /\ boards'[b].slug = boards[b].slug,
         \A c \in CatalogCalls : \/ task'[c] = task[c]
                                 \/ task'[c].pc \notin {"slug", "insert", "conflict"},
         clock' = clock, rivals' = rivals
  PROVE  SlugInv'
<1>1. \A s : GetBoardIdBySlug(s) = {} => GetBoardIdBySlug(s)' = {}
  BY DEF GetBoardIdBySlug
<1>2. ASSUME NEW c \in CatalogCalls, task'[c].pc = "insert", c \notin rivals
      PROVE  GetBoardIdBySlug(task[c].slug)' = {}
  <2>1. task'[c] = task[c] BY <1>2
  <2>2. GetBoardIdBySlug(task[c].slug) = {} BY <1>2, <2>1 DEF SlugInv
  <2> QED BY <2>1, <2>2 DEF GetBoardIdBySlug
<1>3. \A c \in CatalogCalls : Naming(c)' => Naming(c) /\ task'[c] = task[c]
  BY DEF Naming
<1>4. \A c, d \in CatalogCalls : c # d /\ Naming(c)' /\ Naming(d)' => c \in rivals
  BY <1>3 DEF SlugInv
<1>5. SlugConflictOnlyIfRaced' BY DEF SlugInv, SlugConflictOnlyIfRaced
<1>6. \A b \in Boards, base \in Bases, n \in Nat :
         boards'[b].state = "live" /\ boards'[b].slug = Stamped(base, n) => n < clock
  BY DEF SlugInv
<1>7. \A c \in CatalogCalls, base \in Bases, n \in Nat :
         Naming(c)' /\ task'[c].slug = Stamped(base, n) => n < clock
  BY <1>3 DEF SlugInv
<1> QED BY <1>2, <1>4, <1>5, <1>6, <1>7 DEF SlugInv

LEMMA SlugCreate ==
  ASSUME SlugInv, TypeInv, NEW c \in CatalogCalls, NEW t \in Owners, NEW base \in Bases,
         CreateBoard(c, t, base)
  PROVE  SlugInv'
<1>1. /\ task'[c].pc = "slug" /\ task'[c].slug = Slug(base, Plain)
      /\ \A d \in CatalogCalls : d # c => task'[d] = task[d]
      /\ UNCHANGED <<boards, clock>>
  BY DEF CreateBoard, Call, NoTask, TypeInv, CatalogTypeOK
<1>2. /\ rivals \subseteq rivals'
      /\ \A d \in CatalogCalls : Naming(d) => d \in rivals' /\ c \in rivals'
  BY DEF CreateBoard, Naming
<1>3. task[c].pc = "new" BY DEF CreateBoard, Call
<1>4. ASSUME NEW d \in CatalogCalls, task'[d].pc = "insert", d \notin rivals'
      PROVE  GetBoardIdBySlug(task[d].slug)' = {}
  <2>1. d # c /\ task'[d] = task[d] /\ d \notin rivals BY <1>1, <1>2, <1>4
  <2>2. GetBoardIdBySlug(task[d].slug) = {} BY <1>4, <2>1 DEF SlugInv
  <2> QED BY <1>1, <2>1, <2>2 DEF GetBoardIdBySlug
<1>5. \A d, e \in CatalogCalls : d # e /\ Naming(d)' /\ Naming(e)' => d \in rivals'
  BY <1>1, <1>2 DEF Naming
<1>6. SlugConflictOnlyIfRaced'
  BY <1>1, <1>2 DEF SlugInv, SlugConflictOnlyIfRaced
<1>7. \A d \in CatalogCalls, a \in Bases, n \in Nat :
         Naming(d)' /\ task'[d].slug = Stamped(a, n) => n < clock'
  BY <1>1, NotStamped DEF SlugInv, Naming
<1> QED BY <1>1, <1>4, <1>5, <1>6, <1>7 DEF SlugInv

LEMMA SlugChosen ==
  ASSUME SlugInv, TypeInv, NEW c \in CatalogCalls, uniqueSlug(c)
  PROVE  SlugInv'
<1>0. /\ task \in [CatalogCalls -> Task] /\ task[c].pc = "slug" /\ UNCHANGED <<boards, rivals>>
  BY DEF TypeInv, CatalogTypeOK, uniqueSlug
<1>1. /\ \A d \in CatalogCalls : d # c => task'[d] = task[d]
      /\ task'[c].pc \in {"slug", "insert"}
  BY ZenonT(60), <1>0 DEF uniqueSlug, Task
<1>2. \/ clock' = clock /\ task'[c].slug = task[c].slug /\ GetBoardIdBySlug(task[c].slug) = {}
      \/ /\ clock' = clock /\ task'[c].pc = "slug"
         /\ \E s \in Suffixes : task'[c].slug = Slug(task[c].base, s)
      \/ clock' = clock + 1 /\ task'[c].slug = Stamped(task[c].base, clock)
  <2>1. CASE /\ task' = [task EXCEPT ![c].pc = "insert"] /\ clock' = clock
             /\ GetBoardIdBySlug(task[c].slug) = {}
    BY <1>0, <2>1 DEF Task
  <2>2. ASSUME NEW s \in Suffixes, clock' = clock,
               task' = [task EXCEPT ![c].slug = Slug(task[c].base, s), ![c].tries = @ - 1]
        PROVE  task'[c].pc = "slug" /\ task'[c].slug = Slug(task[c].base, s)
    BY <1>0, <2>2 DEF Task
  <2>3. ASSUME task' = [task EXCEPT ![c].pc = "insert", ![c].slug = Stamped(task[c].base, clock)]
        PROVE  task'[c].slug = Stamped(task[c].base, clock)
    BY <1>0, <2>3 DEF Task
  <2> QED BY <2>1, <2>2, <2>3 DEF uniqueSlug
<1>3. clock \in Nat /\ (clock' = clock \/ clock' = clock + 1)
  BY <1>2, Typed
<1>4. \A d \in CatalogCalls : Naming(d)' => Naming(d)
  BY <1>0, <1>1 DEF Naming
<1>5. \A b \in Boards, base \in Bases, n \in Nat :
         boards'[b].state = "live" /\ boards'[b].slug = Stamped(base, n) => n < clock'
  BY <1>0, <1>3 DEF SlugInv
<1>6. ASSUME NEW d \in CatalogCalls, NEW base \in Bases, NEW n \in Nat,
             Naming(d)', task'[d].slug = Stamped(base, n)
      PROVE  n < clock'
  <2>1. task'[d].slug = task[d].slug => n < clock BY <1>4, <1>6 DEF SlugInv
  <2>2. CASE d # c \/ task'[c].slug = task[c].slug
    <3>1. task'[d].slug = task[d].slug BY <1>1, <2>2
    <3> QED BY <1>3, <2>1, <3>1
  <2>3. CASE d = c /\ \E s \in Suffixes : task'[c].slug = Slug(task[c].base, s)
    BY <1>6, <2>3, NotStamped
  <2>4. CASE d = c /\ clock' = clock + 1 /\ task'[c].slug = Stamped(task[c].base, clock)
    <3>1. n = clock BY <1>6, <2>4, StampedOnce
    <3> QED BY <1>3, <2>4, <3>1
  <2> QED BY <1>2, <2>2, <2>3, <2>4
<1>7. ASSUME NEW d \in CatalogCalls, task'[d].pc = "insert", d \notin rivals
      PROVE  GetBoardIdBySlug(task[d].slug)' = {}
  <2>1. CASE d # c
    <3>1. task'[d] = task[d] BY <1>1, <2>1
    <3>2. GetBoardIdBySlug(task[d].slug) = {} BY <1>7, <3>1 DEF SlugInv
    <3> QED BY <1>0, <3>1, <3>2 DEF GetBoardIdBySlug
  <2>2. CASE d = c /\ task'[c].slug = task[c].slug /\ GetBoardIdBySlug(task[c].slug) = {}
    BY <1>0, <2>2 DEF GetBoardIdBySlug
  <2>3. CASE d = c /\ clock' = clock + 1 /\ task'[c].slug = Stamped(task[c].base, clock)
    <3>1. task[c].base \in Bases BY <1>0 DEF TypeInv, Based
    <3>2. \A b \in Boards : boards[b].state = "live" =>
                            boards[b].slug # Stamped(task[c].base, clock)
      BY <1>3, <3>1 DEF SlugInv
    <3> QED BY <1>0, <2>3, <3>2 DEF GetBoardIdBySlug
  <2> QED BY <1>2, <1>7, <2>1, <2>2, <2>3
<1>8. \A d, e \in CatalogCalls : d # e /\ Naming(d)' /\ Naming(e)' => d \in rivals'
  BY <1>0, <1>4 DEF SlugInv
<1>9. SlugConflictOnlyIfRaced'
  BY <1>0, <1>1 DEF SlugInv, SlugConflictOnlyIfRaced
<1> QED BY <1>0, <1>5, <1>6, <1>7, <1>8, <1>9 DEF SlugInv

LEMMA SlugInserted ==
  ASSUME SlugInv, TypeInv, NEW c \in CatalogCalls, NEW b \in Boards, InsertBoard(c, b)
  PROVE  SlugInv'
<1>0. /\ task \in [CatalogCalls -> Task] /\ boards \in [Boards -> BoardRow]
      /\ task[c].pc = "insert" /\ UNCHANGED <<clock, rivals>>
  BY DEF TypeInv, CatalogTypeOK, InsertBoard
<1>1. /\ \A d \in CatalogCalls : d # c => task'[d] = task[d]
      /\ task'[c].pc \notin {"slug", "insert"}
      /\ task'[c].pc = "conflict" => GetBoardIdBySlug(task[c].slug) # {}
  <2>1. CASE /\ task' = [task EXCEPT ![c].pc = "conflict"]
             /\ GetBoardIdBySlug(task[c].slug) # {}
    BY <1>0, <2>1 DEF Task
  <2>2. ASSUME NEW how \in {"done", "failed"}, Ended(c, how)
        PROVE  task'[c].pc = how /\ \A d \in CatalogCalls : d # c => task'[d] = task[d]
    BY <1>0, <2>2 DEF Ended, NoTask
  <2> QED BY <2>1, <2>2 DEF InsertBoard
<1>2. /\ \A a \in Boards : a # b => boards'[a] = boards[a]
      /\ \/ boards' = boards
         \/ boards'[b].state = "live" /\ boards'[b].slug = task[c].slug
  BY <1>0 DEF InsertBoard, NoBoard
<1>3. \A d \in CatalogCalls : Naming(d)' => d # c /\ Naming(d) /\ task'[d] = task[d]
  BY <1>1 DEF Naming
<1>4. Naming(c) BY <1>0 DEF Naming
<1>5. \A d \in CatalogCalls : Naming(d)' => d \in rivals
  BY <1>3, <1>4 DEF SlugInv
<1>6. \A a \in Boards, base \in Bases, n \in Nat :
         boards'[a].state = "live" /\ boards'[a].slug = Stamped(base, n) => n < clock'
  BY <1>0, <1>2, <1>4 DEF SlugInv
<1>7. \A d \in CatalogCalls, base \in Bases, n \in Nat :
         Naming(d)' /\ task'[d].slug = Stamped(base, n) => n < clock'
  BY <1>0, <1>3 DEF SlugInv
<1>8. SlugConflictOnlyIfRaced'
  <2>1. task'[c].pc = "conflict" => c \in rivals BY <1>0, <1>1 DEF SlugInv
  <2> QED BY <1>0, <1>1, <2>1 DEF SlugInv, SlugConflictOnlyIfRaced
<1>9. \A d \in CatalogCalls : task'[d].pc = "insert" => d \in rivals'
  BY <1>0, <1>5 DEF Naming
<1> QED BY <1>0, <1>5, <1>6, <1>7, <1>8, <1>9 DEF SlugInv

LEMMA SlugOther ==
  ASSUME SlugInv, TypeInv, NEW c \in CatalogCalls, CatalogStep(c),
         \A t \in Owners, base \in Bases : ~CreateBoard(c, t, base),
         ~uniqueSlug(c), \A b \in Boards : ~InsertBoard(c, b)
  PROVE  SlugInv'
<1>0. /\ task \in [CatalogCalls -> Task] /\ boards \in [Boards -> BoardRow]
  BY DEF TypeInv, CatalogTypeOK
<1>1. UNCHANGED <<clock, rivals>>
  BY DEF CatalogStep, FindBoard, UpdateBoard, DeleteBoard, CreateItems, ImportCsv, FindItem,
     assertBoardOwned, UpdateSmartWidget, DeleteSmartWidget, CreateSmartWidgets, QueryFails
<1>2. \A b \in Boards : boards'[b].state = "live" =>
         boards[b].state = "live" /\ boards'[b].slug = boards[b].slug
  <2>1. CASE boards' = boards BY <2>1
  <2>2. ASSUME NEW access \in {"restricted", "public"}, UpdateBoard(c, access)
        PROVE  \A b \in Boards : boards'[b].state = boards[b].state /\ boards'[b].slug = boards[b].slug
    <3>1. CASE boards' = [boards EXCEPT ![task[c].row].access = access]
      BY <1>0, <3>1 DEF BoardRow
    <3> QED BY <2>2, <3>1 DEF UpdateBoard
  <2>3. CASE DeleteBoard(c) BY <1>0, <2>3 DEF DeleteBoard, NoBoard
  <2> QED
    BY <2>1, <2>2, <2>3 DEF CatalogStep, FindBoard, CreateItems, ImportCsv, FindItem,
       assertBoardOwned, UpdateSmartWidget, DeleteSmartWidget, CreateSmartWidgets, QueryFails
<1>3. task'[c] = task[c] \/ task'[c].pc \notin {"slug", "insert", "conflict"}
  <2>1. CASE Ended(c, "done") \/ Ended(c, "failed") BY <2>1, EndedOwn
  <2>2. ASSUME NEW t \in Owners, NEW b \in Boards, NEW op \in {"update board", "remove board"},
               FindBoard(c, op, t, b) PROVE task'[c].pc = op
    BY <1>0, <2>2 DEF FindBoard, Call, NoTask
  <2>3. ASSUME NEW t, NEW b, NEW n, CreateItems(c, t, b, n) PROVE task'[c].pc = "create items"
    BY <1>0, <2>3 DEF CreateItems, Call, NoTask
  <2>4. ASSUME NEW t, NEW w, NEW b, NEW op \in {"update item", "remove item"},
               FindItem(c, op, t, w, b) PROVE task'[c].pc \in {"update item", "remove item", "own"}
    BY <1>0, <2>4 DEF FindItem, Call, NoTask
  <2>5. CASE task' = [task EXCEPT ![c].pc = "update item"] BY <1>0, <2>5 DEF Task
  <2>6. CASE \/ \E access \in {"restricted", "public"} : UpdateBoard(c, access)
             \/ DeleteBoard(c) \/ assertBoardOwned(c) \/ UpdateSmartWidget(c)
             \/ DeleteSmartWidget(c) \/ QueryFails(c)
             \/ \E new \in SUBSET Items : CreateSmartWidgets(c, new)
    BY <2>1, <2>5, <2>6 DEF UpdateBoard, DeleteBoard, assertBoardOwned, UpdateSmartWidget,
       DeleteSmartWidget, CreateSmartWidgets, QueryFails
  <2>7. CASE \E t \in Owners :
               \/ \E b \in Boards : \/ FindBoard(c, "update board", t, b)
                                    \/ FindBoard(c, "remove board", t, b)
               \/ \E b \in Boards \cup {Nothing} :
                     \/ CreateItems(c, t, b, 1)
                     \/ \E f \in Files : ImportCsv(c, t, b, f)
                     \/ \E w \in Items : FindItem(c, "update item", t, w, b)
               \/ \E w \in Items : FindItem(c, "remove item", t, w, Nothing)
    BY <2>2, <2>3, <2>4, <2>7 DEF ImportCsv
  <2> QED BY <2>6, <2>7 DEF CatalogStep
<1>4. \A d \in CatalogCalls : \/ task'[d] = task[d]
                             \/ task'[d].pc \notin {"slug", "insert", "conflict"}
  BY <1>3, OthersTask
<1> QED BY <1>1, <1>2, <1>4, SlugFrame

LEMMA SlugInvStep == SlugInv /\ TypeInv /\ [CatalogNext]_catalogVars => SlugInv'
<1> SUFFICES ASSUME SlugInv, TypeInv, [CatalogNext]_catalogVars PROVE SlugInv'
  OBVIOUS
<1>1. ASSUME NEW c \in CatalogCalls, CatalogStep(c) PROVE SlugInv'
  BY <1>1, SlugCreate, SlugChosen, SlugInserted, SlugOther
<1>2. ASSUME NEW w \in Items, Sell(w) PROVE SlugInv'
  BY <1>2, SlugFrame DEF Sell
<1>3. ASSUME NEW t \in Owners, DeleteTenant(t) PROVE SlugInv'
  <2>1. \A b \in Boards : boards'[b].state = "live" => boards'[b] = boards[b]
    BY <1>3 DEF DeleteTenant, NoBoard
  <2> QED BY <1>3, <2>1, SlugFrame DEF DeleteTenant
<1>4. CASE UNCHANGED catalogVars
  BY <1>4, SlugFrame DEF catalogVars
<1> QED BY <1>1, <1>2, <1>3, <1>4 DEF CatalogNext

LEMMA SlugInvInit == CatalogInit => SlugInv
<1> SUFFICES ASSUME CatalogInit PROVE SlugInv
  OBVIOUS
<1>1. \A c \in CatalogCalls : task[c].pc = "new"
  <2>1. NoTask.pc = "new" BY DEF NoTask
  <2> QED BY <2>1 DEF CatalogInit
<1>2. ASSUME NEW b \in Boards, boards[b].state = "live", NEW base \in Bases, NEW n \in Nat
      PROVE  boards[b].slug # Stamped(base, n)
  <2>1. b \in DOMAIN FirstBoards /\ boards[b].slug = FirstBoards[b].slug
    BY <1>2 DEF CatalogInit, NoBoard
  <2>2. FirstBoards[b].slug \in Bases \X (Suffixes \cup {Plain}) BY <2>1, CatalogAssumption
  <2>3. PICK a \in Bases, s \in Suffixes \cup {Plain} : FirstBoards[b].slug = <<a, s>>
    BY <2>2
  <2> QED BY <2>1, <2>3, NotStamped
<1> QED BY <1>1, <1>2 DEF SlugInv, Naming, SlugConflictOnlyIfRaced

(* The unique key on the slug turns a creation down only if another creation *)
(* was under way, whatever boards there are, were or are named at the time.  *)
THEOREM SlugConflictCorrect == CatalogSpec => []SlugConflictOnlyIfRaced
<1>1. CatalogInit => TypeInv /\ SlugInv BY SlugInvInit, OwnInvInit DEF OwnInv
<1>2. SlugInv => SlugConflictOnlyIfRaced BY DEF SlugInv
<1> QED BY <1>1, <1>2, CatalogTypeStep, SlugInvStep, PTL DEF CatalogSpec
=============================================================================
