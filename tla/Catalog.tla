------------------------------ MODULE Catalog -------------------------------
(***************************************************************************)
(* The boards and the widgets of each tenant: the board service and the      *)
(* inventory service with its CSV import, their repositories and queries.    *)
(*                                                                          *)
(* Grain.  One query is one step.  Both services look first, at the slug, at *)
(* the owner of the row or of the board a widget is put on, and write later  *)
(* by the id alone; what holds in between is up to the keys of the tables.   *)
(***************************************************************************)
EXTENDS Integers, Sequences, FiniteSets

CONSTANTS
  Owners,       \* tenants
  Boards,       \* ids of boards, those never created included
  Items,        \* ids of widgets, those never created included
  Bases,        \* slugs that names give
  Suffixes,     \* what randomSuffix may draw
  Attempts,     \* uniqueSlugAttempts
  FirstBoards,  \* FirstBoards[b]: [owner, slug] of the boards there at first
  FirstItems,   \* FirstItems[w]: [owner, board] of the widgets there at first
  Files,        \* CSV files: sequences of kinds of lines
  Nothing,
  CatalogCalls, \* calls of the two services
  CatalogFaults \* whether a query may fail

(* base alone, or with a random suffix, or with the milliseconds of the clock, *)
(* of which no two calls that get this far see the same.                    *)
Plain == "plain"
Slug(base, suffix) == <<base, suffix>>
Stamped(base, time) == <<base, "at", time>>

(* What a line of a file is: a "header" is an item that mentions "sku" or    *)
(* "name".                                                                  *)
Kinds == {"header", "item", "incomplete", "blank"}

ASSUME CatalogAssumption ==
  /\ Attempts \in Nat
  /\ DOMAIN FirstBoards \subseteq Boards /\ DOMAIN FirstItems \subseteq Items
  /\ \A b \in DOMAIN FirstBoards :
        /\ FirstBoards[b].owner \in Owners
        /\ FirstBoards[b].slug \in Bases \X (Suffixes \cup {Plain})
  /\ \A w \in DOMAIN FirstItems :
        /\ FirstItems[w].owner \in Owners
        /\ FirstItems[w].board # Nothing =>
             /\ FirstItems[w].board \in DOMAIN FirstBoards
             /\ FirstBoards[FirstItems[w].board].owner = FirstItems[w].owner
  /\ \A a, b \in DOMAIN FirstBoards : FirstBoards[a].slug = FirstBoards[b].slug => a = b
  /\ Nothing \notin Owners \cup Boards \cup Items
  /\ \A f \in Files : f \in Seq(Kinds)
  /\ CatalogFaults \in BOOLEAN

VARIABLES
  tenants, \* the tenants whose row is there
  boards,  \* boards[b]: a row of boards
  items,   \* items[w]: a row of smart_widgets
  task,    \* task[c]: a call of a service
  clock,   \* number of boards named after the clock
  rivals   \* history: creations of boards that met another one

catalogVars == <<tenants, boards, items, task, clock, rivals>>

NoBoard == [state |-> "unborn", owner |-> Nothing, slug |-> Nothing, access |-> "restricted"]
NoItem == [state |-> "unborn", owner |-> Nothing, board |-> Nothing]
NoTask == [pc |-> "new", op |-> "create board", owner |-> Nothing, base |-> Nothing,
           slug |-> Nothing, tries |-> 0, row |-> Nothing, board |-> Nothing, count |-> 0]

CatalogInit ==
  /\ tenants = Owners
  /\ boards = [b \in Boards |-> IF b \in DOMAIN FirstBoards
                 THEN [NoBoard EXCEPT !.state = "live", !.owner = FirstBoards[b].owner,
                                      !.slug = FirstBoards[b].slug]
                 ELSE NoBoard]
  /\ items = [w \in Items |-> IF w \in DOMAIN FirstItems
                 THEN [state |-> "live", owner |-> FirstItems[w].owner,
                       board |-> FirstItems[w].board]
                 ELSE NoItem]
  /\ task = [c \in CatalogCalls |-> NoTask]
  /\ clock = 0
  /\ rivals = {}

(***************************************************************************)
(* The queries the services look with.                                      *)
(***************************************************************************)

GetBoardIdBySlug(slug) == {b \in Boards : boards[b].state = "live" /\ boards[b].slug = slug}

GetBoardById(b, t) == boards[b].state = "live" /\ boards[b].owner = t

AnyBoardExists(b, t) == b \in Boards /\ boards[b].state = "live"

GetBoardExistsForUser(b, t) == b \in Boards /\ boards[b].state = "live" /\ boards[b].owner = t

AnySmartWidgetById(w, t) == items[w].state = "live"

GetSmartWidgetById(w, t) == items[w].state = "live" /\ items[w].owner = t

(* The call ends: well, with an error, or because a key is violated.        *)
Ended(c, how) == task' = [task EXCEPT ![c] = [NoTask EXCEPT !.pc = how]]

Call(c, fields) == task[c].pc = "new" /\ task' = [task EXCEPT ![c] = fields]

QueryFails(c) ==
  /\ CatalogFaults /\ task[c].pc \notin {"new", "done", "failed", "conflict"}
  /\ Ended(c, "failed")
  /\ UNCHANGED <<tenants, boards, items, clock, rivals>>

(***************************************************************************)
(* Boards.                                                                  *)
(***************************************************************************)

CreateBoard(c, t, base) ==
  /\ Call(c, [NoTask EXCEPT !.pc = "slug", !.owner = t, !.base = base,
                            !.slug = Slug(base, Plain), !.tries = Attempts])
  /\ LET others == {d \in CatalogCalls : task[d].pc \in {"slug", "insert"}}
     IN  rivals' = IF others = {} THEN rivals ELSE rivals \cup others \cup {c}
  /\ UNCHANGED <<tenants, boards, items, clock>>

uniqueSlugNever(c) ==
  /\ task[c].pc = "slug"
  /\ task' = [task EXCEPT ![c].pc = "insert"]
  /\ UNCHANGED <<tenants, boards, items, clock, rivals>>

(* A slug that is free is taken as it is, one that is not gets a random      *)
(* suffix; after some attempts the clock makes it unique.                   *)
uniqueSlug(c) ==
  /\ task[c].pc = "slug"
  /\ \/ /\ task[c].tries > 0 /\ GetBoardIdBySlug(task[c].slug) = {}
        /\ task' = [task EXCEPT ![c].pc = "insert"]
        /\ UNCHANGED clock
     \/ /\ task[c].tries > 0 /\ GetBoardIdBySlug(task[c].slug) # {}
        /\ \E s \in Suffixes :
             task' = [task EXCEPT ![c].slug = Slug(task[c].base, s), ![c].tries = @ - 1]
        /\ UNCHANGED clock
     \/ /\ task[c].tries = 0
        /\ clock' = clock + 1
        /\ task' = [task EXCEPT ![c].pc = "insert", ![c].slug = Stamped(task[c].base, clock)]
  /\ UNCHANGED <<tenants, boards, items, rivals>>

InsertForAnyone(c, b) ==
  /\ task[c].pc = "insert" /\ boards[b].state = "unborn"
  /\ IF GetBoardIdBySlug(task[c].slug) = {}
     THEN /\ boards' = [boards EXCEPT ![b] = [NoBoard EXCEPT !.state = "live",
                         !.owner = task[c].owner, !.slug = task[c].slug]]
          /\ Ended(c, "done")
     ELSE task' = [task EXCEPT ![c].pc = "conflict"] /\ UNCHANGED boards
  /\ UNCHANGED <<tenants, items, clock, rivals>>

(* The slug is unique in the table, and the tenant must be there.           *)
InsertBoard(c, b) ==
  LET t == task[c].owner IN
  /\ task[c].pc = "insert" /\ boards[b].state = "unborn"
  /\ \/ /\ GetBoardIdBySlug(task[c].slug) = {} /\ t \in tenants
        /\ boards' = [boards EXCEPT ![b] = [NoBoard EXCEPT !.state = "live", !.owner = t,
                                                          !.slug = task[c].slug]]
        /\ Ended(c, "done")
     \/ /\ GetBoardIdBySlug(task[c].slug) # {}
        /\ task' = [task EXCEPT ![c].pc = "conflict"] /\ UNCHANGED boards
     \/ /\ t \notin tenants
        /\ Ended(c, "failed") /\ UNCHANGED boards
  /\ UNCHANGED <<tenants, items, clock, rivals>>

(* Update and Remove find the board among those of the tenant.              *)
FindBoard(c, op, t, b) ==
  /\ GetBoardById(b, t)
  /\ Call(c, [NoTask EXCEPT !.pc = op, !.op = op, !.owner = t, !.row = b])
  /\ UNCHANGED <<tenants, boards, items, clock, rivals>>

(* The slug stays as it is when the name changes.                           *)
UpdateBoard(c, access) ==
  LET b == task[c].row IN
  /\ task[c].pc = "update board"
  /\ \/ /\ boards[b].state = "live"
        /\ boards' = [boards EXCEPT ![b].access = access]
        /\ Ended(c, "done")
     \/ boards[b].state # "live" /\ Ended(c, "failed") /\ UNCHANGED boards
  /\ UNCHANGED <<tenants, items, clock, rivals>>

(* The widgets of the board stay, without a board.                          *)
DeleteBoard(c) ==
  LET b == task[c].row IN
  /\ task[c].pc = "remove board"
  /\ boards' = [boards EXCEPT ![b] = [NoBoard EXCEPT !.state = "removed"]]
  /\ items' = [w \in Items |-> IF items[w].board = b THEN [items[w] EXCEPT !.board = Nothing]
                               ELSE items[w]]
  /\ Ended(c, "done")
  /\ UNCHANGED <<tenants, clock, rivals>>

(***************************************************************************)
(* The inventory.                                                           *)
(***************************************************************************)

(* Create and ImportCsv with a board look whether it is the tenant's        *)
(* (resolveOwnedBoardID); Update finds the widget first.                    *)
CreateItems(c, t, b, count) ==
  /\ b # Nothing => GetBoardExistsForUser(b, t)
  /\ Call(c, [NoTask EXCEPT !.pc = "create items", !.op = "create items", !.owner = t,
                            !.board = b, !.count = count])
  /\ UNCHANGED <<tenants, boards, items, clock, rivals>>

(* parseCsv: the rows of a file.  Its first line that is not blank is taken *)
(* for the header when it looks like one, a later one for an item; lines    *)
(* without a name or a sku are left out.                                    *)
parseCsv(file) ==
  {i \in DOMAIN file : \/ file[i] = "item"
                       \/ file[i] = "header" /\ \E j \in 1..(i - 1) : file[j] # "blank"}

(* A file without a row is refused.                                         *)
ImportCsv(c, t, b, file) ==
  parseCsv(file) # {} /\ CreateItems(c, t, b, Cardinality(parseCsv(file)))

(* One INSERT or one COPY: all the rows or none; the keys are the tenant's   *)
(* and the board's.                                                         *)
CreateSmartWidgets(c, new) ==
  LET t == task[c].owner  b == task[c].board IN
  /\ task[c].pc = "create items" /\ Cardinality(new) = task[c].count
  /\ \A w \in new : items[w].state = "unborn"
  /\ \/ /\ t \in tenants /\ (b # Nothing => boards[b].state = "live")
        /\ items' = [w \in Items |-> IF w \in new
                       THEN [state |-> "live", owner |-> t, board |-> b] ELSE items[w]]
        /\ Ended(c, "done")
     \/ /\ t \notin tenants \/ (b # Nothing /\ boards[b].state # "live")
        /\ Ended(c, "failed") /\ UNCHANGED items
  /\ UNCHANGED <<tenants, boards, clock, rivals>>

FindItem(c, op, t, w, b) ==
  /\ GetSmartWidgetById(w, t)
  /\ Call(c, [NoTask EXCEPT !.pc = IF b = Nothing THEN op ELSE "own", !.op = op,
                            !.owner = t, !.row = w, !.board = b])
  /\ UNCHANGED <<tenants, boards, items, clock, rivals>>

assertBoardOwned(c) ==
  /\ task[c].pc = "own"
  /\ IF GetBoardExistsForUser(task[c].board, task[c].owner)
     THEN task' = [task EXCEPT ![c].pc = "update item"] ELSE Ended(c, "failed")
  /\ UNCHANGED <<tenants, boards, items, clock, rivals>>

(* A widget that was sold meanwhile is not there: nothing is updated.  No    *)
(* board in the request keeps the board.                                    *)
UpdateSmartWidget(c) ==
  LET w == task[c].row  b == task[c].board IN
  /\ task[c].pc = "update item"
  /\ \/ /\ items[w].state = "live" /\ (b # Nothing => boards[b].state = "live")
        /\ items' = [items EXCEPT ![w].board = IF b = Nothing THEN @ ELSE b]
        /\ Ended(c, "done")
     \/ /\ items[w].state = "live" => b # Nothing /\ boards[b].state # "live"
        /\ Ended(c, "failed") /\ UNCHANGED items
  /\ UNCHANGED <<tenants, boards, clock, rivals>>

DeleteSmartWidget(c) ==
  /\ task[c].pc = "remove item"
  /\ items' = [items EXCEPT ![task[c].row] = [NoItem EXCEPT !.state = "removed"]]
  /\ Ended(c, "done")
  /\ UNCHANGED <<tenants, boards, clock, rivals>>

(***************************************************************************)
(* What others do to the rows: a purchase removes the widget, and a tenant   *)
(* who is deleted takes his boards and widgets along.                       *)
(***************************************************************************)

Sell(w) ==
  /\ items[w].state = "live"
  /\ items' = [items EXCEPT ![w] = [NoItem EXCEPT !.state = "removed"]]
  /\ UNCHANGED <<tenants, boards, task, clock, rivals>>

DeleteTenant(t) ==
  /\ t \in tenants /\ tenants' = tenants \ {t}
  /\ boards' = [b \in Boards |-> IF boards[b].owner = t
                  THEN [NoBoard EXCEPT !.state = "removed"] ELSE boards[b]]
  /\ items' = [w \in Items |-> IF items[w].owner = t
                  THEN [NoItem EXCEPT !.state = "removed"] ELSE items[w]]
  /\ UNCHANGED <<task, clock, rivals>>

CatalogStep(c) ==
  \/ \E t \in Owners :
        \/ \E base \in Bases : CreateBoard(c, t, base)
        \/ \E b \in Boards : FindBoard(c, "update board", t, b) \/ FindBoard(c, "remove board", t, b)
        \/ \E b \in Boards \cup {Nothing} :
              \/ CreateItems(c, t, b, 1)
              \/ \E f \in Files : ImportCsv(c, t, b, f)
              \/ \E w \in Items : FindItem(c, "update item", t, w, b)
        \/ \E w \in Items : FindItem(c, "remove item", t, w, Nothing)
  \/ uniqueSlug(c) \/ \E b \in Boards : InsertBoard(c, b)
  \/ \E access \in {"restricted", "public"} : UpdateBoard(c, access)
  \/ DeleteBoard(c) \/ assertBoardOwned(c) \/ UpdateSmartWidget(c) \/ DeleteSmartWidget(c)
  \/ \E new \in SUBSET Items : CreateSmartWidgets(c, new)
  \/ QueryFails(c)

CatalogNext ==
  \/ \E c \in CatalogCalls : CatalogStep(c)
  \/ \E w \in Items : Sell(w)
  \/ \E t \in Owners : DeleteTenant(t)

CatalogSpec == CatalogInit /\ [][CatalogNext]_catalogVars

(***************************************************************************)
(* Properties.                                                              *)
(***************************************************************************)

Slugs == (Bases \X (Suffixes \cup {Plain})) \cup (Bases \X {"at"} \X Nat)
BoardRow == [state : {"unborn", "live", "removed"}, owner : Owners \cup {Nothing},
             slug : Slugs \cup {Nothing},
             access : {"restricted", "public"}]
ItemRow == [state : {"unborn", "live", "removed"}, owner : Owners \cup {Nothing},
            board : Boards \cup {Nothing}]
Task == [pc : {"new", "slug", "insert", "update board", "remove board", "create items", "own",
               "update item", "remove item", "done", "failed", "conflict"},
         op : {"create board", "update board", "remove board", "create items", "update item",
               "remove item"},
         owner : Owners \cup {Nothing}, base : Bases \cup {Nothing},
         slug : Slugs \cup {Nothing},
         tries : 0..Attempts, row : Boards \cup Items \cup {Nothing},
         board : Boards \cup {Nothing}, count : Nat]

(* Every variable has its type; whatever is there has a tenant who is there. *)
CatalogTypeOK ==
  /\ tenants \subseteq Owners
  /\ boards \in [Boards -> BoardRow]
  /\ items \in [Items -> ItemRow]
  /\ task \in [CatalogCalls -> Task]
  /\ clock \in Nat
  /\ rivals \subseteq CatalogCalls
  /\ \A b \in Boards : boards[b].state = "live" => boards[b].owner \in tenants
  /\ \A w \in Items : items[w].state = "live" => items[w].owner \in tenants

(* A widget lies on a board that is there and belongs to its own tenant,     *)
(* though the board may be deleted, and the widget moved, between the look   *)
(* at the owner and the write.                                              *)
WidgetOnOwnBoard ==
  \A w \in Items : items[w].state = "live" /\ items[w].board # Nothing =>
     /\ boards[items[w].board].state = "live"
     /\ boards[items[w].board].owner = items[w].owner

(* The unique slug turns a creation down only when another one was under way: *)
(* whatever boards there are, a creation alone finds itself a free slug.     *)
SlugConflictOnlyIfRaced ==
  \A c \in CatalogCalls : task[c].pc = "conflict" => c \in rivals

(* Updates and deletes address a row by its id alone: still a row of a       *)
(* tenant changes only by his own call, by the sale of a widget, which is no *)
(* call, or with him.                                                       *)
OnlyOwnersChange ==
  [][LET mine(row) == \E c \in CatalogCalls : /\ task[c].owner = row.owner
                                              /\ task'[c].pc # task[c].pc
         gone(row) == row.owner \notin tenants' IN
     /\ \A b \in Boards : boards[b].state = "live" /\ boards'[b] # boards[b] =>
           mine(boards[b]) \/ gone(boards[b])
     /\ \A w \in Items : items[w].state = "live" /\ items'[w] # items[w] =>
           \/ mine(items[w]) \/ gone(items[w])
           \/ items'[w].state = "removed" /\ task' = task]_catalogVars
=============================================================================
