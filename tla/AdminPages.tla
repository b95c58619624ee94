----------------------------- MODULE AdminPages -----------------------------
(***************************************************************************)
(* The administrators' pages: InventoryPage, UsersAdmin and                *)
(* TransactionsAdmin.                                                      *)
(***************************************************************************)
EXTENDS Queries

(***************************************************************************)
(* InventoryPage.  Its two lists work alike and share the flag             *)
(* "submitting", which disables the forms for a new item and the dialog    *)
(* that confirms a deletion, but not the Save of an edited item.           *)
(***************************************************************************)
Lists == {"services", "extras"}
Items == 1..tour.orders
NoItem == <<None, 0>>

InventoryPage == [page |-> "inventory", submitting |-> FALSE, filled |-> {},
                  editing |-> [list \in Lists |-> 0], confirm |-> NoItem]

InventoryMount ==
    /\ Mounts("inventory", "/admin/inventory")
    /\ local' = InventoryPage
    /\ MountAsks(Lists, flights)
    /\ UNCHANGED <<tour, location, history, memory, storage, server>>

\* A form is filled, and for an extra its prices are JSON.
CreateOffers(list) ==
    {"fill"} \cup IF local.submitting \/ list \notin local.filled THEN {} ELSE {"createItem"}

RowOffers(list) ==
    IF ~Has(list) THEN {}
    ELSE {"edit", "remove"} \cup IF local.editing[list] = 0 THEN {} ELSE {"save", "cancel"}

DialogOffers == IF local.submitting THEN {} ELSE {"delete", "keep"}

InventoryOffers(list) ==
    IF local.confirm # NoItem THEN DialogOffers
    ELSE CreateOffers(list) \cup RowOffers(list) \cup {"refresh"}

\* The await of invalidateQueries ends when the lists that it fetches again
\* have arrived, or are fetched once more by somebody else.
Superseded(keys, F) ==
    {IF f.kind = "refreshLists" THEN [f EXCEPT !.arg[1] = @ \ {key \in keys : Has(key) \/ ~Fetching(key)}] ELSE f
        : f \in F}

EditInventory ==
    /\ On("inventory")
    /\ \E list \in Lists : \E offer \in InventoryOffers(list) :
       /\ Uses(offer)
       /\ CASE offer = "fill" -> /\ list \notin local.filled
                                 /\ Sets([local EXCEPT !.filled = @ \cup {list}])
            [] offer = "edit" -> \E item \in Items \ {local.editing[list]} :
                                     Sets([local EXCEPT !.editing[list] = item])
            [] offer = "cancel" -> Sets([local EXCEPT !.editing[list] = 0])
            [] offer = "remove" -> \E item \in Items \ {local.editing[list]} :
                                     Sets([local EXCEPT !.confirm = <<list, item>>])
            [] offer = "keep" -> Sets([local EXCEPT !.confirm = NoItem])
            [] OTHER -> FALSE

RefreshInventory ==
    /\ On("inventory")
    /\ Uses("refresh") /\ \E list \in Lists : "refresh" \in InventoryOffers(list)
    /\ flights' = Refetched(Lists, Superseded(Lists, flights))
    /\ cache' = Pending(cache, Lists)
    /\ UNCHANGED <<tour, location, history, local, memory, storage, server>>

\* createService and createExtra, saveEditService and saveEditExtra,
\* confirmDeleteService and confirmDeleteExtra send their request.
WriteInventory ==
    /\ On("inventory")
    /\ \E list \in Lists : \E offer \in {"createItem", "save", "delete"} \cap InventoryOffers(list) :
       /\ Uses(offer)
       /\ offer = "delete" => local.confirm[1] = list
       /\ SetsAndSends([local EXCEPT !.submitting = TRUE], {Flight(offer, list, <<>>)})

Writes == {"createItem", "save", "delete"}

\* What the handler sets before it awaits the lists, and in the end: whichever
\* edit or dialog is open by then is closed.
AfterWrite(f) ==
    CASE f.kind = "createItem" -> [local EXCEPT !.filled = @ \ {f.key}]
      [] f.kind = "save" -> [local EXCEPT !.editing[f.key] = 0]
      [] OTHER -> local

WriteEnds(l, kind) ==
    [l EXCEPT !.submitting = FALSE, !.confirm = IF kind = "delete" THEN NoItem ELSE @]

InventoryWritten(kind) == \E f \in {g \in Waiting(kind) : g.key \in Lists} :
    \/ Hears(f, WriteEnds(local, kind))
    \/ LET lists == IF kind = "createItem" /\ f.key = "extras" THEN Lists ELSE {f.key}
           awaited == lists \cap Watched IN
       /\ local' = IF f.mine THEN AfterWrite(f) ELSE local
       /\ flights' = FlightsAfter(lists, {f.key}, Superseded(awaited, flights \ {f}))
                     \cup {Then(f, "refreshLists", <<awaited, kind>>)}
       /\ cache' = CacheAfter(lists, {f.key})
       /\ UNCHANGED <<tour, location, history, memory, storage, server>>

ListsRefreshed == \E f \in Waiting("refreshLists") :
    /\ \A key \in f.arg[1] : ~Fetching(key)
    /\ Hears(f, WriteEnds(local, f.arg[2]))

(***************************************************************************)
(* UsersAdmin.  The table has a page per user, and searching finds the     *)
(* first.  memory.table is the part of the query cache under "users-admin" *)
(* with an entry for every page and searched text; a role is a bit.        *)
(***************************************************************************)
Found(key) == IF key[2] = 0 THEN {key[1]} ELSE {1} \cap {key[1]}
PagesFound(sent) == IF sent = 0 THEN 2 ELSE 1

UsersPage == [page |-> "users", number |-> 1, search |-> 0, sent |-> 0, editing |-> 0,
              form |-> None, sending |-> {}]

TableKey(l) == <<l.number, l.sent>>
Row(l) == memory.table[TableKey(l)]

TableFetches(F) == {f \in F : f.kind = "users"}
TableFetch(key) == [kind |-> "users", key |-> None, arg |-> <<key>>, mine |-> FALSE,
                    reply |-> None, value |-> 0, n |-> 0]

\* The entry of a key is shown: it is fetched if it is missing or stale, by age
\* or by invalidation.
ShowsEntry(key) == \E aged \in BOOLEAN :
    LET row == memory.table[key]
        due == ~row.has \/ row.stale \/ aged
        asks == {f \in {TableFetch(key)} : due /\ \A g \in TableFetches(flights) : g.arg[1] # key} IN
    /\ flights' = flights \cup asks
    /\ memory' = [memory EXCEPT !.table[key].failed = @ /\ asks = {}]

TurnsTo(l) ==
    /\ local' = l
    /\ IF TableKey(l) = TableKey(local) THEN UNCHANGED <<flights, memory>> ELSE ShowsEntry(TableKey(l))
    /\ UNCHANGED <<tour, location, history, storage, cache, server>>

UsersMount ==
    /\ Mounts("users", "/admin/users-admin")
    /\ local' = UsersPage
    /\ ShowsEntry(TableKey(UsersPage))
    /\ UNCHANGED <<tour, location, history, storage, cache, server>>

UserFormKinds == {"createUser", "registerStaff"}

UsersOffers ==
    IF local.form # None THEN {"closeForm"} \cup (IF local.form \in local.sending THEN {} ELSE {"submit"})
    ELSE {"search", "openForm"}
         \cup (IF Row(local).has \/ Row(local).failed THEN {"reload"} ELSE {})
         \cup (IF local.sent # 0 THEN {"clear"} ELSE {})

\* Without an answer, or with one page found, there are no buttons.
UsersPaging ==
    IF ~Row(local).has \/ local.form # None THEN {}
    ELSE {local.number - 1, local.number + 1} \cap (1..Row(local).pages)

\* Typing shows the first page at once, and searches after 300 ms; clearing
\* leaves the page.
UsersTyped ==
    /\ On("users") /\ Uses("search")
    /\ \/ "search" \in UsersOffers /\ TurnsTo([local EXCEPT !.number = 1, !.search = 1 - @])
       \/ "clear" \in UsersOffers /\ TurnsTo([local EXCEPT !.search = 0])

UsersDebounced ==
    /\ local.page = "users" /\ local.sent # local.search
    /\ TurnsTo([local EXCEPT !.sent = local.search])

UsersTurn == On("users") /\ Uses("turn") /\ \E number \in UsersPaging : TurnsTo([local EXCEPT !.number = number])

\* Register Staff and Add User; neither form counts as closed while it is sent.
UserForms ==
    /\ On("users")
    /\ \/ "closeForm" \in UsersOffers /\ Sets([local EXCEPT !.form = None])
       \/ \E form \in UserFormKinds :
          \/ "openForm" \in UsersOffers /\ Uses(form) /\ Sets([local EXCEPT !.form = form])
          \/ /\ "submit" \in UsersOffers /\ local.form = form
             /\ SetsAndSends([local EXCEPT !.sending = @ \cup {form}], {Flight(form, None, <<>>)})

\* invalidateQueries(['users-admin']): every entry, and the shown one is
\* fetched again in place of the fetch under way; without data that goes on.
StaleTable(table) == [key \in DOMAIN table |-> [table[key] EXCEPT !.stale = @ \/ table[key].has]]
TableAgain(F, table) ==
    IF local.page # "users" THEN F
    ELSE LET kept == {f \in TableFetches(F) : f.arg[1] # TableKey(local) \/ ~table[TableKey(local)].has} IN
         (F \ TableFetches(F)) \cup kept
         \cup {f \in {TableFetch(TableKey(local))} : \A g \in kept : g.arg[1] # f.arg[1]}

UsersReload ==
    /\ On("users") /\ Uses("reload") /\ "reload" \in UsersOffers
    /\ flights' = TableAgain(flights, memory.table)
    /\ memory' = [memory EXCEPT !.table[TableKey(local)].failed = FALSE]
    /\ UNCHANGED <<tour, location, history, local, storage, cache, server>>

UserAdded(form) == \E f \in Waiting(form) :
    LET l == [local EXCEPT !.sending = @ \ {form}] IN
    \/ Hears(f, l)
    \/ /\ local' = IF f.mine THEN [l EXCEPT !.form = IF @ = form THEN None ELSE @] ELSE local
       /\ flights' = TableAgain(flights \ {f}, memory.table)
       /\ memory' = [memory EXCEPT !.table = StaleTable(@)]
       /\ UNCHANGED <<tour, location, history, storage, cache, server>>

\* GET /users: the server reads the roles of those found, and later the answer
\* arrives.
ServerListsUsers == \E f \in Waiting("users") :
    LET roles == [user \in 1..2 |-> IF user \in Found(f.arg[1]) THEN server.roles[user] ELSE 0] IN
    /\ flights' = (flights \ {f}) \cup {[f EXCEPT !.reply = "ok", !.arg = Append(@, roles)]}
    /\ UNCHANGED <<tour, location, history, local, memory, storage, cache, server>>

UsersArrive == \E f \in TableFetches(flights) :
    LET key == f.arg[1] IN
    /\ flights' = flights \ {f}
    /\ \/ memory' = [memory EXCEPT !.table[key].failed = ~memory.table[key].has]
       \/ /\ f.reply = "ok"
          /\ memory' = [memory EXCEPT !.table[key] =
               [has |-> TRUE, stale |-> FALSE, failed |-> FALSE, missed |-> f.value = 1,
                items |-> Found(key),
                pages |-> PagesFound(key[2]), roles |-> f.arg[2]]]
    /\ UNCHANGED <<tour, location, history, local, storage, cache, server>>

\* Edit Role, and its Cancel or the blur of the select.
EditRole ==
    /\ On("users") /\ local.form = None /\ Row(local).has
    /\ \E user \in Row(local).items \cap Items :
          Sets([local EXCEPT !.editing = IF @ = user THEN 0 ELSE user])

\* onMutate: the fetch of the shown entry is cancelled, the entry is kept for a
\* rollback (arg[3]), and the new role is shown.  A mutation that another one
\* follows keeps the key of its rollback (arg[4]); else that is the shown one.
RoleFlights == {f \in flights : f.kind = "role"}
Keeps(f, key) == IF f \in RoleFlights /\ f.arg[4] = <<>> THEN [f EXCEPT !.arg[4] = key] ELSE f

SaveRole ==
    /\ On("users") /\ local.form = None /\ Row(local).has
    /\ local.editing \in Row(local).items
    /\ Cardinality(RoleFlights) < tour.orders
    /\ LET user == local.editing
           key == TableKey(local)
           row == [Row(local) EXCEPT !.stale = FALSE]
           role == 1 - row.roles[user] IN
       /\ flights' = {Keeps(f, key) : f \in {g \in flights : g.kind # "users" \/ g.arg[1] # key}}
                     \cup {[Flight("role", None, <<user, role, row, <<>>>>) EXCEPT !.n = FreeNumber(RoleFlights)]}
       /\ memory' = [memory EXCEPT !.table[key] =
            [row EXCEPT !.roles[user] = role]]
    /\ local' = [local EXCEPT !.editing = 0]
    /\ UNCHANGED <<tour, location, history, storage, cache, server>>

\* PATCH of the role at the server, which may fail or lose its answer.
ServerSetsRole == \E f \in Waiting("role") :
    \/ /\ server' = [server EXCEPT !.roles[f.arg[1]] = f.arg[2]]
       /\ \E reply \in {"ok", "failed"} : flights' = Answered(f, reply, 0)
       /\ UNCHANGED <<tour, location, history, local, memory, storage, cache>>
    \/ Answers(f, "failed", 0)

\* onError puts the kept rows under the key the page shows by now, or showed
\* last; onSettled invalidates the table and ends whatever edit is open.  What a
\* fetch that goes on has read may miss the change: value 1 marks it.
RollsBackTo(f) ==
    IF f.arg[4] # <<>> THEN {f.arg[4]} ELSE IF f.mine THEN {TableKey(local)} ELSE TableKeys

\* Mutant of RoleSettles: the rollback is taken for the truth, and nothing is fetched again.
RoleSettlesUnread == \E f \in Arriving("role") : \E key \in RollsBackTo(f) :
    /\ memory' = IF f.reply = "ok" THEN memory ELSE [memory EXCEPT !.table[key] = f.arg[3]]
    /\ flights' = flights \ {f}
    /\ local' = IF f.mine THEN [local EXCEPT !.editing = 0] ELSE local
    /\ UNCHANGED <<tour, location, history, storage, cache, server>>

RoleSettles == \E f \in Arriving("role") : \E key \in RollsBackTo(f) :
    LET back == IF f.reply = "ok" THEN memory.table
                ELSE [memory.table EXCEPT ![key] = f.arg[3]] IN
    /\ memory' = [memory EXCEPT !.table = StaleTable(back)]
    /\ flights' = {IF g.kind = "users" /\ g.reply = "ok" THEN [g EXCEPT !.value = 1] ELSE g
                     : g \in TableAgain(flights \ {f}, back)}
    /\ local' = IF f.mine THEN [local EXCEPT !.editing = 0] ELSE local
    /\ UNCHANGED <<tour, location, history, storage, cache, server>>

(***************************************************************************)
(* TransactionsAdmin.  The rows of the last answer stay until the next one *)
(* has arrived (placeholderData): kept is the number of pages that answer  *)
(* had, 0 before the first, and own says that it answers what is asked.    *)
(* Payments come and go, so that every answer may have another number.     *)
(***************************************************************************)
MaxPages == 2

TransactionsPage == [page |-> "transactions", number |-> 1, search |-> 0, sent |-> 0,
                     fetching |-> TRUE, failed |-> FALSE, own |-> FALSE, kept |-> 0]

TransactionsMount == Mounts("transactions", "/admin/transactions") /\ Sets(TransactionsPage)

\* Without rows of its own the page of a failed query counts as the only one.
ComputedTotalPages(l) == IF l.failed \/ l.kept = 0 THEN 1 ELSE l.kept

\* The query of another page, filter or text: from the cache, which may be
\* fetched again, or fetched.
Cached(l, fetching, pages) ==
    [l EXCEPT !.fetching = fetching, !.failed = FALSE, !.own = TRUE, !.kept = pages]

Asked(l) ==
    {[l EXCEPT !.fetching = TRUE, !.failed = FALSE, !.own = FALSE]}
    \cup {Cached(l, fetching, pages) : fetching \in BOOLEAN, pages \in 1..MaxPages}

\* An effect puts a number beyond the pages there are back, which asks again.
Clamped(l) ==
    IF (l.kept = 0 /\ l.fetching) \/ l.number <= ComputedTotalPages(l) THEN {l}
    ELSE Asked([l EXCEPT !.number = ComputedTotalPages(l)])

Asks(l) == \E m \in Asked(l) : \E n \in Clamped(m) : Sets(n)

TransactionsOffers == {"filter", "search", "reset"} \cup IF local.fetching THEN {} ELSE {"refresh"}

\* Filters, sorting and the page size start again at the first page; what is
\* typed is searched for after 400 ms.  A reset without filters clears the text.
FilterTransactions ==
    /\ On("transactions")
    /\ \/ "filter" \in TransactionsOffers /\ Asks([local EXCEPT !.number = 1])
       \/ "search" \in TransactionsOffers /\ Sets([local EXCEPT !.search = 1 - @])
       \/ "reset" \in TransactionsOffers
          /\ \/ Asks([local EXCEPT !.number = 1, !.search = 0])
             \/ Sets([local EXCEPT !.search = 0])
       \/ "refresh" \in TransactionsOffers /\ Sets([local EXCEPT !.fetching = TRUE, !.failed = FALSE])

TransactionsDebounced ==
    /\ local.page = "transactions" /\ local.sent # local.search
    /\ Asks([local EXCEPT !.sent = local.search, !.number = 1])

TransactionsPaging ==
    {local.number - 1, local.number + 1} \cap (1..ComputedTotalPages(local))

TurnTransactions ==
    /\ On("transactions")
    /\ \E number \in TransactionsPaging : Asks([local EXCEPT !.number = number])

TransactionsArrive ==
    /\ local.page = "transactions" /\ local.fetching
    /\ LET l == [local EXCEPT !.fetching = FALSE]
           failed == {[l EXCEPT !.failed = ~local.own]}
           answered == {[l EXCEPT !.own = TRUE, !.kept = pages] : pages \in 1..MaxPages} IN
       \E m \in failed \cup answered : \E n \in Clamped(m) : Sets(n)

-----------------------------------------------------------------------------
\* What the page waits for.
AdminPagesWait ==
    (IF \/ local.page = "inventory" /\ Loads("services")
        \/ local.page = "users" /\ local.sent = 0 /\ ~Row(local).has /\ ~Row(local).failed
        \/ local.page = "transactions" /\ local.kept = 0 /\ ~local.failed
       THEN {"data"} ELSE {})
    \cup (IF \/ local.page = "inventory" /\ Loads("extras")
             \/ local.page = "users" /\ local.sent # 0 /\ ~Row(local).has /\ ~Row(local).failed
            THEN {"moreData"} ELSE {})
    \cup (IF \/ local.page = "inventory" /\ local.submitting
             \/ local.page = "users" /\ "createUser" \in local.sending
            THEN {"sent"} ELSE {})
    \cup (IF local.page = "users" /\ "registerStaff" \in local.sending THEN {"moreSent"} ELSE {})

AdminPagesMount == InventoryMount \/ UsersMount \/ TransactionsMount

AdminPagesSettle ==
    \/ \E kind \in Writes : InventoryWritten(kind)
    \/ ListsRefreshed \/ UsersDebounced \/ ServerListsUsers \/ UsersArrive
    \/ \E form \in UserFormKinds : UserAdded(form)
    \/ ServerSetsRole \/ RoleSettles \/ TransactionsDebounced \/ TransactionsArrive

AdminPagesFairness ==
    /\ \A kind \in Writes : WF_vars(InventoryWritten(kind))
    /\ WF_vars(ListsRefreshed) /\ WF_vars(UsersDebounced) /\ WF_vars(ServerListsUsers)
    /\ WF_vars(UsersArrive)
    /\ \A form \in UserFormKinds : WF_vars(UserAdded(form))
    /\ WF_vars(ServerSetsRole) /\ WF_vars(RoleSettles)
    /\ WF_vars(TransactionsDebounced) /\ WF_vars(TransactionsArrive)

AdminPagesActions ==
    \/ EditInventory \/ RefreshInventory \/ WriteInventory
    \/ UsersTyped \/ UsersTurn \/ UserForms \/ UsersReload \/ EditRole \/ SaveRole
    \/ FilterTransactions \/ TurnTransactions
=============================================================================
