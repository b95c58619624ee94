------------------------------ MODULE MCWebApp ------------------------------
(***************************************************************************)
(* Tours for TLC: one behaviour of the tab visits the pages of one tour    *)
(* with the controls and the moves of that tour.                           *)
(***************************************************************************)
EXTENDS WebApp

MCCatalog == <<[category |-> 1, price |-> 1], [category |-> 2, price |-> 2]>>
MCExtraPrice == <<1, 1>>
MCSpecials == {0, 2}

Tour(who, signedIn, paths, uses, moves, orders) ==
    [who |-> who, signedIn |-> signedIn, paths |-> paths, uses |-> uses,
     moves |-> moves, orders |-> orders]

Visitor(paths, uses, moves) == Tour("user", FALSE, paths, uses, moves, 0)
Customer(paths, uses, moves, orders) == Tour("user", TRUE, paths, uses, moves, orders)
Staff(paths, uses, moves, orders) == Tour("staff", TRUE, paths, uses, moves, orders)

Admin(paths, uses, moves, orders) == Tour("admin", TRUE, paths, uses, moves, orders)

OrderPaths == {"/order", "/order/payment", "/order/confirmation"}
Stepper == {"next", "prev", "day", "slot"}

CustomerTours == {
    \* becoming a customer
    Visitor({"/login", "/"}, {"logout", "reload"}, 1),
    Visitor({"/signup", "/onboarding", "/onboarding/verify", "/"}, {}, 0),
    Visitor({"/login", "/onboarding"}, {"reload"}, 1),
    Visitor({"/forgot-password", "/reset-password", "/login"}, {}, 1),
    \* booking and paying
    Customer(OrderPaths, Stepper \cup {"category", "month", "reload"}, 1, 1),
    Customer(OrderPaths, Stepper \cup {"extra", "quantity", "service", "apply"}, 0, 1),
    Customer(OrderPaths \ {"/order/confirmation"}, Stepper \cup {"apply"}, 1, 2),
    Customer(OrderPaths \ {"/order/confirmation"}, Stepper \ {"prev"}, 2, 2),
    \* the customer's own pages
    Customer({"/account"}, {"logout", "reload"}, 1, 0),
    Customer({"/", "/account"}, {}, 1, 0),
    Customer({"/profile"}, {"edit", "cancel", "update", "openForm", "closeForm", "add", "delete"}, 0, 0),
    Customer({"/profile", "/myloyalty", "/past-orders"}, {"edit", "cancel", "update"}, 1, 0)}

StaffTours == {
    Staff({"/staff/dashboard"}, {"logout", "reload"}, 2, 2),
    Staff({"/staff/dashboard", "/staff/payment"}, {"pin", "type"}, 0, 2),
    Staff({"/staff/payment"}, {"manual", "qr", "type", "record", "close"}, 0, 1),
    Staff({"/staff/payment"}, {"scan", "stop"}, 0, 1),
    Staff({"/staff/vehicle-manager"},
          {"search", "adds", "type", "select", "delete", "owner", "add"}, 1, 2),
    Staff({"/staff/wash-history", "/staff/analytics"},
          {"period", "type", "choose", "clear", "open", "close"}, 1, 2),
    Staff({"/staff/customer-analytics", "/staff/manual-visit"}, {}, 2, 2),
    Admin({"/admin/inventory"}, {"fill", "createItem", "remove", "delete", "keep", "refresh"}, 0, 1),
    Admin({"/admin/inventory"}, {"edit", "save", "cancel"}, 0, 1),
    Admin({"/admin/users-admin"}, {"turn"}, 0, 1),
    Admin({"/admin/users-admin"}, {"reload"}, 0, 2),
    Admin({"/admin/users-admin"}, {"search"}, 0, 0),
    Admin({"/admin/users-admin"}, {"createUser", "registerStaff"}, 0, 0),
    Admin({"/admin/transactions"}, {}, 0, 0)}
=============================================================================
