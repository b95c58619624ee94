------------------------------ MODULE Session ------------------------------
(***************************************************************************)
(* The session of the tab: AuthProvider (src/Frontend/src/auth), the axios *)
(* interceptors, the route guards, and the moves every page allows: follow *)
(* a link, go back, reload.                                                *)
(*                                                                         *)
(* An account is named by its role; "user" is the only one that has to be  *)
(* onboarded.  The token in localStorage names the account it was issued   *)
(* to.                                                                     *)
(***************************************************************************)
EXTENDS Browser

Roles == {"user", "staff", "admin", "developer"}

ASSUME AccountsAssumption == \A t \in Tours : t.who \in Roles

\* The capability that RequireAdmin asks for.
CanEditTenant(role) == role = "admin"

MemoryAtBoot == [user |-> None, loading |-> TRUE, confirmation |-> FALSE,
                 recaptcha |-> FALSE, sdk |-> FALSE, table |-> EmptyTable]

(***************************************************************************)
(* Route guards.  Each one admits, shows a placeholder, or redirects.      *)
(***************************************************************************)
PublicPaths == {"/login", "/signup", "/onboarding", "/onboarding/verify",
                "/forgot-password", "/reset-password"}
StaffPaths == {"/staff/dashboard", "/staff/vehicle-manager", "/staff/wash-history",
               "/staff/payment", "/staff/analytics", "/staff/customer-analytics",
               "/staff/manual-visit"}
AdminPaths ==
    {"/admin", "/admin/overview", "/admin/users-admin", "/admin/branding", "/admin/inventory",
     "/admin/transactions", "/admin/audit", "/admin/jobs", "/admin/rate-limits",
     "/admin/register-staff", "/admin/users/edit", "/admin/modules", "/admin/customers",
     "/admin/customer", "/admin/reports", "/admin/notifications", "/admin/tenants",
     "/admin/tenants/edit", "/admin/subscription"}
    \cup {"/admin" \o path : path \in StaffPaths}
DeveloperPaths == {"/dev-admin/tenants", "/dev-admin/create"}

Restoring == memory.user = None /\ storage.token # None

RequireAuth == IF Restoring THEN "waits"
               ELSE IF memory.user = None THEN "/login" ELSE "admits"

RequireStaff == IF Restoring THEN "waits"
                ELSE IF memory.user = None THEN "/login"
                ELSE IF memory.user # "staff" THEN "/admin" ELSE "admits"

RequireAdmin == IF memory.user = None THEN "/login"
                ELSE IF ~CanEditTenant(memory.user) THEN "/" ELSE "admits"

RequireDeveloper == IF memory.user # "developer" THEN "/" ELSE "admits"

Guard(path) ==
    CASE path \in PublicPaths \cup {"elsewhere"} -> "admits"
      [] path \in StaffPaths -> IF RequireAuth = "admits" THEN RequireStaff ELSE RequireAuth
      [] path \in AdminPaths -> RequireAdmin
      [] path \in DeveloperPaths -> RequireDeveloper
      [] OTHER -> RequireAuth

\* AuthProvider renders its children only when it has stopped loading, and the
\* guards of the route render the page only if they admit it.
Rendered == ~memory.loading /\ Guard(location.path) = "admits"
On(page) == local.page = page /\ Rendered
Mounts(page, path) == local.page = None /\ location.path = path /\ Rendered

\* A guard that no longer admits the page unmounts it and redirects.
GuardActs ==
    /\ ~memory.loading
    /\ LET verdict == Guard(location.path) IN
       /\ verdict # "admits"
       /\ IF verdict = "waits"
            THEN /\ local.page # None
                 /\ local' = Unmounted
                 /\ flights' = Orphaned(flights)
                 /\ Stays
            ELSE Navigate(verdict, flights)
    /\ UNCHANGED <<tour, memory, storage, cache, server>>

(***************************************************************************)
(* Loading the tab.                                                        *)
(***************************************************************************)
\* window.location: JavaScript starts anew, localStorage and location.state stay.
Reloads(there) ==
    /\ location' = there
    /\ local' = Unmounted
    /\ flights' = {}
    /\ memory' = MemoryAtBoot
    /\ cache' = EmptyCache
    /\ UNCHANGED <<history, server>>

\* The response interceptor: 401 from an /auth/ route ends the session.
ForcedOut ==
    /\ Reloads(At(Path("/login")))
    /\ storage' = [storage EXCEPT !.token = None]
    /\ UNCHANGED tour

\* The effect of AuthProvider's first render.
Boot ==
    /\ memory.loading /\ ~Flying("boot")
    /\ IF storage.token = None
         THEN memory' = [memory EXCEPT !.loading = FALSE] /\ UNCHANGED flights
         ELSE flights' = flights \cup {Flight("boot", storage.token, <<>>)} /\ UNCHANGED memory
    /\ UNCHANGED <<tour, location, history, local, storage, cache, server>>

(***************************************************************************)
(* GET /auth/me, which internalFetchMe sends and hears.                    *)
(***************************************************************************)
MeReplies(account) ==
    {IF account = "user" /\ ~server.onboarded THEN "forbidden" ELSE "ok", "failed", "rejected"}

\* Mutant of UserAfter: a 403 is taken for an answer.
UserAfterForbidden(f, reply) ==
    IF reply \in {"ok", "forbidden"} THEN f.key ELSE None

UserAfter(f, reply) ==
    CASE reply = "ok" -> f.key
      [] reply = "forbidden" -> memory.user
      [] OTHER -> None

StorageAfter(f, reply) ==
    CASE reply = "ok" -> [storage EXCEPT !.role = f.key]
      [] reply = "forbidden" -> storage
      [] OTHER -> [storage EXCEPT !.token = None]

\* 403: the account has not been onboarded, unless an earlier session was one of the team.
SentToOnboarding(reply) ==
    /\ reply = "forbidden"
    /\ storage.role \notin {"staff", "admin", "developer"}
    /\ location.path \notin {"/onboarding", "/onboarding/verify"}

\* AuthProvider has a new user object: the effect of Welcome runs again, with
\* another chain of requests in place of the one it had.
Repolled(F) ==
    LET chain == {f \in F : f.kind = "poll" /\ f.mine} IN
    IF local.page # "welcome" THEN F
    ELSE (F \ (chain \cup {f \in F : f.kind = "pollTimer"}))
         \cup {[f EXCEPT !.kind = "pollOld", !.n = FreeNumber({g \in F : g.kind = "pollOld"})] : f \in chain}
         \cup {Flight("poll", None, <<>>)}

\* The handler of the answer; what its caller does next is the location
\* "there" it navigates to, if any, and the flights it goes on with.
HearsMe(f, reply, there, before) ==
    LET F == IF reply = "ok" THEN Repolled(before) ELSE before IN
    IF reply = "rejected" THEN ForcedOut
    ELSE /\ memory' = [memory EXCEPT !.user = UserAfter(f, reply),
                                     !.loading = @ /\ f.kind # "boot"]
         /\ storage' = StorageAfter(f, reply)
         /\ IF SentToOnboarding(reply)
              THEN NavigateWith([At("/onboarding") EXCEPT !.from = "social"], F)
            ELSE IF there # Nowhere THEN NavigateWith(there, F)
            ELSE flights' = F /\ Stays /\ UNCHANGED local
         /\ UNCHANGED <<tour, cache, server>>

BootEnds == \E f \in Waiting("boot"), reply \in {"ok", "forbidden", "failed", "rejected"} :
    reply \in MeReplies(f.key) /\ HearsMe(f, reply, Nowhere, flights \ {f})

\* refreshUser; without a token nobody is signed in, and nothing is sent.
RefreshReplies == IF storage.token = None THEN {"failed"} ELSE MeReplies(tour.who)

\* refreshUser from a page that goes on to do nothing with it.
RefreshEnds == \E f \in Waiting("refresh"), reply \in {"ok", "forbidden", "failed", "rejected"} :
    reply \in RefreshReplies /\ HearsMe(f, reply, Nowhere, flights \ {f})

\* logout(): nothing under way is cancelled and no cache is emptied.
SignsOut ==
    /\ storage' = [storage EXCEPT !.token = None]
    /\ memory' = [memory EXCEPT !.user = None]
    /\ UNCHANGED <<tour, cache, server>>

\* Where login and loginWithToken take an account.
HomeOf(account) ==
    CASE account = "admin" -> "/admin"
      [] account = "staff" -> "/staff/dashboard"
      [] OTHER -> "/"

(***************************************************************************)
(* What the user can do on any page, tour.moves times at most: a link of   *)
(* the navigation bar, the browser's buttons.                              *)
(***************************************************************************)
Moving == tour.moves > 0 /\ tour' = [tour EXCEPT !.moves = @ - 1]

StaffLinks == StaffPaths
AdminLinks ==
    {"/admin", "/admin/users-admin", "/admin/customers", "/admin/tenants", "/admin/branding",
     "/admin/modules", "/admin/inventory", "/admin/subscription", "/admin/transactions",
     "/admin/reports", "/admin/audit", "/admin/jobs", "/admin/rate-limits", "/admin/notifications"}
    \cup {"/admin" \o path : path \in StaffPaths}

\* The links of a page: the team's pages show those of their sidebar.
Links ==
    CASE location.path \in StaffPaths -> StaffLinks
      [] location.path \in AdminPaths -> AdminLinks
      [] OTHER -> tour.paths

FollowLink(path) ==
    /\ Rendered /\ Moving
    /\ path \in Links \ {location.path}
    /\ Navigate(path, flights)
    /\ UNCHANGED <<memory, storage, cache, server>>

\* The browser's Back and Forward reach any earlier location.
GoBack(there) ==
    /\ ~memory.loading /\ Moving
    /\ there # location
    /\ NavigateWith(there, flights)
    /\ UNCHANGED <<memory, storage, cache, server>>

Reload == ~memory.loading /\ Moving /\ Uses("reload") /\ Reloads(location) /\ UNCHANGED storage

\* The Logout of the navigation bars leaves the redirect to the guard.
NavLogout ==
    /\ Rendered /\ memory.user # None
    /\ Uses("logout")
    /\ SignsOut
    /\ Stays /\ UNCHANGED <<local, flights>>

SessionSettles == Boot \/ BootEnds \/ RefreshEnds \/ GuardActs

Moves == \/ \E path \in tour.paths : FollowLink(path)
         \/ \E there \in history : GoBack(there)
         \/ Reload \/ NavLogout
=============================================================================
