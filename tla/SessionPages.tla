---------------------------- MODULE SessionPages ----------------------------
(***************************************************************************)
(* The pages a visitor passes to become a signed-in customer: Login,       *)
(* Signup, UnifiedOnboarding, OTPVerify, ForgotPassword and ResetPassword. *)
(*                                                                         *)
(* The visitor has one account, tour.who.  location.from tells what the    *)
(* previous page put into location.state: "email" (email and password),    *)
(* "social" (email, from Google), "socialNamed" (and the names), "named"   *)
(* (email and names, without a trace of Google).                           *)
(***************************************************************************)
EXTENDS Session

From(path, from) == [At(path) EXCEPT !.from = from]

(***************************************************************************)
(* Login.                                                                  *)
(***************************************************************************)
LoginPage == [page |-> "login", submitting |-> FALSE, failure |-> None]

\* "Complete profile setup" is offered after a 403 only, which the backend
\* never answers to a login.
LoginOffers == {"google"} \cup (IF local.submitting THEN {} ELSE {"submit"})

LoginMount == Mounts("login", "/login") /\ Sets(LoginPage)

LoginSubmit ==
    /\ On("login") /\ "submit" \in LoginOffers
    /\ SetsAndSends([local EXCEPT !.submitting = TRUE, !.failure = None],
                    {Flight("login", tour.who, <<>>)})

\* A wrong password is a 401 of an /auth/ route: the interceptor reloads the
\* tab before the page can say so.
LoginReplies(account) ==
    {IF account = "user" /\ ~server.onboarded THEN "onboarding" ELSE "ok",
     "unauthorized", "failed"}

LoginEnds == \E f \in Waiting("login"), reply \in {"ok", "onboarding", "unauthorized", "failed"} :
    /\ reply \in LoginReplies(f.key)
    /\ CASE reply = "unauthorized" -> ForcedOut
         [] reply = "failed" ->
                Hears(f, [local EXCEPT !.submitting = FALSE, !.failure = "unavailable"])
         [] reply = "onboarding" ->
                /\ storage' = [storage EXCEPT !.token = f.key]
                /\ NavigateWith(From("/onboarding", "email"), flights \ {f})
                /\ UNCHANGED <<tour, memory, cache, server>>
         [] reply = "ok" ->
                /\ storage' = [storage EXCEPT !.token = f.key, !.role = f.key]
                /\ memory' = [memory EXCEPT !.user = f.key]
                /\ Navigate(HomeOf(f.key), flights \ {f})
                /\ UNCHANGED <<tour, cache, server>>

\* handleSocial: its button stays enabled while a popup is open.
GoogleStarts ==
    /\ On("login") /\ "google" \in LoginOffers
    /\ SetsAndSends([local EXCEPT !.failure = None], {Flight("google", tour.who, <<>>)})

\* The popup of Firebase closes: with an account, whose token goes to the
\* backend, or without.
GooglePopupEnds == \E f \in Waiting("google") :
    \/ Hears(f, [local EXCEPT !.failure = "social"])
    \/ /\ flights' = GoesOn(f, "social", <<>>)
       /\ UNCHANGED <<tour, location, history, local, memory, storage, cache, server>>

SocialEnds == \E f \in Waiting("social"), reply \in {"ok", "profile", "phone", "unauthorized", "failed"} :
    /\ reply \in {"unauthorized", "failed"} \cup
         IF f.key = "user" /\ ~server.onboarded THEN {"profile", "phone"} ELSE {"ok"}
    /\ CASE reply = "unauthorized" -> ForcedOut
         [] reply = "failed" -> Hears(f, [local EXCEPT !.failure = "social"])
         [] reply \in {"profile", "phone"} ->
                /\ storage' = [storage EXCEPT !.token = f.key]
                /\ NavigateWith(From("/onboarding", IF reply = "phone" THEN "socialNamed" ELSE "social"),
                                flights \ {f})
                /\ UNCHANGED <<tour, memory, cache, server>>
         [] reply = "ok" ->
                /\ storage' = [storage EXCEPT !.token = f.key]
                /\ flights' = GoesOn(f, "token", <<0>>)
                /\ UNCHANGED <<tour, location, history, local, memory, cache, server>>

(***************************************************************************)
(* Signup.                                                                 *)
(***************************************************************************)
SignupMount == Mounts("signup", "/signup")
               /\ Sets([page |-> "signup", submitting |-> FALSE, failure |-> None])

SignupSubmit ==
    /\ On("signup") /\ ~local.submitting
    /\ SetsAndSends([local EXCEPT !.submitting = TRUE, !.failure = None],
                    {Flight("signup", tour.who, <<>>)})

SignupEnds == \E f \in Waiting("signup") :
    \/ Hears(f, [local EXCEPT !.submitting = FALSE, !.failure = "refused"])
    \/ /\ NavigateWith(From("/onboarding", "email"), flights \ {f})
       /\ UNCHANGED <<tour, memory, storage, cache, server>>

(***************************************************************************)
(* UnifiedOnboarding: the names, then the phone number.                    *)
(***************************************************************************)
NamesGiven == location.from \in {"socialNamed", "named"}

OnboardingPage == [page |-> "onboarding", step |-> IF NamesGiven THEN 2 ELSE 1,
                   names |-> NamesGiven \/ (location.from = None /\ storage.draft),
                   phone |-> FALSE, loading |-> FALSE, sending |-> FALSE,
                   recaptcha |-> FALSE, failure |-> None]

\* What the form of each step lets the visitor do; while it loads there is no form.
OnboardingOffers ==
    IF local.loading THEN {}
    ELSE IF local.step = 1 THEN {"names", "continue"}
    ELSE {"phone"} \cup IF local.sending \/ ~local.recaptcha THEN {} ELSE {"send"}

OnboardingMount == Mounts("onboarding", "/onboarding") /\ Sets(OnboardingPage)

\* Every change of the form is saved as the draft a reload starts from.
DraftOf(l) == [storage EXCEPT !.draft = l.names]

OnboardingType ==
    /\ On("onboarding")
    /\ LET l == CASE "names" \in OnboardingOffers -> [local EXCEPT !.names = ~@]
                  [] "phone" \in OnboardingOffers -> [local EXCEPT !.phone = ~@]
                  [] OTHER -> local IN
       /\ l # local
       /\ local' = l
       /\ storage' = DraftOf(l)
    /\ UNCHANGED <<tour, location, history, flights, memory, cache, server>>

\* The invisible reCAPTCHA, which the phone step creates once per tab.
RecaptchaStarts ==
    /\ On("onboarding") /\ local.step = 2 /\ ~local.recaptcha
    /\ local.failure # "recaptcha" /\ ~MineFlying("recaptcha")
    /\ SetsAndSends(local, {Flight("recaptcha", None, <<>>)})

RecaptchaEnds == \E f \in Waiting("recaptcha") :
    \/ ~memory.recaptcha /\ Hears(f, [local EXCEPT !.failure = "recaptcha"])
    \/ /\ memory' = [memory EXCEPT !.recaptcha = TRUE]
       /\ local' = IF f.mine THEN [local EXCEPT !.recaptcha = TRUE] ELSE local
       /\ flights' = flights \ {f}
       /\ UNCHANGED <<tour, location, history, storage, cache, server>>

ProfileSubmit ==
    /\ On("onboarding") /\ "continue" \in OnboardingOffers
    /\ IF ~local.names THEN Sets([local EXCEPT !.failure = "names"])
       ELSE IF location.from \in {"social", "socialNamed"}
         THEN SetsAndSends([local EXCEPT !.loading = TRUE], {Flight("names", tour.who, <<>>)})
         ELSE Sets([local EXCEPT !.failure = None, !.step = 2])

\* PUT /auth/me, whose 401 ends the session like any other of /auth/.
ProfileSaved == \E f \in Waiting("names") :
    \/ Hears(f, [local EXCEPT !.loading = FALSE, !.failure = None, !.step = 2])
    \/ Hears(f, [local EXCEPT !.loading = FALSE, !.failure = "profile"])
    \/ ForcedOut

PhoneSubmit ==
    /\ On("onboarding") /\ "send" \in OnboardingOffers
    /\ IF ~local.phone THEN Sets([local EXCEPT !.failure = "phone"])
       ELSE SetsAndSends([local EXCEPT !.sending = TRUE, !.failure = None],
                         {Flight("sms", tour.who, <<>>)})

SmsEnds == \E f \in Waiting("sms") :
    \/ Hears(f, [local EXCEPT !.sending = FALSE, !.failure = "sms"])
    \/ /\ memory' = [memory EXCEPT !.confirmation = TRUE]
       /\ NavigateWith(From("/onboarding/verify", "named"), flights \ {f})
       /\ UNCHANGED <<tour, storage, cache, server>>

(***************************************************************************)
(* OTPVerify.                                                              *)
(***************************************************************************)
OtpPage == [page |-> "verify", code |-> FALSE, waiting |-> TRUE, loading |-> FALSE,
            failure |-> None]

\* An error replaces the form for good: only a reload is offered.
OtpOffers ==
    IF local.loading \/ local.failure # None THEN {}
    ELSE {"type", "back"} \cup (IF local.code THEN {"verify"} ELSE {})
                          \cup (IF local.waiting THEN {} ELSE {"resend"})

\* The mount effects: what came in location.state is saved, and without the
\* confirmation of a sent code the visitor is sent back to the phone number.
OtpMount ==
    /\ Mounts("verify", "/onboarding/verify")
    /\ storage' = [storage EXCEPT !.data = @ \/ location.from # None]
    /\ IF memory.confirmation /\ storage'.data
         THEN local' = OtpPage /\ UNCHANGED <<location, history, flights>>
         ELSE NavigateWith(IF memory.confirmation THEN At("/signup")
                           ELSE From("/onboarding", IF storage'.data THEN "email" ELSE None), flights)
    /\ UNCHANGED <<tour, memory, cache, server>>

OtpType ==
    /\ On("verify") /\ "type" \in OtpOffers
    /\ Sets([local EXCEPT !.code = ~@])

\* The countdown of sixty seconds.
OtpTimer == On("verify") /\ local.waiting /\ Sets([local EXCEPT !.waiting = FALSE])

OtpBack ==
    /\ On("verify") /\ "back" \in OtpOffers
    /\ NavigateWith(From("/onboarding", "named"), flights)
    /\ UNCHANGED <<tour, memory, storage, cache, server>>

OtpResend ==
    /\ On("verify") /\ "resend" \in OtpOffers
    /\ SetsAndSends([local EXCEPT !.waiting = TRUE], {Flight("resend", tour.who, <<>>)})

ResendEnds == \E f \in Waiting("resend") :
    \/ Hears(f, [local EXCEPT !.waiting = FALSE])
    \/ Hears(f, local)

OtpSubmit ==
    /\ On("verify") /\ "verify" \in OtpOffers
    /\ SetsAndSends([local EXCEPT !.loading = TRUE], {Flight("confirm", tour.who, <<>>)})

\* Firebase checks the code; then the backend is asked for a token, up to
\* MaxExchanges times.
MaxExchanges == 3
OtpFails(f) == Hears(f, [local EXCEPT !.loading = FALSE, !.failure = "otp"])

ConfirmEnds == \E f \in Waiting("confirm") :
    \/ OtpFails(f)
    \/ /\ flights' = GoesOn(f, "exchange", <<1>>)
       /\ UNCHANGED <<tour, location, history, local, memory, storage, cache, server>>

\* POST /auth/confirm-otp.  The answer may be lost after the account has been
\* onboarded; a repeated exchange finds it onboarded and answers as the first.
ExchangeEnds == \E f \in Waiting("exchange"), reply \in {"ok", "lost", "refused"} :
    /\ server' = IF reply = "refused" THEN server ELSE [server EXCEPT !.onboarded = TRUE]
    /\ IF reply = "ok"
         THEN /\ storage' = [storage EXCEPT !.token = f.key]
              /\ flights' = GoesOn(f, "token", <<1>>)
              /\ UNCHANGED local
         ELSE /\ IF f.arg[1] < MaxExchanges
                   THEN /\ flights' = GoesOn(f, "exchange", <<f.arg[1] + 1>>)
                        /\ UNCHANGED local
                   ELSE /\ flights' = flights \ {f}
                        /\ local' = IF f.mine THEN [local EXCEPT !.loading = FALSE, !.failure = "otp"] ELSE local
              /\ UNCHANGED storage
    /\ UNCHANGED <<tour, location, history, memory, cache>>

\* loginWithToken hears /auth/me: for Google (arg 0) the home page follows, for
\* the code (arg 1) the registration; without an account both fail.
TokenEnds == \E f \in Waiting("token"), reply \in {"ok", "forbidden", "failed", "rejected"} :
    /\ reply \in MeReplies(f.key)
    /\ LET rest == flights \ {f} IN
       IF reply = "ok" \/ ~f.mine \/ SentToOnboarding(reply) \/ reply = "rejected"
         THEN HearsMe(f, reply,
                IF reply # "ok" THEN Nowhere
                ELSE IF f.arg = <<0>> THEN At("/")
                ELSE IF HomeOf(f.key) # "/" THEN At(HomeOf(f.key)) ELSE Nowhere,
                IF reply = "ok" /\ f.arg = <<1>>
                  THEN GoesOn(f, "register", <<>>) ELSE rest)
         ELSE /\ memory' = [memory EXCEPT !.user = UserAfter(f, reply)]
              /\ storage' = StorageAfter(f, reply)
              /\ local' = IF f.arg = <<1>> THEN [local EXCEPT !.loading = FALSE, !.failure = "otp"]
                          ELSE [local EXCEPT !.failure = "social"]
              /\ flights' = rest
              /\ UNCHANGED <<tour, location, history, cache, server>>

\* The two registration requests, whose failure is only warned about.
RegisterEnds == \E f \in Waiting("register") :
    /\ storage' = [storage EXCEPT !.justOnboarded = TRUE]
    /\ Navigate("/", flights \ {f})
    /\ UNCHANGED <<tour, memory, cache, server>>

(***************************************************************************)
(* ForgotPassword and ResetPassword.                                       *)
(***************************************************************************)
PasswordPage(name) == [page |-> name, submitting |-> FALSE, failure |-> None]

\* PageLayout shows a spinner or the error instead of the form.
PasswordOffers == IF local.submitting \/ local.failure # None THEN {} ELSE {"submit"}

ForgotMount == Mounts("forgot", "/forgot-password") /\ Sets(PasswordPage("forgot"))

ForgotSubmit ==
    /\ On("forgot") /\ "submit" \in PasswordOffers
    /\ Sets([local EXCEPT !.submitting = TRUE])

ForgotEnds ==
    /\ local.page = "forgot" /\ local.submitting
    /\ \E failure \in {None, "reset"} :
          Sets([local EXCEPT !.submitting = FALSE, !.failure = failure])

ResetMount == Mounts("reset", "/reset-password") /\ Sets(PasswordPage("reset"))

ResetSubmit ==
    /\ On("reset") /\ "submit" \in PasswordOffers
    /\ SetsAndSends([local EXCEPT !.submitting = TRUE], {Flight("reset", None, <<>>)})

\* After a success the login page follows by a timer that nothing cancels.
ResetEnds == \E f \in Waiting("reset") :
    \/ Hears(f, [local EXCEPT !.submitting = FALSE, !.failure = "reset"])
    \/ /\ local' = IF f.mine THEN [local EXCEPT !.submitting = FALSE] ELSE local
       /\ flights' = GoesOn(f, "toLogin", <<>>)
       /\ UNCHANGED <<tour, location, history, memory, storage, cache, server>>

ResetTimer == \E f \in Waiting("toLogin") :
    /\ Navigate("/login", flights \ {f})
    /\ UNCHANGED <<tour, memory, storage, cache, server>>

-----------------------------------------------------------------------------
\* What the page waits for: data to show ("data"), what was sent ("sent").
SessionPagesWait ==
    IF \/ local.page \in {"login", "signup", "forgot", "reset"} /\ local.submitting
       \/ local.page = "onboarding" /\ (local.loading \/ local.sending)
       \/ local.page = "verify" /\ local.loading
      THEN {"sent"} ELSE {}

SessionPagesMount == LoginMount \/ SignupMount \/ OnboardingMount \/ OtpMount \/ ForgotMount \/ ResetMount

SessionPagesSettle ==
    \/ LoginEnds \/ SocialEnds \/ SignupEnds \/ RecaptchaStarts \/ RecaptchaEnds
    \/ ProfileSaved \/ SmsEnds \/ OtpTimer \/ ResendEnds \/ ConfirmEnds \/ ExchangeEnds
    \/ TokenEnds \/ RegisterEnds \/ ForgotEnds \/ ResetEnds \/ ResetTimer

SessionPagesFairness ==
    /\ WF_vars(LoginEnds) /\ WF_vars(SocialEnds) /\ WF_vars(SignupEnds)
    /\ WF_vars(RecaptchaStarts) /\ WF_vars(RecaptchaEnds) /\ WF_vars(ProfileSaved)
    /\ WF_vars(SmsEnds) /\ WF_vars(OtpTimer) /\ WF_vars(ResendEnds)
    /\ WF_vars(ConfirmEnds) /\ WF_vars(ExchangeEnds) /\ WF_vars(TokenEnds)
    /\ WF_vars(RegisterEnds) /\ WF_vars(ForgotEnds) /\ WF_vars(ResetEnds)
    /\ WF_vars(ResetTimer)

SessionPagesActions ==
    \/ LoginSubmit \/ GoogleStarts \/ GooglePopupEnds \/ SignupSubmit
    \/ OnboardingType \/ ProfileSubmit \/ PhoneSubmit
    \/ OtpType \/ OtpBack \/ OtpResend \/ OtpSubmit \/ ForgotSubmit \/ ResetSubmit
=============================================================================
