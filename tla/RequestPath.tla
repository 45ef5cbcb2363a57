----------------------------- MODULE RequestPath -----------------------------
(***************************************************************************)
(* What gateway, subscription service, weather clients and the email       *)
(* service's HTTP endpoint make of a request and of each other's answers:  *)
(* which inputs they refuse, and how an outcome is renamed on its way      *)
(* back.  A status has net/http's name for it.                             *)
(***************************************************************************)

Ops == {"Subscribe", "Confirm", "Unsubscribe", "GetWeather"}
LinkOps == {"Confirm", "Unsubscribe"}
CityOps == {"Subscribe", "GetWeather"}

\* An input as the checks tell it apart: "empty" has an empty city, no token or a body
\* that cannot be decoded; "long" a city over 50 bytes; "malformed" an email or
\* frequency that is none.
Forms == {"good", "wrongMethod", "empty", "long", "malformed"}

Statuses == {"OK", "BadRequest", "NotFound", "MethodNotAllowed", "Conflict",
             "InternalServerError", "ServiceUnavailable", "GatewayTimeout"}

\* Answers by which a client is told that its own request was at fault.
Refusals == {"BadRequest", "NotFound", "MethodNotAllowed", "Conflict"}

-----------------------------------------------------------------------------
(* Gateway: what is refused and what is forwarded *)

\* config.yaml names exact paths, so a link with its token falls to the mux's "/",
\* and the handlers only ever see the path without one.
Routed(op, form) == op \in LinkOps => form = "empty"

\* ValidateCity; SanitizeInput has taken out what its second check looks for.
ValidateCity(op, form) == op \in CityOps => form # "long"

\* The handlers' checks; ValidateToken is behind a check that no routed link passes.
GatewayRefusal(op, form) ==
  CASE ~Routed(op, form)      -> "NotFound"
    [] form = "wrongMethod"   -> "MethodNotAllowed"
    [] form = "empty" \/ ~ValidateCity(op, form) -> "BadRequest"
    [] OTHER                  -> "none"

\* Mutated form of HandleServiceError: an answer cut short counts as no answer.
HandleServiceErrorEOF(result) ==
  CASE result \in {"connectionRefused", "EOF"} -> "ServiceUnavailable"
    [] result = "deadlineExceeded"  -> "GatewayTimeout"
    [] result = "noSuchHost"        -> "InternalServerError"
    [] OTHER                        -> result

\* Mutated form of HandleServiceError: no default.
HandleServiceErrorNoDefault(result) ==
  CASE result = "connectionRefused" -> "ServiceUnavailable"
    [] result = "deadlineExceeded"  -> "GatewayTimeout"
    [] OTHER                        -> result

\* The subscription service's status goes through; of the transport's errors two have
\* a status of their own.
HandleServiceError(result) ==
  CASE result = "connectionRefused" -> "ServiceUnavailable"
    [] result = "deadlineExceeded"  -> "GatewayTimeout"
    [] result \in {"noSuchHost", "EOF"} -> "InternalServerError"
    [] OTHER                        -> result

-----------------------------------------------------------------------------
(* Subscription service: HTTP handlers *)

\* gin answers 404 to a method without a route; a link without token has none either.
HandlerRefusal(op, form) ==
  CASE form = "wrongMethod" -> "NotFound"
    [] op \in LinkOps /\ form = "empty" -> "NotFound"
    [] op \in CityOps /\ form = "empty" -> "BadRequest"
    [] op = "Subscribe" /\ form = "malformed" -> "BadRequest"
    [] OTHER -> "none"

Outcomes == {"nil", "ErrCityNotFound", "ErrEmailAlreadyExists", "ErrInvalidToken",
             "ErrSubscriptionNotFound", "error"}

\* The weather handler compares with an error of its own that nobody returns.
HandlerStatus(op, outcome) ==
  CASE outcome = "nil" -> "OK"
    [] op = "Subscribe" /\ outcome = "ErrCityNotFound"        -> "BadRequest"
    [] op = "Subscribe" /\ outcome = "ErrEmailAlreadyExists"  -> "Conflict"
    [] op \in LinkOps /\ outcome = "ErrInvalidToken"          -> "BadRequest"
    [] op \in LinkOps /\ outcome = "ErrSubscriptionNotFound"  -> "NotFound"
    [] OTHER -> "InternalServerError"

-----------------------------------------------------------------------------
(* Email service: its HTTP handler *)

\* It looks neither at the method nor at what the fields say.
EmailRefusal(form) == IF form = "empty" THEN "BadRequest" ELSE "none"

\* An SMTP dialogue may still fail after the server has taken the email.
EmailStatuses(sent) == IF sent THEN {"OK", "InternalServerError"} ELSE {"InternalServerError"}

-----------------------------------------------------------------------------
(* Weather: its gRPC handlers and the two clients *)

\* The gRPC handlers return the bare error, so the client sees a status Unknown that
\* is not ErrCityNotFound; Subscribe does not look at CityIsValid's boolean.
OverGRPC(says) == IF says = "report" THEN "nil" ELSE "error"

\* Where the weather service's mux answers, and where the HTTP client asks.
RegisteredRoutes == {"/health", "/api/weather", "/api/weather/validate", "/metrics"}
RouteAsked(op) == IF op = "GetWeather" THEN "/weather" ELSE "/validate"

\* The handlers have three answers for a city; for other routes the mux has one.
WeatherStatuses(op) ==
  IF RouteAsked(op) \in RegisteredRoutes THEN {"OK", "NotFound", "InternalServerError"}
                                         ELSE {"NotFound"}

\* GetWeather takes every 404 for an unknown city.
OverHTTP(op, status) ==
  IF status = "OK" THEN "nil"
  ELSE IF op = "GetWeather" /\ status = "NotFound" THEN "ErrCityNotFound" ELSE "error"
=============================================================================
