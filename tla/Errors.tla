-------------------------------- MODULE Errors --------------------------------
(***************************************************************************)
(* The error every entry point returns, the envelopes the two families of  *)
(* dialects send it in, and what a client makes of an envelope (error.rs,  *)
(* and error_json of anthropic/out.rs).  A message is either the error's   *)
(* own wording or, for an upstream's failure, a generic one; body is what  *)
(* the upstream had said.                                                  *)
(***************************************************************************)
EXTENDS Items

Kinds == {"UnknownModel", "NoHealthyDeployment", "RateLimited", "BudgetExceeded",
          "ModelNotAllowed", "Transport", "Unauthorized", "BadRequest", "Internal"}

Upstream(status, body, retry) ==
  [kind |-> "Upstream", status |-> status, body |-> body, retry_after_secs |-> retry]

http_status(e) ==
  CASE e.kind = "Unauthorized" -> 401
    [] e.kind = "RateLimited" -> 429
    [] e.kind \in {"BudgetExceeded", "ModelNotAllowed"} -> 403
    [] e.kind = "UnknownModel" -> 404
    [] e.kind = "NoHealthyDeployment" -> 503
    [] e.kind = "Transport" -> 502
    [] e.kind = "Upstream" -> e.status
    [] e.kind = "BadRequest" -> 400
    [] e.kind = "Internal" -> 500

Wording(e) == IF e.kind = "Upstream" THEN "upstream returned status" ELSE e.kind

-----------------------------------------------------------------------------
(* Envelopes *)
anthropic_error_type(status) ==
  CASE status = 401 -> "authentication_error"
    [] status = 403 -> "permission_error"
    [] status = 404 -> "not_found_error"
    [] status = 429 -> "rate_limit_error"
    [] status = 503 -> "overloaded_error"
    [] status = 400 -> "invalid_request_error"
    [] OTHER -> "api_error"

(* Mutant: a spent budget keeps the status it has elsewhere *)
error_json_plain(e) ==
  [status |-> http_status(e),
   body |-> [type |-> anthropic_error_type(http_status(e)), code |-> Null,
             message |-> Wording(e), retry_after |-> Null]]

error_json(e) ==
  LET status == IF e.kind = "BudgetExceeded" THEN 429 ELSE http_status(e) IN
  [status |-> status,
   body |-> [type |-> anthropic_error_type(status), code |-> Null,
             message |-> Wording(e), retry_after |-> Null]]

OpenAiType(e) ==
  CASE e.kind = "Upstream" -> "upstream_error"
    [] e.kind \in {"Transport", "Internal"} -> "server_error"
    [] e.kind \in {"BadRequest", "UnknownModel"} -> "invalid_request_error"
    [] OTHER -> "authentication_error"

OpenAiCode(e) ==
  CASE e.kind = "Unauthorized" -> "invalid_api_key"
    [] e.kind = "RateLimited" -> "rate_limit_exceeded"
    [] e.kind = "BudgetExceeded" -> "budget_exceeded"
    [] e.kind = "ModelNotAllowed" -> "model_not_allowed"
    [] e.kind = "UnknownModel" -> "model_not_found"
    [] e.kind = "NoHealthyDeployment" -> "no_healthy_deployment"
    [] e.kind = "Transport" -> "upstream_transport"
    [] e.kind = "Upstream" -> "upstream_error"
    [] e.kind = "BadRequest" -> "bad_request"
    [] e.kind = "Internal" -> "internal_error"

(* A status axum does not accept becomes 502 *)
error_response(e) ==
  [status |-> IF http_status(e) \in 100 .. 999 THEN http_status(e) ELSE 502,
   body |-> [type |-> OpenAiType(e), code |-> OpenAiCode(e),
             message |-> Wording(e), retry_after |-> Null]]

Envelope(dialect, e) ==
  IF dialect = "Anthropic" THEN error_json(e) ELSE error_response(e)

-----------------------------------------------------------------------------
(* Reading one: both dialects look at the type only *)
error_from_wire(status, body) ==
  CASE body.type \in {"authentication_error", "invalid_api_key"} -> Error("Unauthorized")
    [] body.type \in {"rate_limit_error", "rate_limit_exceeded", "tokens", "requests"} ->
         Error("RateLimited")
    [] OTHER -> Upstream(status, body.message, body.retry_after)
=============================================================================
