----------------------------- MODULE ServiceCalls -----------------------------
(***************************************************************************)
(* What the HTTP and gRPC services share: the requests, the failures, and  *)
(* the translations an error goes through on its way to the client.  An    *)
(* error is thrown in a use case, becomes a status in the service          *)
(* (http-error-mapper.ts, grpc-error-mapper.ts), an error again in the     *)
(* gateway (orders-api.ts, accounts-api.ts) and a code of the GraphQL      *)
(* answer (error-mapping.ts).                                              *)
(*                                                                         *)
(* A process that dies is a request that takes no further step.            *)
(***************************************************************************)
EXTENDS Naturals

CONSTANTS
    Request,     \* requests; what a request creates takes its identity
    Faults       \* failures considered: a subset of
                 \* {"db", "network", "deadline", "redis"}

VARIABLE disturbed   \* history: requests that met a failure

Fault(r, kind) ==
    /\ kind \in Faults
    /\ disturbed' = disturbed \cup {r}

(***************************************************************************)
(* Errors: the classes of AppError.ts and orders-service, and those of     *)
(* zod, jsonwebtoken and everything else.                                  *)
(***************************************************************************)
Error == {"Validation", "NotFound", "Conflict", "Unauthorized", "Forbidden", "Unexpected",
          "InsufficientStock", "Zod", "JsonWebToken", "Other"}

\* mapErrorToHttpStatus of orders-service
OrdersStatus(error) ==
    CASE error \in {"Validation", "Zod"}           -> 400
      [] error = "Unauthorized"                    -> 401
      [] error = "Forbidden"                       -> 403
      [] error = "NotFound"                        -> 404
      [] error \in {"Conflict", "InsufficientStock"} -> 409
      [] OTHER                                     -> 500

\* mapErrorToHttpStatus of accounts-service
AccountsStatus(error) ==
    CASE error = "JsonWebToken"      -> 401
      [] error = "InsufficientStock" -> 500
      [] OTHER                       -> OrdersStatus(error)

\* mapErrorToGrpcStatus
GrpcStatus(error) ==
    CASE error = "Validation"   -> "INVALID_ARGUMENT"
      [] error = "NotFound"     -> "NOT_FOUND"
      [] error = "Conflict"     -> "ALREADY_EXISTS"
      [] error = "Unauthorized" -> "UNAUTHENTICATED"
      [] error = "Forbidden"    -> "PERMISSION_DENIED"
      [] OTHER                  -> "INTERNAL"

\* What a method of OrdersApi throws when the response is not ok.
OrdersApiError(call, status) ==
    CASE status = 409 /\ call \in {"createEvent", "createOrder"} -> "Conflict"
      [] status = 404 /\ call \in {"createOrder", "payOrder"}    -> "NotFound"
      [] OTHER                                                   -> "Unexpected"

\* What AccountsApi.me throws when the response is not ok.
AccountsApiError(status) ==
    CASE status = 401 -> "Unauthorized"
      [] status = 404 -> "NotFound"
      [] OTHER        -> "Unexpected"

\* formatError
GraphQlCode(error) ==
    CASE error = "Unauthorized" -> "UNAUTHENTICATED"
      [] error = "Forbidden"    -> "FORBIDDEN"
      [] error = "NotFound"     -> "NOT_FOUND"
      [] error = "Conflict"     -> "CONFLICT"
      [] OTHER                  -> "INTERNAL_SERVER_ERROR"
=============================================================================
