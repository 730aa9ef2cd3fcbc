----------------------------- MODULE Transport -----------------------------
(***************************************************************************)
(* The HTTP client that a Transport (cfire/transport.py) owns, and what    *)
(* the backend over it (cfire/backends.py) makes of the outcomes of a      *)
(* request.                                                                *)
(*                                                                         *)
(* Transport sets _client before its first await and resets it after its   *)
(* last one, so the client has a third state, "closed", between the start  *)
(* of aclose() and the end: it is still set, but refuses requests.         *)
(***************************************************************************)
EXTENDS Naturals

VARIABLE client     \* Transport._client: "none", "live" or "closed"

\* open(): a client that is there already, a closed one too, is left alone.
OpenClient == client' = IF client = "none" THEN "live" ELSE client

\* aclose(): httpx refuses requests from its first step on.
CloseBegins == client # "none" /\ client' = "closed"
CloseEnds == client' = "none"

ClassifyHttpError(status) ==
  CASE status = 429 -> "RateLimitError"
    [] status \in {401, 403} -> "AuthError"
    [] status \in (400..499) \ {401, 403, 429} -> "BadRequestError"
    [] OTHER -> "ServerError"

StatusErrors == {ClassifyHttpError(status) : status \in {400, 401, 403, 404, 429, 500, 503}}

\* CerebrasBackend.complete may raise the error of a status, what post_chat
\* makes of a timeout or of a refused connection, any other exception of httpx,
\* or the one of parsing a body that is not JSON, that of a redirect for one.
CompleteErrors ==
  StatusErrors \cup {"RequestTimeoutError", "ServerError", "HTTPError", "JSONDecodeError"}

\* CerebrasBackend.stream: stream_chat maps no exception of httpx, and a body
\* that is no event stream has no chunks.
StreamErrors == StatusErrors \cup {"HTTPError"}

\* The subclasses of RetryableError.
Retryable == {"RateLimitError", "ServerError", "RequestTimeoutError"}
=============================================================================
