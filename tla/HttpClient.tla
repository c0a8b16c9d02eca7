----------------------------- MODULE HttpClient -----------------------------
(***************************************************************************)
(* request_json of src/sdk/python/src/animus_sdk/http_client.py: one      *)
(* synchronous request through urllib, from building the headers to the  *)
(* value returned or the exception raised.                                 *)
(*                                                                         *)
(* What urllib does is the environment.  A failure to connect or to send  *)
(* is wrapped in URLError; a timeout or a dropped connection while         *)
(* waiting for the response headers (h.getresponse()) or while reading    *)
(* the body (resp.read()) propagates as a raw socket.timeout/OSError; the  *)
(* default opener raises HTTPError for every status outside 200..299, so  *)
(* the body of the `with` block only ever sees a 2xx status.               *)
(*                                                                         *)
(* A token is a string abstracted to its non-blank core and whether it     *)
(* carries surrounding whitespace; a body is the kind of JSON document    *)
(* it is; an error object carries the server's code and request id.       *)
(***************************************************************************)
EXTENDS Naturals

CONSTANTS
  Calls,          \* request_json arguments the callers pass
  EnvTokens,      \* values of ANIMUS_AUTH_TOKEN
  OkStatuses,     \* 2xx statuses
  ErrorStatuses,  \* statuses urllib turns into HTTPError
  Null            \* model value: None

Bodies == {"empty", "invalid", "list", "obj", "obj_err"}

VARIABLES
  call,       \* [method, json_body, data, headers, auth_token]
  env_token,
  sent,       \* Null, or the headers of the request sent
  phase,      \* "start", "send", "read", "http_error", "done"
  status,     \* status of the response, 0 while there is none
  outcome     \* Null, [kind |-> "return", ...] or [kind |-> "raise", ...]

http_vars == <<call, env_token, sent, phase, status, outcome>>

Truthy(s) == s # Null /\ (s.core # "" \/ s.pad)

Strip(s) == [core |-> s.core, pad |-> FALSE]

Returned(v) == [kind |-> "return", value |-> v]

Raised(exc) == [kind |-> "raise", exc |-> exc]

APIError(st, code, rid) ==
  [kind |-> "raise", exc |-> "AnimusAPIError", status |-> st, code |-> code, request_id |-> rid]

(* Bug variant: the environment token used without .strip(). *)
TokenUnstripped(auth, env) == IF Truthy(auth) THEN auth ELSE env

(* token = auth_token or os.environ.get("ANIMUS_AUTH_TOKEN", "").strip() *)
Token(auth, env) == IF Truthy(auth) THEN auth ELSE Strip(env)

(* The headers sent: the caller's, then setdefault of Authorization (if   *)
(* the token is non-empty), X-Request-Id and, with a body, Content-Type.  *)
(* A header the caller set is kept as is.                                  *)
RequestHeaders(c, env) ==
  LET tok == Token(c.auth_token, env)
  IN [authorization |->
        IF "Authorization" \in c.headers THEN [source |-> "caller"]
        ELSE IF Truthy(tok) THEN [source |-> "bearer", token |-> tok]
        ELSE [source |-> "none"],
      request_id |-> IF "X-Request-Id" \in c.headers THEN "caller_rid" ELSE "client_rid",
      content_type |-> "Content-Type" \in c.headers \/ c.json_body \/ c.data,
      body |-> c.json_body \/ c.data]

(* Bug variant: `or code` dropped, so a missing "error" gives "None". *)
ErrorCodeNoFallback(body) == IF body = "obj_err" THEN "server_code" ELSE "None"

(* code = str(parsed.get("error") or "request_failed") for a JSON object,  *)
(* "request_failed" otherwise.                                             *)
ErrorCode(body) == IF body = "obj_err" THEN "server_code" ELSE "request_failed"

(* Bug variant: the client's X-Request-Id reported for every error. *)
ServerRequestIdClient(body) == IF body = "obj_err" THEN "server_rid" ELSE "client_rid"

(* request_id = str(parsed.get("request_id") or "") or None *)
ServerRequestId(body) == IF body = "obj_err" THEN "server_rid" ELSE Null

-----------------------------------------------------------------------------

RequestInit ==
  /\ sent = Null
  /\ phase = "start"
  /\ status = 0
  /\ outcome = Null

Init ==
  /\ call \in Calls
  /\ env_token \in EnvTokens
  /\ RequestInit

(* Lines 20-42: reject json_body together with data, build the headers. *)
BuildRequest ==
  /\ phase = "start"
  /\ IF call.json_body /\ call.data
       THEN /\ outcome' = Raised("ValueError")
            /\ phase' = "done"
            /\ UNCHANGED sent
       ELSE /\ sent' = RequestHeaders(call, env_token)
            /\ phase' = "send"
            /\ UNCHANGED outcome
  /\ UNCHANGED <<call, env_token, status>>

(* urlopen fails to connect or send: URLError becomes network_error. *)
ConnectFails ==
  /\ phase = "send"
  /\ outcome' = APIError(0, "network_error", Null)
  /\ phase' = "done"
  /\ UNCHANGED <<call, env_token, sent, status>>

(* No response headers before the timeout, or the server closes the      *)
(* connection: the socket error is not a URLError and propagates.          *)
ResponseStalls ==
  /\ phase = "send"
  /\ outcome' = Raised("TimeoutError")
  /\ phase' = "done"
  /\ UNCHANGED <<call, env_token, sent, status>>

(* A 2xx response: the `with` block runs. *)
Answer ==
  /\ phase = "send"
  /\ \E s \in OkStatuses : status' = s
  /\ phase' = "read"
  /\ UNCHANGED <<call, env_token, sent, outcome>>

(* A non-2xx response: urlopen raises HTTPError. *)
Reject ==
  /\ phase = "send"
  /\ \E s \in ErrorStatuses : status' = s
  /\ phase' = "http_error"
  /\ UNCHANGED <<call, env_token, sent, outcome>>

(* Lines 46-62: read and parse the body of a 2xx response; the read can   *)
(* time out, which nothing in request_json catches.                        *)
ReadBody ==
  /\ phase = "read"
  /\ \E b \in Bodies \cup {"timeout"} :
       outcome' =
         CASE b = "timeout" -> Raised("TimeoutError")
           [] b = "empty"   -> Returned(Null)
           [] b = "invalid" -> APIError(status, "invalid_json_response", sent.request_id)
           [] status >= 400 -> APIError(status, ErrorCode(b), ServerRequestId(b))
           [] OTHER         -> Returned(b)
  /\ phase' = "done"
  /\ UNCHANGED <<call, env_token, sent, status>>

(* Lines 63-83: e.read() (any failure reads as b""), parse, and raise     *)
(* AnimusAPIError with the server's code and request id when the body is  *)
(* a JSON object that has them.                                            *)
ReadErrorBody ==
  /\ phase = "http_error"
  /\ \E b \in Bodies \cup {"unreadable"} :
       outcome' = APIError(status, ErrorCode(b), ServerRequestId(b))
  /\ phase' = "done"
  /\ UNCHANGED <<call, env_token, sent, status>>

RequestNext ==
  \/ BuildRequest \/ ConnectFails \/ ResponseStalls \/ Answer \/ Reject
  \/ ReadBody \/ ReadErrorBody

Spec == Init /\ [][RequestNext]_http_vars

-----------------------------------------------------------------------------

Outcomes ==
  {Null} \cup {Returned(v) : v \in {Null, "list", "obj", "obj_err"}}
  \cup {Raised(e) : e \in {"ValueError", "TimeoutError"}}
  \cup {APIError(s, c, r) : s \in {0} \cup OkStatuses \cup ErrorStatuses,
                            c \in {"network_error", "invalid_json_response",
                                   "request_failed", "server_code"},
                            r \in {Null, "caller_rid", "client_rid", "server_rid"}}

TypeOK ==
  /\ call \in Calls
  /\ phase \in {"start", "send", "read", "http_error", "done"}
  /\ status \in {0} \cup OkStatuses \cup ErrorStatuses
  /\ outcome \in Outcomes

(* Every request request_json sends has an Authorization that is the      *)
(* caller's own header or Bearer with a token that is not blank, and it   *)
(* has one whenever the caller's token or the environment's is non-blank: *)
(* a blank ANIMUS_AUTH_TOKEN never turns into "Bearer " plus whitespace.  *)
BearerTokenNonBlank ==
  sent # Null =>
    /\ sent.authorization.source = "bearer" => sent.authorization.token.core # ""
    /\ (sent.authorization.source = "none") =
         ("Authorization" \notin call.headers /\ ~Truthy(call.auth_token)
            /\ env_token.core = "")

(* An AnimusAPIError describes what happened: status 0 and network_error   *)
(* exactly when no response arrived, otherwise the response's status; the *)
(* server's error code and request id when its body is an error object,   *)
(* request_failed and no id for any other error response, and the         *)
(* client's own X-Request-Id only for an unparsable 2xx body.              *)
ErrorDescribesResponse ==
  (outcome # Null /\ outcome.kind = "raise" /\ outcome.exc = "AnimusAPIError") =>
    /\ (outcome.status = 0) = (outcome.code = "network_error")
    /\ outcome.status = status
    /\ outcome.code = "invalid_json_response" => outcome.request_id = sent.request_id
    /\ outcome.code \in {"request_failed", "network_error"} => outcome.request_id = Null
    /\ outcome.code = "server_code" => outcome.request_id = "server_rid"

=============================================================================
