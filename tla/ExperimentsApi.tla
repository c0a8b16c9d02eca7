---------------------------- MODULE ExperimentsApi ----------------------------
(***************************************************************************)
(* One call of ExperimentsClient (src/sdk/python/src/animus_sdk/          *)
(* experiments.py) through request_json (HttpClient), and the exit status *)
(* main() of src/open/demo/learn/main.py gives the process when the call  *)
(* ends a job.                                                             *)
(*                                                                         *)
(* The request body is kept only for create_run, whose fields the client  *)
(* filters; a field value is "v" (a non-empty string), "" or Null, and     *)
(* params/metrics are the dicts "{}".  What get_git_metadata() (not in    *)
(* this source tree) returns is an input: Null or the repo, commit and    *)
(* ref strings of the working copy.                                        *)
(***************************************************************************)
EXTENDS Naturals

CONSTANTS
  Methods,        \* the ExperimentsClient methods called
  ClientTokens,   \* auth_token passed to ExperimentsClient(...)
  EnvTokens,      \* ANIMUS_AUTH_TOKEN
  Secrets,        \* ci_secret, or ANIMUS_CI_WEBHOOK_SECRET
  GitMetas,       \* what get_git_metadata() returns
  DatasetIds,     \* dataset_version_id passed to create_run
  OkStatuses, ErrorStatuses, Null

VARIABLES
  method, client_token, secret, git_meta, dataset_id,
  stage,      \* "build", "request", "exit", "done"
  body,       \* the create_run JSON body sent, Null for other methods
  exit_code,  \* Null, then what main() returns
  call, env_token, sent, phase, status, outcome   \* request_json's

vars == <<method, client_token, secret, git_meta, dataset_id, stage, body, exit_code,
          call, env_token, sent, phase, status, outcome>>

Request(m, json, data, hdrs, auth) ==
  [method |-> m, json_body |-> json, data |-> data, headers |-> hdrs, auth_token |-> auth]

(* The request_json arguments of each method. *)
CallOf(m, auth) ==
  CASE m = "list_experiments" -> Request("GET", FALSE, FALSE, {}, auth)
    [] m = "post_ci_webhook"  ->
         Request("POST", FALSE, TRUE, {"X-Animus-CI-Ts", "X-Animus-CI-Sig"}, auth)
    [] OTHER                  -> Request("POST", TRUE, FALSE, {}, auth)

Calls == {CallOf(m, a) : m \in Methods,
                          a \in {Null} \cup {[core |-> t.core, pad |-> FALSE] :
                                              t \in (ClientTokens \cup EnvTokens) \ {Null}}}

Http == INSTANCE HttpClient

(* self._auth_token = (auth_token or env or "").strip() or None *)
ClientAuth(auth, env) ==
  LET t == IF Http!Truthy(auth) THEN auth ELSE env
  IN IF t.core # "" THEN Http!Strip(t) ELSE Null

GitField(meta, f) == IF meta = Null THEN "" ELSE meta[f]

(* Bug variant: only None values dropped from the body. *)
RunBodyNoneOnly(meta, dsid) ==
  LET raw == [dataset_version_id |-> dsid, status |-> "v", started_at |-> Null,
              ended_at |-> Null, git_repo |-> GitField(meta, "repo"),
              git_commit |-> GitField(meta, "commit"), git_ref |-> GitField(meta, "ref"),
              params |-> "{}", metrics |-> "{}", artifacts_prefix |-> ""]
  IN [f \in {g \in DOMAIN raw : raw[g] # Null} |-> raw[f]]

(* create_run's body: dataset_version_id or "", the status, the two       *)
(* timestamps (None here), the git fields of git_meta ("" without one),   *)
(* params or {}, metrics or {}, artifacts_prefix or ""; then every value   *)
(* that is None or "" is dropped.                                          *)
RunBody(meta, dsid) ==
  LET raw == [dataset_version_id |-> dsid, status |-> "v", started_at |-> Null,
              ended_at |-> Null, git_repo |-> GitField(meta, "repo"),
              git_commit |-> GitField(meta, "commit"), git_ref |-> GitField(meta, "ref"),
              params |-> "{}", metrics |-> "{}", artifacts_prefix |-> ""]
  IN [f \in {g \in DOMAIN raw : raw[g] \notin {Null, ""}} |-> raw[f]]

NoGit == [repo |-> "", commit |-> "", ref |-> ""]

(* create_run_with_git: git_meta = get_git_metadata() or an empty          *)
(* GitMetadata; it passes git=git_meta if git_meta.commit, else None.      *)
WithGitArgument(meta) ==
  LET fetched == IF meta = Null THEN NoGit ELSE meta
  IN IF fetched.commit # "" THEN fetched ELSE Null

(* create_run: git_meta = git or get_git_metadata(); a GitMetadata is      *)
(* always truthy, so only git=None fetches the metadata again.             *)
RunGit(m, meta) ==
  LET arg == IF m = "create_run_with_git" THEN WithGitArgument(meta) ELSE Null
  IN IF arg # Null THEN arg ELSE meta

(* Bug variant: except clauses in the other order. *)
ExitStatusExceptionFirst(out) == IF out.kind = "raise" THEN 1 ELSE 0

(* main(): 0 when the job returns, 2 for AnimusAPIError, 1 for any other *)
(* exception.                                                             *)
ExitStatus(out) ==
  CASE out.kind = "return"        -> 0
    [] out.exc = "AnimusAPIError" -> 2
    [] OTHER                      -> 1

(* Bug variant: the result used without `assert isinstance(out, dict)`. *)
CheckedNoAssert(out) == out

(* `assert isinstance(out, dict)` after request_json. *)
Checked(out) ==
  IF out.kind = "return" /\ out.value \notin {"obj", "obj_err"}
    THEN [kind |-> "raise", exc |-> "AssertionError"]
    ELSE out

-----------------------------------------------------------------------------

Init ==
  /\ method \in Methods
  /\ client_token \in ClientTokens
  /\ secret \in Secrets
  /\ git_meta \in GitMetas
  /\ dataset_id \in DatasetIds
  /\ stage = "build"
  /\ body = Null
  /\ exit_code = Null
  /\ call = Null
  /\ env_token \in EnvTokens
  /\ Http!RequestInit

(* The method builds its request; post_ci_webhook first requires a        *)
(* non-blank secret and raises ValueError without one.                     *)
BuildCall ==
  /\ stage = "build"
  /\ IF method = "post_ci_webhook" /\ secret.core = ""
       THEN /\ outcome' = [kind |-> "raise", exc |-> "ValueError"]
            /\ stage' = "exit"
            /\ UNCHANGED <<call, body>>
       ELSE /\ call' = CallOf(method, ClientAuth(client_token, env_token))
            /\ body' = IF method \in {"create_run", "create_run_with_git"}
                         THEN RunBody(RunGit(method, git_meta), dataset_id) ELSE Null
            /\ stage' = "request"
            /\ UNCHANGED outcome
  /\ UNCHANGED <<method, client_token, secret, git_meta, dataset_id, exit_code,
                 env_token, sent, phase, status>>

(* One step of request_json. *)
RequestStep ==
  /\ stage = "request"
  /\ Http!RequestNext
  /\ UNCHANGED <<method, client_token, secret, git_meta, dataset_id, stage, body, exit_code>>

(* request_json has returned or raised; the method checks the result. *)
CheckResult ==
  /\ stage = "request"
  /\ phase = "done"
  /\ outcome' = Checked(outcome)
  /\ stage' = "exit"
  /\ UNCHANGED <<method, client_token, secret, git_meta, dataset_id, body, exit_code,
                 call, env_token, sent, phase, status>>

(* The job ends here: main() maps the outcome to the exit status. *)
Exit ==
  /\ stage = "exit"
  /\ exit_code' = ExitStatus(outcome)
  /\ stage' = "done"
  /\ UNCHANGED <<method, client_token, secret, git_meta, dataset_id, body,
                 call, env_token, sent, phase, status, outcome>>

Next == BuildCall \/ RequestStep \/ CheckResult \/ Exit

Spec == Init /\ [][Next]_vars

-----------------------------------------------------------------------------

RunFields == {"dataset_version_id", "status", "started_at", "ended_at", "git_repo",
              "git_commit", "git_ref", "params", "metrics", "artifacts_prefix"}

TypeOK ==
  /\ stage \in {"build", "request", "exit", "done"}
  /\ body \in {Null} \cup UNION {[F -> {"v", "{}"}] : F \in SUBSET RunFields}
  /\ exit_code \in {Null, 0, 1, 2}
  /\ stage = "request" => Http!TypeOK

(* request_json never sends a blank Bearer token, and sends one whenever  *)
(* the client's or the environment's token is non-blank (HttpClient).      *)
BearerTokenNonBlank == Http!BearerTokenNonBlank

(* Every AnimusAPIError request_json raises carries the response's status, *)
(* the server's code and request id or the documented fallbacks            *)
(* (HttpClient).                                                           *)
ErrorDescribesResponse == Http!ErrorDescribesResponse

(* The exit status follows the server's answer: 0 only after a 2xx status *)
(* with a JSON object (an empty, list or unparsable body is a failure),    *)
(* and 2, the status of API errors, for every error status.                *)
ExitStatusMatchesResponse ==
  exit_code # Null =>
    /\ exit_code = 0 =>
         /\ status \in OkStatuses
         /\ outcome.kind = "return" /\ outcome.value \in {"obj", "obj_err"}
    /\ status \in ErrorStatuses => exit_code = 2

(* Spec, section 6: a collaborator request that fails ends the process    *)
(* with the status reserved for API errors.  A request fails when no       *)
(* response arrives or the response has an error status.                   *)
CollaboratorFailureExitsTwo ==
  (exit_code # Null /\ sent # Null /\ status \notin OkStatuses) => exit_code = 2

(* create_run_with_git leaves the git fields out when the working copy    *)
(* has no commit (it passes git=None for that): a run never records a      *)
(* git_repo or git_ref without a git_commit.                               *)
GitFieldsOnlyWithCommit ==
  (method = "create_run_with_git" /\ body # Null) =>
    ({"git_repo", "git_ref"} \cap DOMAIN body # {} => "git_commit" \in DOMAIN body)

=============================================================================
