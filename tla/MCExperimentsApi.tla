--------------------------- MODULE MCExperimentsApi ---------------------------
(* Model-checking instance of ExperimentsApi: every method, a client token *)
(* that is missing, blank or set, an environment token that is empty,     *)
(* only whitespace, or set (with whitespace around it), two 2xx statuses, *)
(* an error status, a webhook secret that is blank or set, a working copy    *)
(* with no git metadata, without a commit, or with one, and a dataset id  *)
(* that is empty or set.                                                   *)
EXTENDS ExperimentsApi

MCMethods == {"create_experiment", "list_experiments", "create_run",
              "create_run_with_git", "post_ci_webhook"}
MCClientTokens == {Null, [core |-> "", pad |-> TRUE], [core |-> "t", pad |-> FALSE]}
MCEnvTokens == {[core |-> "", pad |-> FALSE], [core |-> "", pad |-> TRUE],
               [core |-> "e", pad |-> TRUE]}
MCSecrets == {[core |-> "", pad |-> TRUE], [core |-> "s", pad |-> FALSE]}
MCGitMetas == {Null, [repo |-> "v", commit |-> "", ref |-> "v"],
               [repo |-> "v", commit |-> "v", ref |-> "v"]}
MCDatasetIds == {"", "v"}
MCOkStatuses == {200, 204}
MCErrorStatuses == {404}
=============================================================================
