--------------------------- MODULE MCPullRequest ---------------------------
(* PullRequest for TLC: every constant is a number, a policy or a flag, so   *)
(* the configurations give them values directly.                             *)
EXTENDS PullRequest
=============================================================================
