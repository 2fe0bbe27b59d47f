----------------------------- MODULE MCBuilder -----------------------------
(* The BuildKit archive with its two tools and the runc binary. *)
EXTENDS Builder

MCPlan == << <<"buildctl", "buildkitd">>, <<"runc">> >>
=============================================================================
