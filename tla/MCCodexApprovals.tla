-------------------------- MODULE MCCodexApprovals --------------------------
(* The Codex approvals with the worker and one desktop client; the second     *)
(* request of an App Server is a form.                                        *)
EXTENDS CodexApprovals, TLC

CONSTANTS i1, i2

MCIds == {i1, i2}
MCForms == {2}
MCProxies == {"proxy 1"}
MCSymmetry == Permutations(MCIds)
=============================================================================
