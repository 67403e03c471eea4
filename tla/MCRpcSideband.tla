----------------------------- MODULE MCRpcSideband -----------------------------
(* A prompt and a health check, and children that come and go. *)
EXTENDS RpcSideband

CONSTANTS prompt, check, p1, p2, p3, i1, i2

TwoCallers == {prompt, check}
OneCheck == {check}
ThreeProcesses == {p1, p2, p3}
TwoIds == {i1, i2}
===============================================================================
