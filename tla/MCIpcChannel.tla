---------------------------- MODULE MCIpcChannel ----------------------------
(* Instances of IpcChannel for TLC, with one kind of request for each way  *)
(* the connection is affected: "fail" and "version" are answered like      *)
(* "unknown", and a server that stops while it replies does what "huge"    *)
(* does.                                                                   *)
EXTENDS IpcChannel, TLC

ThreeKinds == {"ok", "unknown", "oversized"}
=============================================================================
