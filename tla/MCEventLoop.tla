----------------------------- MODULE MCEventLoop -----------------------------
(* Values for model checking EventLoop.                                    *)
EXTENDS EventLoop

Codes == {0, 1}
=============================================================================
