------------------------------- MODULE ElmLoop -------------------------------
(***************************************************************************)
(* What the host promises the application about the order of its calls,    *)
(* with no clock, poll() or terminal in sight: init once; then, until the  *)
(* program stops, the effects of the last call are carried out, the model  *)
(* is shown, and one event, of a source the application listens to at that *)
(* moment, is handed to update.                                            *)
(*                                                                         *)
(* EventLoop implements this specification.                                *)
(***************************************************************************)
CONSTANT Sources     \* where events come from

VARIABLES phase, listening, heard

vars == <<phase, listening, heard>>

Init == phase = "init" /\ listening = {} /\ heard = "none"

AppInit ==
  /\ phase = "init" /\ phase' = "apply"
  /\ listening' \in SUBSET Sources
  /\ UNCHANGED heard

Show == phase = "apply" /\ phase' = "shown" /\ UNCHANGED <<listening, heard>>

Hear ==
  /\ phase = "shown" /\ phase' = "update"
  /\ heard' \in listening
  /\ UNCHANGED listening

AppUpdate ==
  /\ phase = "update" /\ phase' = "apply"
  /\ listening' \in SUBSET Sources
  /\ UNCHANGED heard

Stop ==
  /\ phase # "stopped" /\ phase' = "stopped"
  /\ UNCHANGED <<listening, heard>>

Next == AppInit \/ Show \/ Hear \/ AppUpdate \/ Stop

Spec == Init /\ [][Next]_vars

=============================================================================
