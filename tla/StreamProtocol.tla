--------------------------- MODULE StreamProtocol ---------------------------
(***************************************************************************)
(* What the TCP half of the host promises to the rest of the program about *)
(* each stream, with no threads, channel, pipe or sockets in sight: a      *)
(* stream is announced once, then its bytes arrive, then its end is        *)
(* announced once and nothing follows.  A stream can be written to between *)
(* its two announcements, unless a write on it has failed.                 *)
(*                                                                         *)
(* TcpTransport implements this specification.                             *)
(***************************************************************************)
EXTENDS Naturals

CONSTANTS Streams,     \* the stream ids
          MaxBytes     \* the bytes a peer sends on one stream, at most

VARIABLES
  phase,      \* phase[s]: has the stream been announced, has its end been
  received,   \* received[s]: how many bytes of the stream have arrived
  writable    \* the streams that accept a TcpSend

vars == <<phase, received, writable>>

Phases == {"unknown", "connected", "gone"}

TypeOK ==
  /\ phase \in [Streams -> Phases]
  /\ received \in [Streams -> 0 .. MaxBytes]
  /\ writable \subseteq Streams

Init ==
  /\ phase = [s \in Streams |-> "unknown"]
  /\ received = [s \in Streams |-> 0]
  /\ writable = {}

Connect(s) ==
  /\ phase[s] = "unknown"
  /\ phase' = [phase EXCEPT ![s] = "connected"]
  /\ writable' = writable \cup {s}
  /\ UNCHANGED received

Receive(s) ==
  /\ phase[s] = "connected"
  /\ \E n \in (received[s] + 1) .. MaxBytes :
        received' = [received EXCEPT ![s] = n]
  /\ UNCHANGED <<phase, writable>>

WriteFails(s) ==
  /\ s \in writable
  /\ writable' = writable \ {s}
  /\ UNCHANGED <<phase, received>>

Disconnect(s) ==
  /\ phase[s] = "connected"
  /\ phase' = [phase EXCEPT ![s] = "gone"]
  /\ writable' = writable \ {s}
  /\ UNCHANGED received

Next ==
  \E s \in Streams : Connect(s) \/ Receive(s) \/ WriteFails(s) \/ Disconnect(s)

Spec == Init /\ [][Next]_vars

=============================================================================
