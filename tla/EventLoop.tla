------------------------------ MODULE EventLoop ------------------------------
(***************************************************************************)
(* The main thread of the host (src/src/lib.rs): rust_main, and            *)
(* wait_for_next_event, which waits for the timer, the TCP notification    *)
(* pipe and stdin with one poll() and picks the event that update is called*)
(* with.                                                                   *)
(*                                                                         *)
(* TcpTransport models the threads behind the pipe; here the pipe is a     *)
(* number of events, each with its byte.  Time is counted in ticks, of     *)
(* which a millisecond, the unit of poll()'s timeout, has several: the     *)
(* clock and the application's fire_at are in nanoseconds.                 *)
(***************************************************************************)
EXTENDS Naturals, Sequences

CONSTANTS
  TicksPerMs,   \* ticks in a millisecond (1_000_000)
  PollMax,      \* longest timeout of poll(), in milliseconds (i32::MAX)
  ReadSize,     \* BUF_SIZE of the read from stdin (16_384)
  ReaderCap,    \* capacity of the buffer inside std::io::Stdin (8_192)
  ExitCodes,    \* codes the application passes to Exit
  MaxTime,      \* bound: the clock's last tick
  MaxKeys,      \* bound: bytes that wait in the kernel
  MaxPending,   \* bound: TCP events that wait
  MaxEffects    \* bound: effects one call returns

ASSUME ConstantsAssumption ==
  /\ TicksPerMs \in Nat \ {0} /\ PollMax \in Nat \ {0}
  /\ ReaderCap \in Nat \ {0} /\ ReadSize \in Nat /\ ReadSize >= ReaderCap
  /\ ExitCodes \subseteq Nat
  /\ MaxTime \in Nat /\ MaxKeys \in Nat
  /\ MaxPending \in Nat /\ MaxEffects \in Nat

Times == 0 .. MaxTime

(* Subscriptions: tcp stands for the subscription that decides whether the *)
(* next TCP event reaches the application.                                 *)
Subscriptions ==
  [stdin : BOOLEAN, tcp : BOOLEAN, timer : {FALSE}, fire_at : {0}]
    \cup [stdin : BOOLEAN, tcp : BOOLEAN, timer : {TRUE}, fire_at : Times]

Exit(code) == [tag |-> "Exit", code |-> code]
OtherEffect == [tag |-> "Print", code |-> 0]
Effect == {Exit(code) : code \in ExitCodes} \cup {OtherEffect}
EffectLists == UNION {[1 .. n -> Effect] : n \in 0 .. MaxEffects}

VARIABLES
  pc,
  subs,       \* current_subs
  effects,    \* the effects still to be handled
  tcp,        \* is TCP running
  event,      \* the event update is called with
  armed,      \* when poll() was called
  timeout,    \* the timeout it was called with, in milliseconds
  ready,      \* the descriptors it reported readable
  terminal,   \* "normal", or "raw" for raw mode on the alternate screen
  status,     \* the exit status rust_main returns
  now,        \* the clock
  keys,       \* bytes typed that wait in the kernel
  buffered,   \* bytes in the buffer inside std::io::Stdin
  eof,        \* has stdin ended
  pending,    \* TCP events in the channel, each with a byte in the pipe
  overtaken   \* history: events handed out while this timer was due

loopVars  == <<subs, effects, tcp, terminal, status>>
pollVars  == <<armed, timeout, ready>>
inputVars == <<keys, buffered, eof, pending>>
vars == <<pc, loopVars, event, pollVars, now, inputVars, overtaken>>

(* Type invariant.  In particular a timeout fits the i32 poll() takes.     *)
TypeOK ==
  /\ pc \in {"start", "effects", "view", "wait", "check", "arm", "poll",
             "ready", "update", "returned", "died"}
  /\ subs \in Subscriptions
  /\ effects \in Seq(Effect)
  /\ tcp \in BOOLEAN
  /\ event \in {"none", "timer", "tcp", "stdin"}
  /\ armed \in Times /\ timeout \in 0 .. PollMax
  /\ ready \subseteq {"tcp", "stdin"}
  /\ terminal \in {"normal", "raw"}
  /\ status \in ExitCodes \cup {0, 2}
  /\ now \in Times
  /\ keys \in Nat /\ buffered \in Nat /\ eof \in BOOLEAN /\ pending \in Nat
  /\ overtaken \in Nat

NoSubscriptions == [stdin |-> FALSE, tcp |-> FALSE, timer |-> FALSE, fire_at |-> 0]

Init ==
  /\ pc = "start" /\ subs = NoSubscriptions /\ effects = <<>> /\ tcp = FALSE
  /\ event = "none"
  /\ armed = 0 /\ timeout = 0 /\ ready = {}
  /\ terminal = "normal" /\ status = 0
  /\ now = 0
  /\ keys = 0 /\ buffered = 0 /\ eof = FALSE /\ pending = 0
  /\ overtaken = 0

-----------------------------------------------------------------------------
(* rust_main.                                                              *)

(* The terminal is taken, roc_init called, and TCP started if it asks for  *)
(* it and that succeeds (it may ask for TCP and not for every TCP event).  *)
Start ==
  /\ pc = "start"
  /\ terminal' = "raw"
  /\ subs' \in Subscriptions /\ effects' \in EffectLists
  /\ tcp' \in BOOLEAN
  /\ pc' = "effects"
  /\ UNCHANGED <<status, event, pollVars, now, inputVars, overtaken>>

(* cleanup_terminal and the return of rust_main.                           *)
Return(code) ==
  /\ pc' = "returned" /\ status' = code /\ terminal' = "normal"
  /\ UNCHANGED <<subs, tcp, event, pollVars, now, inputVars, overtaken>>

(* handle_effects: Exit ends the program, whatever effects follow it.      *)
HandleEffect ==
  /\ pc = "effects" /\ effects # <<>> /\ effects' = Tail(effects)
  /\ \/ /\ Head(effects).tag = "Exit"
        /\ Return(Head(effects).code)
     \/ /\ Head(effects).tag # "Exit"
        /\ UNCHANGED <<pc, subs, tcp, terminal, status, event, pollVars, now,
                       inputVars, overtaken>>

EffectsDone ==
  /\ pc = "effects" /\ effects = <<>>
  /\ pc' = "view"
  /\ UNCHANGED <<loopVars, event, pollVars, now, inputVars, overtaken>>

View ==
  /\ pc = "view" /\ pc' = "wait"
  /\ UNCHANGED <<loopVars, event, pollVars, now, inputVars, overtaken>>

(* The timer the application asks for anew has not been overtaken yet.     *)
Update ==
  /\ pc = "update"
  /\ subs' \in Subscriptions /\ effects' \in EffectLists
  /\ overtaken' = IF event # "timer" /\ subs'.timer /\ subs'.fire_at = subs.fire_at
                  THEN overtaken ELSE 0
  /\ pc' = "effects"
  /\ UNCHANGED <<tcp, terminal, status, event, pollVars, now, inputVars>>

-----------------------------------------------------------------------------
(* wait_for_next_event.                                                    *)

Due == subs.timer /\ now >= subs.fire_at

(* It returns e.                                                           *)
Deliver(e) ==
  /\ event' = e /\ pc' = "update"
  /\ overtaken' = IF Due /\ e # "timer" THEN overtaken + 1 ELSE overtaken

NothingToWaitFor == ~subs.stdin /\ ~tcp /\ ~subs.timer

WaitForNothing ==
  /\ pc = "wait" /\ NothingToWaitFor
  /\ Return(2)
  /\ UNCHANGED effects

Wait ==
  /\ pc = "wait" /\ ~NothingToWaitFor
  /\ pc' = "check"
  /\ UNCHANGED <<loopVars, event, pollVars, now, inputVars, overtaken>>

(* Mutant of Check: a timeout of 0 is left to fire the timer.              *)
CheckNothing ==
  /\ pc = "check"
  /\ pc' = "arm" /\ UNCHANGED <<event, overtaken>>
  /\ UNCHANGED <<loopVars, pollVars, now, inputVars>>

(* The head of the loop: a timer that is due fires before poll() is asked. *)
Check ==
  /\ pc = "check"
  /\ \/ Due /\ Deliver("timer")
     \/ ~Due /\ pc' = "arm" /\ UNCHANGED <<event, overtaken>>
  /\ UNCHANGED <<loopVars, pollVars, now, inputVars>>

Least(a, b) == IF a <= b THEN a ELSE b

(* Mutant of Arm: the timeout is not held to what poll() takes.            *)
ArmUncapped ==
  /\ pc = "arm" /\ pc' = "poll"
  /\ armed' = now
  /\ timeout' = IF ~subs.timer \/ Due THEN 0
                ELSE (subs.fire_at - now) \div TicksPerMs
  /\ UNCHANGED <<loopVars, event, ready, now, inputVars, overtaken>>

(* poll() is called with the whole milliseconds that are left by a second  *)
(* look at the clock (without a timer it is called with no timeout).       *)
Arm ==
  /\ pc = "arm" /\ pc' = "poll"
  /\ armed' = now
  /\ timeout' = IF ~subs.timer \/ Due THEN 0
                ELSE Least((subs.fire_at - now) \div TicksPerMs, PollMax)
  /\ UNCHANGED <<loopVars, event, ready, now, inputVars, overtaken>>

(* Mutant of Readable: the pipe is polled when TCP events are asked for.   *)
ReadableIfAsked ==
  {s \in {"tcp", "stdin"} : \/ s = "tcp" /\ tcp /\ subs.tcp /\ pending > 0
                            \/ s = "stdin" /\ subs.stdin /\ (keys > 0 \/ eof)}

(* The descriptors that are readable.  poll() knows nothing of the bytes   *)
(* std::io::Stdin has buffered.                                            *)
Readable ==
  {s \in {"tcp", "stdin"} : \/ s = "tcp" /\ tcp /\ pending > 0
                            \/ s = "stdin" /\ subs.stdin /\ (keys > 0 \/ eof)}

(* Mutant of PollReturns: any return of poll() is taken for its timeout.   *)
PollReturnsEarly ==
  /\ pc = "poll" /\ Readable # {}
  /\ IF subs.timer
     THEN Deliver("timer") /\ UNCHANGED ready
     ELSE ready' = Readable /\ pc' = "ready" /\ UNCHANGED <<event, overtaken>>
  /\ UNCHANGED <<loopVars, armed, timeout, now, inputVars>>

PollReturns ==
  /\ pc = "poll" /\ Readable # {}
  /\ ready' = Readable /\ pc' = "ready"
  /\ UNCHANGED <<loopVars, event, armed, timeout, now, inputVars, overtaken>>

(* "Poll timed out, which means timer should fire".                        *)
PollTimesOut ==
  /\ pc = "poll" /\ Readable = {}
  /\ subs.timer /\ now >= armed + TicksPerMs * timeout
  /\ Deliver("timer")
  /\ UNCHANGED <<loopVars, pollVars, now, inputVars>>

(* Mutant of PollFails: it returns without cleanup_terminal.               *)
PollFailsUnclean ==
  /\ pc = "poll"
  /\ pc' = "returned" /\ status' = 2
  /\ UNCHANGED <<subs, tcp, terminal, event, pollVars, now, inputVars, overtaken>>
  /\ UNCHANGED effects

(* A signal interrupts poll(), or it fails otherwise: the program ends.    *)
PollFails ==
  /\ pc = "poll"
  /\ Return(2)
  /\ UNCHANGED effects

(* Mutant of TcpReady: the subscription is not looked at.                  *)
TcpReadyUnasked ==
  /\ pc = "ready" /\ "tcp" \in ready
  /\ pending' = pending - 1
  /\ Deliver("tcp")
  /\ UNCHANGED <<loopVars, pollVars, now, keys, buffered, eof>>

(* TCP comes before stdin.  One byte and one event are taken; an event the *)
(* application is not subscribed to is dropped.                            *)
TcpReady ==
  /\ pc = "ready" /\ "tcp" \in ready
  /\ pending' = pending - 1
  /\ \/ subs.tcp /\ Deliver("tcp")
     \/ ~subs.tcp /\ pc' = "check" /\ UNCHANGED <<event, overtaken>>
  /\ UNCHANGED <<loopVars, pollVars, now, keys, buffered, eof>>

(* read() of std::io::Stdin into a buffer of the given size: it fills its  *)
(* own buffer only when that is empty and the caller's is smaller, and     *)
(* reads straight into the caller's when it is not.                        *)
ReadStdin(size) ==
  LET wanted == IF size >= ReaderCap THEN size ELSE ReaderCap
      pulled == IF buffered > 0 THEN 0 ELSE Least(keys, wanted)
      passed == Least(buffered + pulled, size)
  IN  keys' = keys - pulled /\ buffered' = buffered + pulled - passed

StdinReady == pc = "ready" /\ ready = {"stdin"}

(* Mutant of StdinKeys: bytes are read one at a time.                      *)
StdinOneKey ==
  /\ StdinReady /\ keys + buffered > 0
  /\ ReadStdin(1)
  /\ Deliver("stdin")
  /\ UNCHANGED <<loopVars, pollVars, now, eof, pending>>

StdinKeys ==
  /\ StdinReady /\ keys + buffered > 0
  /\ ReadStdin(ReadSize)
  /\ Deliver("stdin")
  /\ UNCHANGED <<loopVars, pollVars, now, eof, pending>>

(* Mutant of StdinEnded: the loop goes on below its look at the timer.     *)
StdinEndedRepolls ==
  /\ StdinReady /\ keys + buffered = 0
  /\ pc' = "arm"
  /\ UNCHANGED <<loopVars, event, pollVars, now, inputVars, overtaken>>

(* The end of stdin makes no event: the loop polls it again and again.     *)
StdinEnded ==
  /\ StdinReady /\ keys + buffered = 0
  /\ pc' = "check"
  /\ UNCHANGED <<loopVars, event, pollVars, now, inputVars, overtaken>>

wait_for_next_event ==
  \/ WaitForNothing \/ Wait \/ Check \/ Arm \/ PollReturns \/ PollTimesOut
  \/ TcpReady \/ StdinKeys \/ StdinEnded

rust_main ==
  Start \/ HandleEffect \/ EffectsDone \/ View \/ wait_for_next_event \/ Update

-----------------------------------------------------------------------------
(* The environment.                                                        *)

Over == pc \in {"returned", "died"}

(* Roc code crashes (roc_crashed exits the process), terminal::size() or   *)
(* println! panics, or a signal kills the process: nothing is cleaned up.  *)
Die ==
  /\ ~Over /\ pc' = "died"
  /\ UNCHANGED <<loopVars, event, pollVars, now, inputVars, overtaken>>

Tick ==
  /\ ~Over /\ now < MaxTime /\ now' = now + 1
  /\ UNCHANGED <<pc, loopVars, event, pollVars, inputVars, overtaken>>

KeyTyped ==
  /\ ~Over /\ ~eof /\ keys < MaxKeys
  /\ keys' = keys + 1
  /\ UNCHANGED <<pc, loopVars, event, pollVars, now, buffered, eof, pending, overtaken>>

StdinCloses ==
  /\ ~Over /\ ~eof /\ eof' = TRUE
  /\ UNCHANGED <<pc, loopVars, event, pollVars, now, keys, buffered, pending, overtaken>>

TcpEventArrives ==
  /\ ~Over /\ tcp /\ pending < MaxPending
  /\ pending' = pending + 1
  /\ UNCHANGED <<pc, loopVars, event, pollVars, now, keys, buffered, eof, overtaken>>

Environment == Die \/ Tick \/ KeyTyped \/ StdinCloses \/ TcpEventArrives

Stopped == Over /\ UNCHANGED vars

Next == rust_main \/ PollFails \/ Environment \/ Stopped

Spec == Init /\ [][Next]_vars

-----------------------------------------------------------------------------
(* Properties.                                                             *)

(* A timer fires less than a millisecond before its time, which is what the*)
(* whole milliseconds of poll()'s timeout can lose, whatever else wakes the*)
(* loop meanwhile and whenever it looks at the clock; or it has waited for *)
(* the longest time poll() can.                                            *)
TimerNearlyOnTime ==
  [][pc' = "update" /\ pc # "update" /\ event' = "timer" =>
       \/ subs.fire_at < now + TicksPerMs
       \/ now >= armed + TicksPerMs * PollMax]_vars

(* "Poll timed out, which means timer should fire": no timer fires before  *)
(* its time.                                                               *)
TimerNeverEarly ==
  [][pc' = "update" /\ pc # "update" /\ event' = "timer" =>
       now >= subs.fire_at]_vars

(* However many keys and TCP events are waiting, at most one of them gets  *)
(* ahead of a timer that is due, if the application keeps the timer.       *)
DueTimerOvertakenOnce == overtaken <= 1

(* Nothing typed is left in the buffer inside std::io::Stdin, where poll() *)
(* would not see it.                                                       *)
NoKeyLeftBehind == buffered = 0

(* When rust_main returns the terminal is as it was found, and the status  *)
(* is 2 or one the application has asked for.                              *)
CleanReturn ==
  pc = "returned" => terminal = "normal" /\ status \in ExitCodes \cup {2}

(* The refinement: the application is called in the order ElmLoop gives,   *)
(* with events it has subscribed to only.                                  *)
Phase ==
  CASE pc = "start" -> "init"
    [] pc \in {"effects", "view"} -> "apply"
    [] pc \in {"wait", "check", "arm", "poll", "ready"} -> "shown"
    [] pc = "update" -> "update"
    [] pc \in {"returned", "died"} -> "stopped"

Listening ==
  {s \in {"timer", "tcp", "stdin"} : \/ s = "timer" /\ subs.timer
                                     \/ s = "tcp" /\ subs.tcp
                                     \/ s = "stdin" /\ subs.stdin}

Loop == INSTANCE ElmLoop WITH
  Sources <- {"timer", "tcp", "stdin"},
  phase <- Phase, listening <- Listening, heard <- event

ImplementsElmLoop == Loop!Spec

-----------------------------------------------------------------------------
(* Liveness: the main thread is scheduled and the clock goes on.  Nothing  *)
(* is assumed of keys, TCP events, failures and crashes.                   *)
FairSpec == Spec /\ WF_vars(rust_main) /\ WF_vars(Tick)

Waiting == pc \in {"wait", "check", "arm", "poll", "ready"}

(* A wait with a timer ends, even when stdin is at its end, which wakes    *)
(* every poll() at once, or TCP events are dropped all the time.           *)
TimerEndsWait == (Waiting /\ subs.timer) ~> ~Waiting

(* Does the application hear of s again and again, or has it ended?        *)
Heard(s) == pc = "update" /\ event = s
HearsForEver(s) == []<>Heard(s)

(* What is typed reaches an application that goes on listening for it,     *)
(* unless timers that are always due, or TCP events, asked for or not, that*)
(* never cease keep the loop from stdin.                                   *)
KeysHeard ==
  /\ <>[](Over \/ subs.stdin)
  /\ ~HearsForEver("timer") /\ <>[](pc = "ready" => "tcp" \notin ready)
  => (keys + buffered > 0 ~> Heard("stdin") \/ Over)

(* A TCP event that waits is taken, whether the application asks for it or *)
(* not and however much is typed, unless timers are always due.            *)
TcpTaken ==
  ~HearsForEver("timer") => (pending > 0 ~> (pc = "ready" /\ "tcp" \in ready) \/ Over)

=============================================================================
