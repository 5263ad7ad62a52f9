--------------------------- MODULE EventLoopProofs ---------------------------
(***************************************************************************)
(* Theorems about EventLoop, for every length of a millisecond, longest    *)
(* poll(), buffer size and bound.                                          *)
(***************************************************************************)
EXTENDS EventLoop, TLAPS

LEMMA EffectListsAreSequences == EffectLists \subseteq Seq(Effect)
<1> SUFFICES ASSUME NEW e \in EffectLists PROVE e \in Seq(Effect)
  OBVIOUS
<1>1. PICK n \in 0 .. MaxEffects : e \in [1 .. n -> Effect]
  BY DEF EffectLists
<1>2. n \in Nat
  BY ConstantsAssumption DEF ConstantsAssumption
<1>. QED
  BY <1>1, <1>2

(* What the application subscribes to.                                     *)
LEMMA SubscriptionsFields ==
  ASSUME NEW s \in Subscriptions
  PROVE  /\ s.stdin \in BOOLEAN /\ s.tcp \in BOOLEAN /\ s.timer \in BOOLEAN
         /\ s.fire_at \in Times
<1>1. 0 \in Times
  BY ConstantsAssumption DEF Times, ConstantsAssumption
<1>2. \/ s \in [stdin : BOOLEAN, tcp : BOOLEAN, timer : {FALSE}, fire_at : {0}]
      \/ s \in [stdin : BOOLEAN, tcp : BOOLEAN, timer : {TRUE}, fire_at : Times]
  BY DEF Subscriptions
<1>. QED
  BY <1>1, <1>2

(* Whole milliseconds: n ticks are less than n \div TicksPerMs + 1 of them.*)
LEMMA WholeMilliseconds ==
  ASSUME NEW n \in Nat
  PROVE  /\ n \div TicksPerMs \in Nat
         /\ n < TicksPerMs * (n \div TicksPerMs) + TicksPerMs
BY ConstantsAssumption, SMTT(30) DEF ConstantsAssumption

(* read() through std::io::Stdin, of a buffer no smaller than its own,     *)
(* leaves nothing in that.                                                 *)
LEMMA ReadStdinLeavesNothing ==
  ASSUME keys \in Nat, buffered = 0, ReadStdin(ReadSize)
  PROVE  keys' \in Nat /\ buffered' = 0
BY ConstantsAssumption DEF ConstantsAssumption, ReadStdin, Least

-----------------------------------------------------------------------------
(* Type correctness.  It needs to know that poll() reports the pipe        *)
(* readable only when there is a byte to take, and that nothing is buffered*)
(* (that stdin is reported only when it is subscribed to is used below).   *)

ReadyIsReal ==
  pc = "ready" => /\ ready # {}
                  /\ "tcp" \in ready => pending > 0
                  /\ "stdin" \in ready => subs.stdin

TypeInv == TypeOK /\ ReadyIsReal /\ NoKeyLeftBehind

LEMMA TypeInvInit == Init => TypeInv
<1>1. NoSubscriptions \in Subscriptions
  <2>1. NoSubscriptions
          \in [stdin : BOOLEAN, tcp : BOOLEAN, timer : {FALSE}, fire_at : {0}]
    BY DEF NoSubscriptions
  <2>. QED
    BY <2>1 DEF Subscriptions
<1>2. 0 \in Times /\ 0 \in 0 .. PollMax /\ 0 \in 0 .. MaxKeys
  BY ConstantsAssumption DEF ConstantsAssumption, Times
<1>3. ASSUME Init PROVE TypeOK
  <2>1. tcp \in BOOLEAN /\ eof \in BOOLEAN /\ subs \in Subscriptions
    BY <1>1, <1>3 DEF Init
  <2>2. effects \in Seq(Effect)
    BY <1>3 DEF Init
  <2>. QED
    BY <1>2, <1>3, <2>1, <2>2 DEF Init, TypeOK
<1>. QED
  BY <1>3 DEF Init, TypeInv, ReadyIsReal, NoKeyLeftBehind

LEMMA MainTypeInv ==
  ASSUME TypeInv,
         \/ Start \/ HandleEffect \/ EffectsDone \/ View \/ Update
         \/ WaitForNothing \/ PollFails
  PROVE  TypeInv'
<1> USE ConstantsAssumption
    DEF ConstantsAssumption, TypeInv, TypeOK, ReadyIsReal, NoKeyLeftBehind,
        loopVars, pollVars, inputVars
<1>1. CASE Start
  BY <1>1, EffectListsAreSequences DEF Start
<1>2. CASE HandleEffect
  <2>1. Head(effects) \in Effect /\ effects' \in Seq(Effect)
    BY <1>2 DEF HandleEffect
  <2>2. Head(effects).tag = "Exit" => Head(effects).code \in ExitCodes
    BY <2>1 DEF Effect, Exit, OtherEffect
  <2>. QED
    BY <1>2, <2>1, <2>2 DEF HandleEffect, Return
<1>3. CASE EffectsDone \/ View
  BY <1>3 DEF EffectsDone, View
<1>4. CASE Update
  BY <1>4, EffectListsAreSequences DEF Update
<1>5. CASE WaitForNothing \/ PollFails
  BY <1>5 DEF WaitForNothing, PollFails, Return
<1>. QED
  BY <1>1, <1>2, <1>3, <1>4, <1>5

LEMMA WaitTypeInv ==
  ASSUME TypeInv,
         \/ Wait \/ Check \/ Arm \/ PollReturns \/ PollTimesOut
         \/ TcpReady \/ StdinKeys \/ StdinEnded
  PROVE  TypeInv'
<1> USE ConstantsAssumption
    DEF ConstantsAssumption, TypeInv, TypeOK, ReadyIsReal, NoKeyLeftBehind,
        loopVars, pollVars, inputVars
<1>1. CASE Wait
  BY <1>1 DEF Wait
<1>2. CASE Check
  BY <1>2 DEF Check, Deliver
<1>3. CASE Arm
  <2>1. timeout' \in 0 .. PollMax
    <3>1. CASE ~subs.timer \/ Due
      BY <1>3, <3>1 DEF Arm
    <3>2. CASE ~(~subs.timer \/ Due)
      <4>1. subs.fire_at - now \in Nat
        BY <3>2, SubscriptionsFields DEF Due, Times
      <4>2. (subs.fire_at - now) \div TicksPerMs \in Nat
        BY <4>1, WholeMilliseconds
      <4>. QED
        BY <1>3, <3>2, <4>2 DEF Arm, Least
    <3>. QED
      BY <3>1, <3>2
  <2>. QED
    BY <1>3, <2>1 DEF Arm
<1>4. CASE PollReturns
  BY <1>4 DEF PollReturns, Readable
<1>5. CASE PollTimesOut
  BY <1>5 DEF PollTimesOut, Deliver
<1>6. CASE TcpReady
  BY <1>6 DEF TcpReady, Deliver
<1>7. CASE StdinKeys
  BY <1>7, ReadStdinLeavesNothing DEF StdinKeys, StdinReady, Deliver
<1>8. CASE StdinEnded
  BY <1>8 DEF StdinEnded
<1>. QED
  BY <1>1, <1>2, <1>3, <1>4, <1>5, <1>6, <1>7, <1>8

LEMMA EnvironmentTypeInv ==
  ASSUME TypeInv, Environment
  PROVE  TypeInv'
<1> USE ConstantsAssumption
    DEF ConstantsAssumption, TypeInv, TypeOK, ReadyIsReal, NoKeyLeftBehind,
        loopVars, pollVars, inputVars, Times
<1>1. CASE Die
  BY <1>1 DEF Die
<1>2. CASE Tick
  BY <1>2 DEF Tick
<1>3. CASE KeyTyped
  BY <1>3 DEF KeyTyped
<1>4. CASE StdinCloses
  BY <1>4 DEF StdinCloses
<1>5. CASE TcpEventArrives
  BY <1>5 DEF TcpEventArrives
<1>. QED
  BY <1>1, <1>2, <1>3, <1>4, <1>5 DEF Environment

LEMMA TypeInvStep == TypeInv /\ [Next]_vars => TypeInv'
<1> SUFFICES ASSUME TypeInv, [Next]_vars PROVE TypeInv'
  OBVIOUS
<1>1. CASE UNCHANGED vars
  BY <1>1 DEF vars, loopVars, pollVars, inputVars, TypeInv, TypeOK,
              ReadyIsReal, NoKeyLeftBehind
<1>. QED
  BY <1>1, MainTypeInv, WaitTypeInv, EnvironmentTypeInv
     DEF Next, rust_main, wait_for_next_event, Stopped

LEMMA TypeInvAlways == Spec => []TypeInv
<1>. QED
  BY TypeInvInit, TypeInvStep, PTL DEF Spec

(* Every variable keeps its type; above all, the timeout fits in an i32 and*)
(* no byte is taken from an empty pipe.                                    *)
THEOREM TypeCorrect == Spec => []TypeOK
<1>1. TypeInv => TypeOK
  BY DEF TypeInv
<1>. QED
  BY <1>1, TypeInvAlways, PTL

(* The read from stdin bypasses the buffer inside std::io::Stdin, so poll()*)
(* sees everything that has been typed and not read.                       *)
THEOREM NothingBuffered == Spec => []NoKeyLeftBehind
<1>1. TypeInv => NoKeyLeftBehind
  BY DEF TypeInv
<1>. QED
  BY <1>1, TypeInvAlways, PTL

-----------------------------------------------------------------------------
(* How long a due timer waits.  A timer that has been overtaken was due, so*)
(* it still is, and the look at the clock at the head of the loop finds it.*)

OvertakenInv ==
  /\ DueTimerOvertakenOnce
  /\ overtaken > 0 /\ ~Over => Due
  /\ pc \in {"start", "arm", "poll", "ready"} => overtaken = 0

LEMMA OvertakenStep ==
  ASSUME TypeInv, OvertakenInv, [Next]_vars
  PROVE  OvertakenInv'
<1> USE DEF OvertakenInv, DueTimerOvertakenOnce, Over
<1>1. /\ overtaken \in Nat /\ now \in Nat
      /\ subs.fire_at \in Nat /\ subs.timer \in BOOLEAN
  BY ConstantsAssumption, SubscriptionsFields
     DEF TypeInv, TypeOK, Times, ConstantsAssumption
<1>2. CASE Start
  BY <1>1, <1>2 DEF Start, Due
<1>3. CASE Update
  BY <1>1, <1>3 DEF Update, Due
<1>4. CASE Tick
  BY <1>1, <1>4 DEF Tick, Due, loopVars
<1>5. CASE Check
  BY <1>1, <1>5 DEF Check, Deliver, Due, loopVars
<1>6. CASE PollTimesOut \/ TcpReady \/ StdinKeys
  BY <1>1, <1>6 DEF PollTimesOut, TcpReady, StdinKeys, StdinReady, Deliver,
                    Due, loopVars
<1>7. CASE HandleEffect \/ WaitForNothing \/ PollFails
  BY <1>1, <1>7 DEF HandleEffect, WaitForNothing, PollFails, Return, Due
<1>8. CASE \/ EffectsDone \/ View \/ Wait \/ Arm \/ PollReturns \/ StdinEnded
           \/ Die
  <2>1. /\ UNCHANGED <<subs, now, overtaken>>
        /\ ~Over
        /\ pc' \in {"arm", "poll", "ready"} => pc \in {"arm", "poll", "ready"}
        /\ pc' # "start"
    BY <1>8 DEF EffectsDone, View, Wait, Arm, PollReturns, StdinEnded,
                StdinReady, Die, loopVars
  <2>. QED
    BY <1>1, <2>1 DEF Due
<1>9. CASE KeyTyped \/ StdinCloses \/ TcpEventArrives \/ UNCHANGED vars
  BY <1>1, <1>9 DEF KeyTyped, StdinCloses, TcpEventArrives, Due, vars, loopVars
<1>. QED
  BY <1>2, <1>3, <1>4, <1>5, <1>6, <1>7, <1>8, <1>9
     DEF Next, rust_main, wait_for_next_event, Environment, Stopped

(* At most one key or TCP event is handed to the application ahead of a    *)
(* timer that is due, however many are waiting.                            *)
THEOREM DueTimerIsNext == Spec => []DueTimerOvertakenOnce
<1>1. Init => OvertakenInv
  BY DEF Init, OvertakenInv, DueTimerOvertakenOnce
<1>2. TypeInv /\ OvertakenInv /\ [Next]_vars => OvertakenInv'
  BY OvertakenStep
<1>3. OvertakenInv => DueTimerOvertakenOnce
  BY DEF OvertakenInv
<1>. QED
  BY <1>1, <1>2, <1>3, TypeInvAlways, PTL DEF Spec

-----------------------------------------------------------------------------
(* How early a timer fires.  The timeout poll() was called with falls short*)
(* of the time that was left by less than a millisecond, or is the longest.*)

TimeoutInv ==
  pc = "poll" /\ subs.timer =>
    \/ subs.fire_at < armed + TicksPerMs * timeout + TicksPerMs
    \/ timeout = PollMax

LEMMA ArmTimeout ==
  ASSUME TypeInv, Arm
  PROVE  TimeoutInv'
<1> USE ConstantsAssumption DEF ConstantsAssumption, TimeoutInv, loopVars
<1>1. /\ now \in Nat /\ subs.fire_at \in Nat /\ subs.timer \in BOOLEAN
      /\ UNCHANGED subs /\ armed' = now
  BY SubscriptionsFields DEF TypeInv, TypeOK, Times, Arm
<1>2. CASE ~subs.timer
  BY <1>1, <1>2
<1>3. CASE subs.timer /\ Due
  <2>1. timeout' = 0 /\ subs.fire_at <= now
    BY <1>3 DEF Arm, Due
  <2>2. TicksPerMs * timeout' = 0
    BY <2>1
  <2>. QED
    BY <1>1, <2>1, <2>2
<1>4. CASE subs.timer /\ ~Due
  <2> DEFINE left == subs.fire_at - now
             whole == left \div TicksPerMs
  <2>1. left \in Nat
    BY <1>1, <1>4 DEF Due
  <2>2. whole \in Nat /\ left < TicksPerMs * whole + TicksPerMs
    BY <2>1, WholeMilliseconds
  <2>3. timeout' = whole \/ timeout' = PollMax
    BY <1>4 DEF Arm, Least
  <2>4. TicksPerMs * whole \in Nat
    BY <2>2
  <2>5. subs.fire_at < now + TicksPerMs * whole + TicksPerMs
    <3> DEFINE p == TicksPerMs * whole
    <3>1. p \in Nat /\ left < p + TicksPerMs
      BY <2>2, <2>4
    <3> HIDE DEF p, whole
    <3>2. subs.fire_at < now + p + TicksPerMs
      BY <1>1, <3>1
    <3>. QED
      BY <3>2 DEF p
  <2>. QED
    BY <1>1, <2>3, <2>5
<1>. QED
  BY <1>1, <1>2, <1>3, <1>4

LEMMA TimeoutStep ==
  ASSUME TypeInv, TimeoutInv, [Next]_vars
  PROVE  TimeoutInv'
<1>1. CASE Arm
  BY <1>1, ArmTimeout
<1>2. CASE \/ Start \/ HandleEffect \/ EffectsDone \/ View \/ Update
           \/ WaitForNothing \/ Wait \/ Check \/ PollReturns \/ PollTimesOut
           \/ TcpReady \/ StdinKeys \/ StdinEnded \/ PollFails \/ Die
  <2>1. pc' # "poll" \/ UNCHANGED <<pc, subs, armed, timeout>>
    BY <1>2 DEF Start, HandleEffect, EffectsDone, View, Update, WaitForNothing,
      Wait, Check, PollReturns, PollTimesOut, TcpReady, StdinKeys, StdinEnded,
      PollFails, Die, Return, Deliver, pollVars
  <2>. QED
    BY <2>1 DEF TimeoutInv
<1>3. CASE \/ Tick \/ KeyTyped \/ StdinCloses \/ TcpEventArrives
           \/ UNCHANGED vars
  <2>1. UNCHANGED <<pc, subs, armed, timeout>>
    BY <1>3 DEF Tick, KeyTyped, StdinCloses, TcpEventArrives, vars, loopVars,
      pollVars
  <2>. QED
    BY <2>1 DEF TimeoutInv
<1>. QED
  BY <1>1, <1>2, <1>3
     DEF Next, rust_main, wait_for_next_event, Environment, Stopped

(* A timer fires less than a millisecond before its time, or after the     *)
(* longest wait poll() can make.                                           *)
THEOREM TimersNearlyOnTime == Spec => TimerNearlyOnTime
<1> DEFINE Nearly ==
      pc' = "update" /\ pc # "update" /\ event' = "timer" =>
        \/ subs.fire_at < now + TicksPerMs
        \/ now >= armed + TicksPerMs * PollMax
<1>1. Init => TimeoutInv
  BY DEF Init, TimeoutInv
<1>2. TypeInv /\ TimeoutInv /\ [Next]_vars => TimeoutInv'
  BY TimeoutStep
<1>3. TypeInv /\ TimeoutInv /\ [Next]_vars => [Nearly]_vars
  <2> SUFFICES ASSUME TypeInv, TimeoutInv, Next,
                      pc' = "update", pc # "update", event' = "timer"
               PROVE  \/ subs.fire_at < now + TicksPerMs
                      \/ now >= armed + TicksPerMs * PollMax
    OBVIOUS
  <2>1. (Check /\ Due) \/ PollTimesOut
    BY DEF Next, rust_main, wait_for_next_event, Environment, Stopped, Start,
      HandleEffect, EffectsDone, View, Update, WaitForNothing, Wait, Check, Arm,
      PollReturns, TcpReady, StdinKeys, StdinEnded, PollFails, Die, Tick,
      KeyTyped, StdinCloses, TcpEventArrives, Return, Deliver, vars
  <2>2. /\ now \in Nat /\ subs.fire_at \in Nat /\ armed \in Nat
        /\ timeout \in Nat /\ TicksPerMs \in Nat \ {0}
    BY ConstantsAssumption, SubscriptionsFields
       DEF TypeInv, TypeOK, Times, ConstantsAssumption
  <2>3. CASE Check /\ Due
    BY <2>2, <2>3 DEF Due
  <2>4. CASE PollTimesOut
    <3> DEFINE p == TicksPerMs * timeout
    <3>1. p \in Nat /\ now >= armed + p
      BY <2>2, <2>4 DEF PollTimesOut
    <3>2. subs.fire_at < armed + p + TicksPerMs \/ timeout = PollMax
      BY <2>4 DEF PollTimesOut, TimeoutInv
    <3>3. CASE timeout = PollMax
      BY <3>1, <3>3
    <3>4. CASE subs.fire_at < armed + p + TicksPerMs
      <4> HIDE DEF p
      <4>. QED
        BY <2>2, <3>1, <3>4
    <3>. QED
      BY <3>2, <3>3, <3>4
  <2>. QED
    BY <2>1, <2>3, <2>4
<1>. QED
  BY <1>1, <1>2, <1>3, TypeInvAlways, PTL DEF Spec, TimerNearlyOnTime

-----------------------------------------------------------------------------
(* The terminal.                                                           *)

LEMMA CleanStep ==
  ASSUME TypeInv, CleanReturn, [Next]_vars
  PROVE  CleanReturn'
<1> USE DEF CleanReturn
<1>1. CASE HandleEffect
  <2>1. Head(effects) \in Effect
    BY <1>1 DEF HandleEffect, TypeInv, TypeOK
  <2>2. Head(effects).tag = "Exit" => Head(effects).code \in ExitCodes
    BY <2>1 DEF Effect, Exit, OtherEffect
  <2>. QED
    BY <1>1, <2>2 DEF HandleEffect, Return
<1>2. CASE WaitForNothing \/ PollFails
  BY <1>2 DEF WaitForNothing, PollFails, Return
<1>3. CASE \/ Start \/ EffectsDone \/ View \/ Update \/ Wait \/ Check \/ Arm
           \/ PollReturns \/ PollTimesOut \/ TcpReady \/ StdinKeys
           \/ StdinEnded \/ Die
  <2>1. pc' # "returned"
    BY <1>3 DEF Start, EffectsDone, View, Update, Wait, Check, Arm,
      PollReturns, PollTimesOut, TcpReady, StdinKeys, StdinEnded, Die, Deliver
  <2>. QED
    BY <2>1
<1>4. CASE \/ Tick \/ KeyTyped \/ StdinCloses \/ TcpEventArrives
           \/ UNCHANGED vars
  BY <1>4 DEF Tick, KeyTyped, StdinCloses, TcpEventArrives, vars, loopVars
<1>. QED
  BY <1>1, <1>2, <1>3, <1>4
     DEF Next, rust_main, wait_for_next_event, Environment, Stopped

(* However rust_main returns, it has given the terminal back, with the     *)
(* status 2 or one the application has asked for.                          *)
THEOREM ReturnsClean == Spec => []CleanReturn
<1>1. Init => CleanReturn
  BY DEF Init, CleanReturn
<1>2. TypeInv /\ CleanReturn /\ [Next]_vars => CleanReturn'
  BY CleanStep
<1>. QED
  BY <1>1, <1>2, TypeInvAlways, PTL DEF Spec

-----------------------------------------------------------------------------
(* The refinement.                                                         *)

LEMMA StepImplementsLoop ==
  ASSUME TypeInv, [Next]_vars
  PROVE  [Loop!Next]_Loop!vars
<1> USE DEF Loop!vars, Phase, Listening
<1>1. subs.stdin \in BOOLEAN /\ subs.tcp \in BOOLEAN /\ subs.timer \in BOOLEAN
  BY SubscriptionsFields DEF TypeInv, TypeOK
<1>2. CASE Start
  <2>1. Loop!AppInit
    BY <1>2 DEF Start, Loop!AppInit
  <2>. QED
    BY <2>1 DEF Loop!Next
<1>3. CASE Update
  <2>1. Loop!AppUpdate
    BY <1>3 DEF Update, Loop!AppUpdate
  <2>. QED
    BY <2>1 DEF Loop!Next
<1>4. CASE View
  <2>1. Loop!Show
    BY <1>4 DEF View, Loop!Show, loopVars
  <2>. QED
    BY <2>1 DEF Loop!Next
<1>5. CASE \/ Check /\ pc' = "update"
           \/ PollTimesOut
           \/ TcpReady /\ pc' = "update"
  <2>1. Loop!Hear
    BY <1>1, <1>5 DEF Check, PollTimesOut, TcpReady, Deliver, Due, Loop!Hear,
                      loopVars
  <2>. QED
    BY <2>1 DEF Loop!Next
<1>6. CASE StdinKeys
  <2>1. subs.stdin
    BY <1>6 DEF StdinKeys, StdinReady, TypeInv, ReadyIsReal
  <2>2. Loop!Hear
    BY <1>6, <2>1 DEF StdinKeys, StdinReady, Deliver, Loop!Hear, loopVars
  <2>. QED
    BY <2>2 DEF Loop!Next
<1>7. CASE \/ WaitForNothing \/ PollFails \/ Die
           \/ HandleEffect /\ pc' = "returned"
  <2>1. /\ UNCHANGED <<subs, event>>
        /\ pc \in {"start", "effects", "view", "wait", "check", "arm", "poll",
                   "ready", "update"}
        /\ pc' \in {"returned", "died"}
    BY <1>7 DEF WaitForNothing, PollFails, Die, HandleEffect, Return, Over,
                loopVars, TypeInv, TypeOK
  <2>2. Phase # "stopped" /\ Phase' = "stopped"
    BY <2>1
  <2>3. Loop!Stop
    BY <2>1, <2>2 DEF Loop!Stop
  <2>. QED
    BY <2>3 DEF Loop!Next
<1>8. CASE \/ HandleEffect /\ pc' # "returned"
           \/ EffectsDone \/ Wait \/ Arm \/ PollReturns \/ StdinEnded
           \/ Check /\ pc' # "update"
           \/ TcpReady /\ pc' # "update"
  <2>1. /\ UNCHANGED <<subs, event>>
        /\ \/ pc' = pc
           \/ pc = "effects" /\ pc' = "view"
           \/ /\ pc \in {"wait", "check", "arm", "poll", "ready"}
              /\ pc' \in {"wait", "check", "arm", "poll", "ready"}
    BY <1>8 DEF HandleEffect, EffectsDone, Wait, Arm, PollReturns, StdinEnded,
                StdinReady, Check, TcpReady, Deliver, Return, loopVars
  <2>2. Phase' = Phase
    BY <2>1
  <2>. QED
    BY <2>1, <2>2
<1>9. CASE Tick \/ KeyTyped \/ StdinCloses \/ TcpEventArrives \/ UNCHANGED vars
  BY <1>9 DEF Tick, KeyTyped, StdinCloses, TcpEventArrives, vars, loopVars
<1>. QED
  BY <1>2, <1>3, <1>4, <1>5, <1>6, <1>7, <1>8, <1>9
     DEF Next, rust_main, wait_for_next_event, Environment, Stopped

(* The application is called in the order of the Elm architecture, and     *)
(* update only with events of a source it has subscribed to.               *)
THEOREM LoopImplementsElmLoop == Spec => ImplementsElmLoop
<1>1. Init => Loop!Init
  BY DEF Init, Loop!Init, Phase, Listening, NoSubscriptions
<1>2. TypeInv /\ [Next]_vars => [Loop!Next]_Loop!vars
  BY StepImplementsLoop
<1>. QED
  BY <1>1, <1>2, TypeInvAlways, PTL DEF Spec, ImplementsElmLoop, Loop!Spec

=============================================================================
