----------------------- MODULE ConverterPreemptProofs -----------------------
(***************************************************************************)
(* Proofs about the preempted handlers: whatever interrupts whatever, the  *)
(* variables have their types, the PWM signals are out only under a state  *)
(* that watches over them, and the relay follows the state.                *)
(*                                                                         *)
(* The argument is one of rely and guarantee.  What a thread has still to  *)
(* do is a sequence of operations; for every operation the invariant says  *)
(* in which situation it may be pending (Home), and for a few of them what *)
(* comes before or after them in their thread (Ordered).  The situations   *)
(* exclude each other where two threads would disturb one another: as long *)
(* as a handler of a running converter is under way the converter is Live, *)
(* for a wait that has just begun does not end under it, and nothing that  *)
(* belongs to STANDBY, to SHUTDOWN or to the end of a wait is pending.     *)
(***************************************************************************)
EXTENDS ConverterPreempt, SequenceTheorems, TLAPS

-----------------------------------------------------------------------------
(* Sequences of operations.                                                *)

OpsOf(q) == {q[i] : i \in 1 .. Len(q)}

\* What is in N has something of B before it.
Before(q, N, B) ==
  \A i \in 1 .. Len(q) : q[i] \in N => \E j \in 1 .. i - 1 : q[j] \in B

\* What is in N has something of A after it.
Follows(q, N, A) ==
  \A i \in 1 .. Len(q) : q[i] \in N => \E j \in i + 1 .. Len(q) : q[j] \in A

Names == {"call", "goTo", "setNext", "mask", "unmask", "setError", "resetErrors", "warning",
          "signal", "relay", "pwmOn", "pwmOff", "clearTrip", "forceTrip", "resetRamp",
          "ifLaunch", "ifMayCharge", "ifPwmOff", "ifLate", "ifRunning", "ifErrors",
          "ifExpired", "ramp"}

Arguments == States \union {"", "shutdown", "startCharging", "run", "start", "stop", "on",
                            "off", "OTHER", "CELL", "set", "reset"}

Operation == Names \X Arguments

\* The arguments of an operation suit its name.
Typed(op) ==
  /\ op[1] = "call" => op[2] \in {"shutdown", "startCharging", "run"}
  /\ op[1] \in {"goTo", "ifErrors"} => op[2] \in States
  /\ op[1] = "setNext" => op[2] \in {"STANDBY", "READY", "SHUTDOWN"}
  /\ op[1] = "signal" => op[2] \in {"start", "stop"}
  /\ op[1] = "setError" => op[2] \in {"CELL", "OTHER"}
  /\ op[1] = "relay" => op[2] \in {"on", "off"}
  /\ op[1] \in {"ifPwmOff", "clearTrip", "forceTrip"} => op[2] = ""

-----------------------------------------------------------------------------
(* The operations, by the situation they belong to.                        *)

\* A handler of a running converter.
OfRun(op) ==
  \/ op[1] \in {"ifLate", "ifRunning", "ramp", "ifMayCharge", "ifPwmOff"}
  \/ op[1] = "ifErrors" /\ op[2] # "WAIT"
  \/ op = <<"relay", "on">>
  \/ op[1] = "setNext" /\ op[2] \in {"READY", "SHUTDOWN"}
  \/ op[1] = "goTo" /\ op[2] \in {"CHARGING_START", "CHARGING"}

\* It relies on the closed relay.
OfCharge(op) ==
  \/ op[1] \in {"ramp", "ifMayCharge", "ifPwmOff"}
  \/ op[1] = "goTo" /\ op[2] \in {"CHARGING_START", "CHARGING"}

\* The end of a wait.
OfExpiry(op) == op[1] = "goTo" /\ op[2] \in {"STANDBY", "READY", "SHUTDOWN"}

\* It belongs to one state, and a change of the state would leave it behind.
Bound(op) ==
  \/ op[1] \in {"ifLaunch", "ifExpired"}
  \/ op \in {<<"relay", "off">>, <<"setNext", "STANDBY">>, <<"goTo", "STARTUP">>}
  \/ OfExpiry(op)

\* It may lead out of the states that watch over the PWM.
Leaving(op) ==
  \/ op[1] \in {"goTo", "ifErrors"} /\ op[2] \notin {"CHARGING_START", "CHARGING"}
  \/ op[1] \in {"ifLaunch", "ifRunning", "ifExpired"}

LeavingOps == {op \in Operation : Leaving(op)}

OfMain(op) ==
  \/ op[1] \in {"ifLaunch", "ifMayCharge", "ifPwmOff", "pwmOn", "clearTrip"}
  \/ op \in {<<"call", "startCharging">>, <<"goTo", "STARTUP">>,
             <<"goTo", "CHARGING_START">>}

OfPwm(op) ==
  \/ op[1] \in {"ifLate", "ifRunning", "ifErrors", "ifExpired", "ramp", "relay"}
  \/ op \in {<<"call", "run">>, <<"goTo", "CHARGING">>}
  \/ OfExpiry(op)

\* Nothing else is pending in its thread.
Alone(op) ==
  \/ op[1] \in {"ifLaunch", "ifMayCharge"}
  \/ op \in {<<"call", "startCharging">>, <<"call", "run">>}

ToWait     == {<<"goTo", "WAIT">>}
SetNexts   == {<<"setNext", s>> : s \in {"STANDBY", "READY", "SHUTDOWN"}}
ToCharging == <<"goTo", "CHARGING_START">>
Switches   == {<<"ifPwmOff", "">>, <<"clearTrip", "">>}
Trip       == {<<"forceTrip", "">>}

Begins(q, N) == Len(q) >= 1 /\ q[1] \in N

\* The last thing before going to WAIT is to tell it where to go from there.
Told(q) == \A i \in 2 .. Len(q) : q[i] \in ToWait => q[i - 1] \in SetNexts

\* The methods that do something for their state after its first operation.
BoundRoutines ==
  {<<<<"signal", "start">>, <<"goTo", "STARTUP">>>>,
   <<<<"resetErrors", "">>>> \o GoAfterWait("STANDBY"),
   <<<<"relay", "off">>>> \o GoAfterWait("STANDBY")}

-----------------------------------------------------------------------------
(* The invariant.                                                          *)

\* The converter is started or in operation, or waits since a handler that is
\* still running.
Live ==
  \/ state \in {"STARTUP", "READY", "CHARGING_START", "CHARGING"}
  \/ state = "WAIT" /\ waitFresh /\ nextState # "STANDBY"

\* The two states out of which a wait leads to STANDBY, and the threads that
\* act on them.
Grounded(t) ==
  \/ t = "main" /\ state = "STANDBY"
  \/ t = "pwm" /\ state = "SHUTDOWN"

\* When op may be pending in thread t.
Home(t, op) ==
  /\ Typed(op)
  /\ OfMain(op) => t = "main"
  /\ OfPwm(op) => t = "pwm"
  /\ OfRun(op) => Live
  /\ OfCharge(op) => relay
  /\ op[1] = "ifLaunch" \/ op = <<"goTo", "STARTUP">> => state = "STANDBY"
  /\ op = <<"relay", "off">> => state = "SHUTDOWN"
  /\ op = <<"setNext", "STANDBY">> => Grounded(t)
  /\ op[1] = "ifExpired" => state = "WAIT"
  /\ OfExpiry(op) => state = "WAIT" /\ ~waitFresh /\ nextState = op[2]

\* WAIT has been told where it leads to.
WaitSet(t) ==
  \/ Live /\ waitFresh /\ nextState # "STANDBY" /\ (nextState = "READY" => relay)
  \/ Grounded(t) /\ nextState = "STANDBY" /\ ~relay

\* What comes before and after what.
Ordered(t, q) ==
  /\ Told(q)
  /\ Begins(q, ToWait) => WaitSet(t)
  /\ Before(q, {<<"setNext", "STANDBY">>}, {<<"relay", "off">>}) \/ ~relay
  /\ Before(q, {<<"setNext", "READY">>}, {<<"relay", "on">>}) \/ relay
  /\ Follows(q, {<<"relay", "on">>}, ToWait)
  /\ Follows(q, Switches, {ToCharging})
  /\ \A op \in OpsOf(q) : Alone(op) => Len(q) = 1
  /\ (\A i \in 2 .. Len(q) : ~Bound(q[i])) \/ q \in BoundRoutines
  /\ ToCharging \in OpsOf(q) => \A op \in OpsOf(q) : ~Leaving(op) /\ op[1] # "call"

\* main is never above an interrupt, and only what is on the stack is pending.
StackOK ==
  /\ stack \in Seq(Threads) /\ Len(stack) <= 3
  /\ \A i, j \in 1 .. Len(stack) : stack[i] = stack[j] => i = j
  /\ \A i \in 1 .. Len(stack) : stack[i] = "main" => i = 1
  /\ \A t \in Threads : todo[t] # <<>> => \E i \in 1 .. Len(stack) : stack[i] = t

VarsOK ==
  /\ state \in States /\ nextState \in {"STANDBY", "READY", "SHUTDOWN"}
  /\ errors \subseteq {"CELL", "OTHER"}
  /\ cellCommand \in {"start", "stop"}
  /\ \A b \in {waitFresh, cellsEnabled, batteryCharged, relay, pwmOn, gates, nearMax,
               interruptible} : b \in BOOLEAN

\* What thread t has still to do may be q.
QueueOK(t, q) == (\A op \in OpsOf(q) : Home(t, op)) /\ Ordered(t, q)

TodoOK ==
  /\ todo \in [Threads -> Seq(Operation)]
  /\ \A t \in Threads : \A q \in {todo[t]} : QueueOK(t, q)

\* The relay, at every moment: in STARTUP it may be closed while the handler
\* that closed it has still to go to WAIT.
RelayOK ==
  /\ state = "STANDBY" => ~relay
  /\ state \in {"READY", "CHARGING_START", "CHARGING"} => relay
  /\ state = "WAIT" /\ nextState = "STANDBY" => ~relay
  /\ state = "WAIT" /\ nextState = "READY" => relay
  /\ state = "STARTUP" /\ relay => <<"goTo", "WAIT">> \in OpsOf(todo["pwm"])

\* The outputs, at every moment: either the main loop has still to go to
\* CHARGING_START, or whatever leaves the states that watch over the outputs
\* blocks them before.
Watched(q) == Before(q, LeavingOps, Trip)

GatesOK ==
  gates =>
    \/ ToCharging \in OpsOf(todo["main"])
    \/ state \in {"CHARGING_START", "CHARGING"} /\ \A t \in Threads : Watched(todo[t])

IInv == VarsOK /\ StackOK /\ TodoOK /\ RelayOK /\ GatesOK

-----------------------------------------------------------------------------
(* Sequences of operations: what joining them and taking the first one off *)
(* leaves of the predicates above.                                         *)

\* The operations of short sequences.
LEMMA ShortOps ==
  ASSUME NEW a, NEW b
  PROVE  OpsOf(<<>>) = {} /\ OpsOf(<<a>>) = {a} /\ OpsOf(<<a, b>>) = {a, b}
BY DEF OpsOf

\* The elements of a joined sequence, one by one.
LEMMA JoinElements ==
  ASSUME NEW S, NEW p \in Seq(S), NEW q \in Seq(S)
  PROVE  /\ p \o q \in Seq(S)
         /\ Len(p \o q) = Len(p) + Len(q)
         /\ \A i \in 1 .. Len(p) : (p \o q)[i] = p[i]
         /\ \A i \in 1 .. Len(q) : (p \o q)[Len(p) + i] = q[i]
         /\ \A i \in 1 .. Len(p \o q) : i > Len(p) =>
              i - Len(p) \in 1 .. Len(q) /\ (p \o q)[i] = q[i - Len(p)]
  <1>1. p \o q \in Seq(S) /\ Len(p \o q) = Len(p) + Len(q)
    BY ConcatProperties
  <1>2. Len(p) \in Nat /\ Len(q) \in Nat
    OBVIOUS
  <1>3. ASSUME NEW i \in 1 .. Len(p \o q)
        PROVE  (p \o q)[i] = IF i <= Len(p) THEN p[i] ELSE q[i - Len(p)]
    BY <1>1, <1>2, ConcatProperties
  <1> QED
    BY <1>1, <1>2, <1>3

\* The elements of the rest of a sequence, one by one.
LEMMA TailElements ==
  ASSUME NEW S, NEW q \in Seq(S), q # <<>>
  PROVE  /\ Len(q) \in Nat /\ Len(q) >= 1 /\ Head(q) = q[1] /\ Head(q) \in S
         /\ Tail(q) \in Seq(S) /\ Len(Tail(q)) = Len(q) - 1
         /\ \A i \in 1 .. Len(Tail(q)) : Tail(q)[i] = q[i + 1]
  <1>1. Len(q) \in Nat /\ Len(q) # 0
    BY EmptySeq
  <1>2. Tail(q) \in Seq(S) /\ Len(Tail(q)) = Len(q) - 1
    BY HeadTailProperties
  <1>3. \A i \in 1 .. Len(Tail(q)) : Tail(q)[i] = q[i + 1]
    BY HeadTailProperties
  <1>4. Head(q) = q[1] /\ Head(q) \in S
    BY HeadTailProperties
  <1> QED
    BY <1>1, <1>2, <1>3, <1>4

\* The first operation is replaced by ops: which operations remain.
LEMMA ReplacedOps ==
  ASSUME NEW S, NEW q \in Seq(S), q # <<>>, NEW ops \in Seq(S)
  PROVE  /\ ops \o Tail(q) \in Seq(S)
         /\ Head(q) \in OpsOf(q)
         /\ OpsOf(ops \o Tail(q)) \subseteq OpsOf(ops) \union OpsOf(q)
         /\ \A op \in OpsOf(q) : op # Head(q) => op \in OpsOf(ops \o Tail(q))
  <1> DEFINE r == ops \o Tail(q)
  <1>1. /\ Len(q) \in Nat /\ Len(q) >= 1 /\ Head(q) = q[1]
        /\ Tail(q) \in Seq(S) /\ Len(Tail(q)) = Len(q) - 1
        /\ \A i \in 1 .. Len(Tail(q)) : Tail(q)[i] = q[i + 1]
    BY TailElements
  <1>2. /\ r \in Seq(S) /\ Len(r) = Len(ops) + Len(q) - 1 /\ Len(ops) \in Nat
        /\ \A i \in 1 .. Len(ops) : r[i] = ops[i]
        /\ \A i \in 1 .. Len(Tail(q)) : r[Len(ops) + i] = Tail(q)[i]
        /\ \A i \in 1 .. Len(r) : i > Len(ops) =>
             i - Len(ops) \in 1 .. Len(Tail(q)) /\ r[i] = Tail(q)[i - Len(ops)]
    <2>1. Len(ops) \in Nat
      OBVIOUS
    <2> HIDE DEF r
    <2>2. r \in Seq(S) /\ Len(r) = Len(ops) + Len(Tail(q))
      BY <1>1, JoinElements DEF r
    <2>3. \A i \in 1 .. Len(ops) : r[i] = ops[i]
      BY <1>1, JoinElements DEF r
    <2>4. \A i \in 1 .. Len(Tail(q)) : r[Len(ops) + i] = Tail(q)[i]
      BY <1>1, JoinElements DEF r
    <2>5. \A i \in 1 .. Len(r) : i > Len(ops) =>
             i - Len(ops) \in 1 .. Len(Tail(q)) /\ r[i] = Tail(q)[i - Len(ops)]
      BY <1>1, JoinElements DEF r
    <2> QED
      BY <1>1, <2>1, <2>2, <2>3, <2>4, <2>5
  <1> HIDE DEF r
  <1>3. Head(q) \in OpsOf(q)
    BY <1>1 DEF OpsOf
  <1>4. ASSUME NEW op \in OpsOf(r) PROVE op \in OpsOf(ops) \union OpsOf(q)
    <2>1. PICK i \in 1 .. Len(r) : op = r[i]
      BY DEF OpsOf
    <2>2. CASE i <= Len(ops)
      BY <1>2, <2>1, <2>2 DEF OpsOf
    <2>3. CASE i > Len(ops)
      <3>1. i - Len(ops) + 1 \in 1 .. Len(q) /\ op = q[i - Len(ops) + 1]
        BY <1>1, <1>2, <2>1, <2>3
      <3> QED
        BY <3>1 DEF OpsOf
    <2> QED
      BY <1>2, <2>2, <2>3
  <1>5. ASSUME NEW op \in OpsOf(q), op # Head(q) PROVE op \in OpsOf(r)
    <2>1. PICK i \in 1 .. Len(q) : op = q[i]
      BY DEF OpsOf
    <2>2. i # 1 /\ i - 1 \in 1 .. Len(Tail(q))
      BY <1>1, <1>5, <2>1
    <2>3. op = r[Len(ops) + (i - 1)] /\ Len(ops) + (i - 1) \in 1 .. Len(r)
      BY <1>1, <1>2, <2>1, <2>2
    <2> QED
      BY <2>3 DEF OpsOf
  <1> QED
    BY <1>2, <1>3, <1>4, <1>5 DEF r

\* Two sequences that both have the B before the N have it joined, too.
LEMMA JoinBefore ==
  ASSUME NEW S, NEW p \in Seq(S), NEW q \in Seq(S), NEW N, NEW B,
         Before(p, N, B), Before(q, N, B)
  PROVE  Before(p \o q, N, B)
  <1> SUFFICES ASSUME NEW i \in 1 .. Len(p \o q), (p \o q)[i] \in N
               PROVE  \E j \in 1 .. i - 1 : (p \o q)[j] \in B
    BY DEF Before
  <1>1. Len(p) \in Nat /\ Len(p \o q) = Len(p) + Len(q) /\ Len(q) \in Nat
    BY JoinElements
  <1>2. CASE i <= Len(p)
    <2>1. (p \o q)[i] = p[i]
      BY <1>1, <1>2, JoinElements
    <2>2. PICK j \in 1 .. i - 1 : p[j] \in B
      BY <1>1, <1>2, <2>1 DEF Before
    <2>3. (p \o q)[j] = p[j]
      BY <1>1, <1>2, <2>2, JoinElements
    <2> QED
      BY <2>2, <2>3
  <1>3. CASE i > Len(p)
    <2>1. i - Len(p) \in 1 .. Len(q) /\ (p \o q)[i] = q[i - Len(p)]
      BY <1>1, <1>3, JoinElements
    <2>2. PICK j \in 1 .. (i - Len(p)) - 1 : q[j] \in B
      BY <2>1 DEF Before
    <2>3. (p \o q)[Len(p) + j] = q[j] /\ Len(p) + j \in 1 .. i - 1
      BY <1>1, <2>1, <2>2, JoinElements
    <2> QED
      BY <2>2, <2>3
  <1> QED
    BY <1>1, <1>2, <1>3

\* The same for a sequence that holds one of the B behind no N.
LEMMA JoinBehind ==
  ASSUME NEW S, NEW p \in Seq(S), NEW q \in Seq(S), NEW N, NEW B,
         Before(p, N, B), NEW b \in OpsOf(p), b \in B
  PROVE  Before(p \o q, N, B)
  <1> SUFFICES ASSUME NEW i \in 1 .. Len(p \o q), (p \o q)[i] \in N
               PROVE  \E j \in 1 .. i - 1 : (p \o q)[j] \in B
    BY DEF Before
  <1>1. Len(p) \in Nat /\ Len(p \o q) = Len(p) + Len(q) /\ Len(q) \in Nat
    BY JoinElements
  <1>2. CASE i <= Len(p)
    <2>1. (p \o q)[i] = p[i]
      BY <1>1, <1>2, JoinElements
    <2>2. PICK j \in 1 .. i - 1 : p[j] \in B
      BY <1>1, <1>2, <2>1 DEF Before
    <2>3. (p \o q)[j] = p[j]
      BY <1>1, <1>2, <2>2, JoinElements
    <2> QED
      BY <2>2, <2>3
  <1>3. CASE i > Len(p)
    <2>1. PICK k \in 1 .. Len(p) : b = p[k]
      BY DEF OpsOf
    <2>2. (p \o q)[k] = p[k] /\ k \in 1 .. i - 1
      BY <1>1, <1>3, <2>1, JoinElements
    <2> QED
      BY <2>1, <2>2
  <1> QED
    BY <1>1, <1>2, <1>3

\* The first operation is none of the B: the others keep the B before the N.
LEMMA TailBefore ==
  ASSUME NEW S, NEW q \in Seq(S), q # <<>>, NEW N, NEW B,
         Before(q, N, B), Head(q) \notin B
  PROVE  Before(Tail(q), N, B)
  <1> SUFFICES ASSUME NEW i \in 1 .. Len(Tail(q)), Tail(q)[i] \in N
               PROVE  \E j \in 1 .. i - 1 : Tail(q)[j] \in B
    BY DEF Before
  <1>1. /\ Len(q) \in Nat /\ Head(q) = q[1] /\ Len(Tail(q)) = Len(q) - 1
        /\ \A k \in 1 .. Len(Tail(q)) : Tail(q)[k] = q[k + 1]
    BY TailElements
  <1>2. i + 1 \in 1 .. Len(q) /\ q[i + 1] \in N
    BY <1>1
  <1>3. PICK j \in 1 .. (i + 1) - 1 : q[j] \in B
    BY <1>2 DEF Before
  <1>4. j # 1
    BY <1>1, <1>3
  <1>5. j - 1 \in 1 .. i - 1 /\ Tail(q)[j - 1] = q[j]
    BY <1>1, <1>3, <1>4
  <1> QED
    BY <1>3, <1>5

\* What has something after it keeps it when the first operation goes.
LEMMA TailFollows ==
  ASSUME NEW S, NEW q \in Seq(S), q # <<>>, NEW N, NEW A, Follows(q, N, A)
  PROVE  Follows(Tail(q), N, A)
  <1> SUFFICES ASSUME NEW i \in 1 .. Len(Tail(q)), Tail(q)[i] \in N
               PROVE  \E j \in i + 1 .. Len(Tail(q)) : Tail(q)[j] \in A
    BY DEF Follows
  <1>1. /\ Len(q) \in Nat /\ Len(Tail(q)) = Len(q) - 1
        /\ \A k \in 1 .. Len(Tail(q)) : Tail(q)[k] = q[k + 1]
    BY TailElements
  <1>2. i + 1 \in 1 .. Len(q) /\ q[i + 1] \in N
    BY <1>1
  <1>3. PICK j \in (i + 1) + 1 .. Len(q) : q[j] \in A
    BY <1>2 DEF Follows
  <1>4. j - 1 \in i + 1 .. Len(Tail(q)) /\ Tail(q)[j - 1] = q[j]
    BY <1>1, <1>3
  <1> QED
    BY <1>3, <1>4

\* Two sequences in which the N have an A after them have it joined, too.
LEMMA JoinFollows ==
  ASSUME NEW S, NEW p \in Seq(S), NEW q \in Seq(S), NEW N, NEW A,
         Follows(p, N, A), Follows(q, N, A)
  PROVE  Follows(p \o q, N, A)
  <1> SUFFICES ASSUME NEW i \in 1 .. Len(p \o q), (p \o q)[i] \in N
               PROVE  \E j \in i + 1 .. Len(p \o q) : (p \o q)[j] \in A
    BY DEF Follows
  <1>1. Len(p) \in Nat /\ Len(p \o q) = Len(p) + Len(q) /\ Len(q) \in Nat
    BY JoinElements
  <1>2. CASE i <= Len(p)
    <2>1. (p \o q)[i] = p[i]
      BY <1>1, <1>2, JoinElements
    <2>2. PICK j \in i + 1 .. Len(p) : p[j] \in A
      BY <1>1, <1>2, <2>1 DEF Follows
    <2>3. (p \o q)[j] = p[j] /\ j \in i + 1 .. Len(p \o q)
      BY <1>1, <1>2, <2>2, JoinElements
    <2> QED
      BY <2>2, <2>3
  <1>3. CASE i > Len(p)
    <2>1. i - Len(p) \in 1 .. Len(q) /\ (p \o q)[i] = q[i - Len(p)]
      BY <1>1, <1>3, JoinElements
    <2>2. PICK j \in (i - Len(p)) + 1 .. Len(q) : q[j] \in A
      BY <2>1 DEF Follows
    <2>3. (p \o q)[Len(p) + j] = q[j] /\ Len(p) + j \in i + 1 .. Len(p \o q)
      BY <1>1, <2>1, <2>2, JoinElements
    <2> QED
      BY <2>2, <2>3
  <1> QED
    BY <1>1, <1>2, <1>3

\* What comes right before going to WAIT comes right before it in the rest, too.
LEMMA ToldTail ==
  ASSUME NEW q \in Seq(Operation), q # <<>>, Told(q)
  PROVE  Told(Tail(q)) /\ (Begins(Tail(q), ToWait) => Head(q) \in SetNexts)
  <1>1. /\ Len(q) \in Nat /\ Head(q) = q[1] /\ Len(Tail(q)) = Len(q) - 1
        /\ \A k \in 1 .. Len(Tail(q)) : Tail(q)[k] = q[k + 1]
    BY TailElements
  <1>2. Told(Tail(q))
    <2> SUFFICES ASSUME NEW i \in 2 .. Len(Tail(q)), Tail(q)[i] \in ToWait
                 PROVE  Tail(q)[i - 1] \in SetNexts
      BY DEF Told
    <2>1. i + 1 \in 2 .. Len(q) /\ q[i + 1] \in ToWait /\ i - 1 \in 1 .. Len(Tail(q))
      BY <1>1
    <2>2. q[i] \in SetNexts
      BY <2>1 DEF Told
    <2> QED
      BY <1>1, <2>1, <2>2
  <1>3. ASSUME Begins(Tail(q), ToWait) PROVE Head(q) \in SetNexts
    <2>1. 2 \in 2 .. Len(q) /\ q[2] \in ToWait
      BY <1>1, <1>3 DEF Begins
    <2> QED
      BY <1>1, <2>1 DEF Told
  <1> QED
    BY <1>2, <1>3

\* And when sequences are joined, if the second does not begin with going to WAIT.
LEMMA ToldJoin ==
  ASSUME NEW p \in Seq(Operation), NEW q \in Seq(Operation), Told(p), Told(q),
         ~Begins(q, ToWait)
  PROVE  Told(p \o q) /\ (Begins(p \o q, ToWait) => Begins(p, ToWait))
  <1>1. /\ Len(p) \in Nat /\ Len(q) \in Nat /\ Len(p \o q) = Len(p) + Len(q)
        /\ \A i \in 1 .. Len(p) : (p \o q)[i] = p[i]
        /\ \A i \in 1 .. Len(p \o q) : i > Len(p) =>
             i - Len(p) \in 1 .. Len(q) /\ (p \o q)[i] = q[i - Len(p)]
    BY JoinElements
  <1>2. Told(p \o q)
    <2> SUFFICES ASSUME NEW i \in 2 .. Len(p \o q), (p \o q)[i] \in ToWait
                 PROVE  (p \o q)[i - 1] \in SetNexts
      BY DEF Told
    <2>1. CASE i <= Len(p)
      BY <1>1, <2>1 DEF Told
    <2>2. CASE i > Len(p)
      <3>1. i - Len(p) \in 1 .. Len(q) /\ q[i - Len(p)] \in ToWait
        BY <1>1, <2>2
      <3>2. i - Len(p) # 1
        BY <1>1, <3>1 DEF Begins
      <3>3. q[i - Len(p) - 1] \in SetNexts /\ i - 1 \in 1 .. Len(p \o q) /\ i - 1 > Len(p)
        BY <1>1, <2>2, <3>1, <3>2 DEF Told
      <3>4. (p \o q)[i - 1] = q[(i - 1) - Len(p)]
        BY <1>1, <3>3
      <3>5. (i - 1) - Len(p) = i - Len(p) - 1
        BY <1>1
      <3> QED
        BY <3>3, <3>4, <3>5
    <2> QED
      BY <1>1, <2>1, <2>2
  <1>3. ASSUME Begins(p \o q, ToWait) PROVE Begins(p, ToWait)
    <2>1. CASE Len(p) >= 1
      BY <1>1, <1>3, <2>1 DEF Begins
    <2>2. CASE Len(p) = 0
      BY <1>1, <1>3, <2>2 DEF Begins
    <2> QED
      BY <1>1, <2>1, <2>2
  <1> QED
    BY <1>2, <1>3

-----------------------------------------------------------------------------
(* What an operation puts in its place.                                    *)

\* A condition or a call: it is none of the operations that others wait for.
Branching(op) ==
  op[1] \in {"call", "ramp", "ifLaunch", "ifMayCharge", "ifPwmOff", "ifLate", "ifRunning",
             "ifErrors", "ifExpired"}

\* ops can take the place of any condition or call.
Plain(ops) ==
  /\ ops \in Seq(Operation)
  /\ Told(ops) /\ ~Begins(ops, ToWait)
  /\ Before(ops, {<<"setNext", "READY">>}, {<<"relay", "on">>})
  /\ Follows(ops, {<<"relay", "on">>}, ToWait)
  /\ \A op \in OpsOf(ops) :
       ~Alone(op) /\ op \notin Switches /\ op # ToCharging /\ op # <<"setNext", "STANDBY">>
  /\ \A i \in 2 .. Len(ops) : ~Bound(ops[i])

\* None of its operations is bound, or only the first: so it is for the rest.
LEMMA LaterNotBound ==
  ASSUME NEW q \in Seq(Operation), q # <<>>, NEW ops \in Seq(Operation),
         \A i \in 2 .. Len(q) : ~Bound(q[i]), \A i \in 2 .. Len(ops) : ~Bound(ops[i])
  PROVE  \A i \in 2 .. Len(ops \o Tail(q)) : ~Bound((ops \o Tail(q))[i])
  <1> SUFFICES ASSUME NEW i \in 2 .. Len(ops \o Tail(q))
               PROVE  ~Bound((ops \o Tail(q))[i])
    OBVIOUS
  <1>1. /\ Len(q) \in Nat /\ Tail(q) \in Seq(Operation) /\ Len(Tail(q)) = Len(q) - 1
        /\ \A k \in 1 .. Len(Tail(q)) : Tail(q)[k] = q[k + 1]
    BY TailElements
  <1>2. Len(ops) \in Nat /\ Len(ops \o Tail(q)) \in Nat
    BY <1>1, JoinElements
  <1>3. CASE i <= Len(ops)
    <2>1. (ops \o Tail(q))[i] = ops[i]
      BY <1>1, <1>2, <1>3, JoinElements
    <2> QED
      BY <1>2, <1>3, <2>1
  <1>4. CASE i > Len(ops)
    <2>1. i - Len(ops) \in 1 .. Len(Tail(q)) /\ (ops \o Tail(q))[i] = Tail(q)[i - Len(ops)]
      BY <1>1, <1>2, <1>4, JoinElements
    <2>2. (ops \o Tail(q))[i] = q[i - Len(ops) + 1] /\ i - Len(ops) + 1 \in 2 .. Len(q)
      BY <1>1, <1>2, <2>1
    <2> QED
      BY <2>2
  <1> QED
    BY <1>2, <1>3, <1>4

\* Some operations are operations.
LEMMA Pairs ==
  ASSUME NEW n \in Names, NEW a \in Arguments
  PROVE  <<n, a>> \in Operation /\ <<n, a>>[1] = n /\ <<n, a>>[2] = a
BY DEF Operation

\* The names of those that the predicates single out.
LEMMA NamesOf ==
  /\ <<"goTo", "WAIT">>[1] = "goTo" /\ ToCharging[1] = "goTo"
  /\ <<"relay", "on">>[1] = "relay" /\ <<"relay", "off">>[1] = "relay"
  /\ \A op \in SetNexts : op[1] = "setNext"
  /\ \A op \in Trip : op[1] = "forceTrip"
  /\ <<"setNext", "STANDBY">>[1] = "setNext" /\ <<"setNext", "READY">>[1] = "setNext"
  <1>1. ASSUME NEW op \in SetNexts PROVE op[1] = "setNext"
    <2>1. PICK s \in {"STANDBY", "READY", "SHUTDOWN"} : op = <<"setNext", s>>
      BY DEF SetNexts
    <2> QED
      BY <2>1
  <1>2. ASSUME NEW op \in Trip PROVE op[1] = "forceTrip"
    <2>1. op = <<"forceTrip", "">>
      BY DEF Trip
    <2> QED
      BY <2>1
  <1> QED
    BY <1>1, <1>2 DEF ToCharging

\* The two operations of changeStateAfterWait.
LEMMA GoAfterWaitIs ==
  ASSUME NEW s \in {"STANDBY", "READY", "SHUTDOWN"}
  PROVE  /\ <<"setNext", s>> \in Operation /\ <<"goTo", "WAIT">> \in Operation
         /\ GoAfterWait(s) \in Seq(Operation) /\ Len(GoAfterWait(s)) = 2
         /\ GoAfterWait(s)[1] = <<"setNext", s>> /\ GoAfterWait(s)[2] = <<"goTo", "WAIT">>
         /\ OpsOf(GoAfterWait(s)) = {<<"setNext", s>>, <<"goTo", "WAIT">>}
  <1>1. "setNext" \in Names /\ "goTo" \in Names /\ s \in Arguments /\ "WAIT" \in Arguments
    BY DEF Names, Arguments, States
  <1>2. <<"setNext", s>> \in Operation /\ <<"goTo", "WAIT">> \in Operation
    BY <1>1, Pairs
  <1>3. ASSUME NEW a \in Operation, NEW b \in Operation
        PROVE  /\ <<a, b>> \in Seq(Operation) /\ Len(<<a, b>>) = 2
               /\ <<a, b>>[1] = a /\ <<a, b>>[2] = b
    OBVIOUS
  <1> QED
    BY <1>2, <1>3, ShortOps DEF GoAfterWait

\* The first operations of the methods that are bound later on.
LEMMA BoundRoutinesBegin ==
  ASSUME NEW q \in BoundRoutines
  PROVE  q # <<>> /\ Head(q) \in {<<"signal", "start">>, <<"resetErrors", "">>, <<"relay", "off">>}
  <1>1. GoAfterWait("STANDBY") \in Seq(Operation)
    BY GoAfterWaitIs
  <1>2. ASSUME NEW a \in Operation, NEW s \in Seq(Operation)
        PROVE  <<a>> \o s # <<>> /\ Head(<<a>> \o s) = a
    <2>1. <<a>> \in Seq(Operation) /\ Len(<<a>>) = 1 /\ <<a>>[1] = a
      OBVIOUS
    <2>2. (<<a>> \o s)[1] = a /\ Len(<<a>> \o s) >= 1 /\ <<a>> \o s \in Seq(Operation)
      BY <2>1, JoinElements
    <2>3. <<a>> \o s # <<>>
      BY <2>2, EmptySeq
    <2> QED
      BY <2>2, <2>3, TailElements
  <1>3. <<"resetErrors", "">> \in Operation /\ <<"relay", "off">> \in Operation
    BY Pairs DEF Names, Arguments, States
  <1>4. ASSUME NEW a, NEW b
        PROVE  <<a, b>> # <<>> /\ Head(<<a, b>>) = a
    OBVIOUS
  <1>5. CASE q = <<<<"signal", "start">>, <<"goTo", "STARTUP">>>>
    BY <1>4, <1>5
  <1>6. CASE q = <<<<"resetErrors", "">>>> \o GoAfterWait("STANDBY")
    BY <1>1, <1>2, <1>3, <1>6
  <1>7. CASE q = <<<<"relay", "off">>>> \o GoAfterWait("STANDBY")
    BY <1>1, <1>2, <1>3, <1>7
  <1> QED
    BY <1>5, <1>6, <1>7 DEF BoundRoutines

\* Taking the place of a condition or a call, they leave the thread in order.
LEMMA PlainOrdered ==
  ASSUME NEW t \in Threads, NEW q \in Seq(Operation), q # <<>>, Ordered(t, q),
         Branching(Head(q)), ToCharging \notin OpsOf(q),
         NEW ops, Plain(ops)
  PROVE  Ordered(t, ops \o Tail(q))
  <1> DEFINE r == ops \o Tail(q)
  <1>1. ops \in Seq(Operation) /\ Tail(q) \in Seq(Operation) /\ r \in Seq(Operation)
    BY TailElements, ReplacedOps DEF Plain
  <1>2. /\ Head(q) \notin SetNexts /\ Head(q) # <<"relay", "off">> /\ Head(q) # <<"relay", "on">>
    BY DEF Branching, SetNexts
  <1>3. OpsOf(r) \subseteq OpsOf(ops) \union OpsOf(q)
    BY <1>1, ReplacedOps
  <1> HIDE DEF r
  <1>4. Told(r) /\ ~Begins(r, ToWait)
    <2>1. Told(Tail(q)) /\ ~Begins(Tail(q), ToWait)
      BY <1>2, ToldTail DEF Ordered
    <2> QED
      BY <1>1, <2>1, ToldJoin DEF Plain, r
  <1>5. Before(r, {<<"setNext", "STANDBY">>}, {<<"relay", "off">>}) \/ ~relay
    <2>1. Before(ops, {<<"setNext", "STANDBY">>}, {<<"relay", "off">>})
      BY DEF Plain, OpsOf, Before
    <2>2. CASE Before(q, {<<"setNext", "STANDBY">>}, {<<"relay", "off">>})
      BY <1>1, <1>2, <2>1, <2>2, JoinBefore, TailBefore DEF r
    <2> QED
      BY <2>2 DEF Ordered
  <1>6. Before(r, {<<"setNext", "READY">>}, {<<"relay", "on">>}) \/ relay
    <2>1. CASE Before(q, {<<"setNext", "READY">>}, {<<"relay", "on">>})
      BY <1>1, <1>2, <2>1, JoinBefore, TailBefore DEF Plain, r
    <2> QED
      BY <2>1 DEF Ordered
  <1>7. Follows(r, {<<"relay", "on">>}, ToWait)
    BY <1>1, JoinFollows, TailFollows DEF Ordered, Plain, r
  <1>8. Follows(r, Switches, {ToCharging})
    <2>1. Follows(ops, Switches, {ToCharging})
      BY DEF Plain, OpsOf, Follows
    <2> QED
      BY <1>1, <2>1, JoinFollows, TailFollows DEF Ordered, r
  <1>9. \A op \in OpsOf(r) : Alone(op) => Len(r) = 1
    <2> SUFFICES ASSUME NEW op \in OpsOf(r), Alone(op) PROVE Len(r) = 1
      OBVIOUS
    <2>1. op \in OpsOf(q)
      BY <1>3 DEF Plain
    <2>2. Len(q) = 1
      BY <2>1 DEF Ordered
    <2>3. Tail(q) = <<>>
      <3>1. Len(Tail(q)) = 0
        BY <2>2, TailElements
      <3> QED
        BY <3>1, <1>1, EmptySeq
    <2>4. r = ops
      BY <1>1, <2>3, ConcatEmptySeq DEF r
    <2> QED
      BY <2>4 DEF Plain
  <1>10. (\A i \in 2 .. Len(r) : ~Bound(r[i])) \/ r \in BoundRoutines
    <2>1. q \notin BoundRoutines
      <3>1. /\ <<"signal", "start">>[1] = "signal" /\ <<"relay", "off">>[1] = "relay"
            /\ <<"resetErrors", "">>[1] = "resetErrors"
        OBVIOUS
      <3>2. Head(q)[1] \notin {"signal", "resetErrors", "relay"}
        BY DEF Branching
      <3> QED
        BY <3>1, <3>2, BoundRoutinesBegin
    <2> QED
      BY <2>1, <1>1, LaterNotBound DEF Ordered, Plain, r
  <1>11. ToCharging \notin OpsOf(r)
    BY <1>3 DEF Plain
  <1> QED
    BY <1>4, <1>5, <1>6, <1>7, <1>8, <1>9, <1>10, <1>11 DEF Ordered, r

\* Nothing waits for op, and op waits for nothing.
Ordinary(op) ==
  /\ op \in Operation
  /\ ~Alone(op) /\ op \notin Switches /\ op # ToCharging
  /\ op[1] # "setNext" /\ op # <<"goTo", "WAIT">> /\ op # <<"relay", "on">>

\* Sequences of such operations are plain.
LEMMA PlainOrdinary ==
  ASSUME NEW q \in Seq(Operation), \A op \in OpsOf(q) : Ordinary(op),
         \A i \in 2 .. Len(q) : ~Bound(q[i])
  PROVE  Plain(q)
  <1>1. \A op \in OpsOf(q) : /\ op \notin ToWait /\ op \notin {<<"setNext", "READY">>}
                             /\ op \notin {<<"relay", "on">>} /\ op # <<"setNext", "STANDBY">>
    BY DEF Ordinary, ToWait
  <1>2. \A i \in 1 .. Len(q) : q[i] \in OpsOf(q)
    BY DEF OpsOf
  <1>3. /\ Before(q, {<<"setNext", "READY">>}, {<<"relay", "on">>})
        /\ Follows(q, {<<"relay", "on">>}, ToWait)
        /\ Told(q) /\ ~Begins(q, ToWait)
    BY <1>1, <1>2 DEF Before, Follows, Told, Begins
  <1> QED
    BY <1>1, <1>3 DEF Plain, Ordinary

\* The short ones.
LEMMA PlainShort ==
  ASSUME NEW a, Ordinary(a), NEW b, Ordinary(b), ~Bound(b), NEW c, Ordinary(c), ~Bound(c)
  PROVE  Plain(<<>>) /\ Plain(<<a>>) /\ Plain(<<a, b>>) /\ Plain(<<a, b, c>>)
  <1>1. a \in Operation /\ b \in Operation /\ c \in Operation
    BY DEF Ordinary
  <1>2. Plain(<<>>)
    <2>1. <<>> \in Seq(Operation) /\ Len(<<>>) = 0
      BY EmptySeq
    <2>2. \A i \in 2 .. Len(<<>>) : ~Bound(<<>>[i])
      BY <2>1
    <2>3. \A op \in OpsOf(<<>>) : Ordinary(op)
      BY <2>1 DEF OpsOf
    <2> QED
      BY <2>1, <2>2, <2>3, PlainOrdinary
  <1>3. Plain(<<a>>)
    <2>1. <<a>> \in Seq(Operation) /\ Len(<<a>>) = 1 /\ <<a>>[1] = a
      BY <1>1
    <2>2. \A i \in 2 .. Len(<<a>>) : ~Bound(<<a>>[i])
      BY <2>1
    <2>3. \A op \in OpsOf(<<a>>) : Ordinary(op)
      BY <2>1 DEF OpsOf
    <2> QED
      BY <2>1, <2>2, <2>3, PlainOrdinary
  <1>4. Plain(<<a, b>>)
    <2>1. /\ <<a, b>> \in Seq(Operation) /\ Len(<<a, b>>) = 2
          /\ <<a, b>>[1] = a /\ <<a, b>>[2] = b
      BY <1>1
    <2>2. \A i \in 2 .. Len(<<a, b>>) : ~Bound(<<a, b>>[i])
      BY <2>1
    <2>3. \A op \in OpsOf(<<a, b>>) : Ordinary(op)
      BY <2>1 DEF OpsOf
    <2> QED
      BY <2>1, <2>2, <2>3, PlainOrdinary
  <1>5. Plain(<<a, b, c>>)
    <2>1. /\ <<a, b, c>> \in Seq(Operation) /\ Len(<<a, b, c>>) = 3
          /\ <<a, b, c>>[1] = a /\ <<a, b, c>>[2] = b /\ <<a, b, c>>[3] = c
      BY <1>1
    <2>2. \A i \in 2 .. Len(<<a, b, c>>) : ~Bound(<<a, b, c>>[i])
      BY <2>1
    <2>3. \A op \in OpsOf(<<a, b, c>>) : Ordinary(op)
      BY <2>1 DEF OpsOf
    <2> QED
      BY <2>1, <2>2, <2>3, PlainOrdinary
  <1> QED
    BY <1>2, <1>3, <1>4, <1>5

\* Two plain sequences make a plain one, if only the first may begin bound.
LEMMA PlainJoin ==
  ASSUME NEW p, Plain(p), NEW q, Plain(q), \A op \in OpsOf(q) : ~Bound(op)
  PROVE  Plain(p \o q) /\ OpsOf(p \o q) = OpsOf(p) \union OpsOf(q)
  <1>1. p \in Seq(Operation) /\ q \in Seq(Operation)
    BY DEF Plain
  <1>2. /\ p \o q \in Seq(Operation) /\ Len(p) \in Nat /\ Len(q) \in Nat
        /\ Len(p \o q) = Len(p) + Len(q)
    BY <1>1, JoinElements
  <1>3. \A i \in 1 .. Len(p \o q) :
           \/ i <= Len(p) /\ (p \o q)[i] = p[i]
           \/ i > Len(p) /\ i - Len(p) \in 1 .. Len(q) /\ (p \o q)[i] = q[i - Len(p)]
    BY <1>1, <1>2, JoinElements
  <1>4. OpsOf(p \o q) = OpsOf(p) \union OpsOf(q)
    <2>1. OpsOf(p \o q) \subseteq OpsOf(p) \union OpsOf(q)
      BY <1>2, <1>3 DEF OpsOf
    <2>2. OpsOf(p) \subseteq OpsOf(p \o q)
      BY <1>2, <1>3 DEF OpsOf
    <2>3. OpsOf(q) \subseteq OpsOf(p \o q)
      <3> SUFFICES ASSUME NEW i \in 1 .. Len(q) PROVE q[i] \in OpsOf(p \o q)
        BY DEF OpsOf
      <3>1. (p \o q)[Len(p) + i] = q[i] /\ Len(p) + i \in 1 .. Len(p \o q)
        BY <1>1, <1>2, JoinElements
      <3> QED
        BY <3>1 DEF OpsOf
    <2> QED
      BY <2>1, <2>2, <2>3
  <1>5. /\ Told(p \o q) /\ ~Begins(p \o q, ToWait)
        /\ Before(p \o q, {<<"setNext", "READY">>}, {<<"relay", "on">>})
    BY <1>1, JoinBefore, ToldJoin DEF Plain
  <1>6. Follows(p \o q, {<<"relay", "on">>}, ToWait)
    BY <1>1, JoinFollows DEF Plain
  <1>7. \A i \in 2 .. Len(p \o q) : ~Bound((p \o q)[i])
    <2> SUFFICES ASSUME NEW i \in 2 .. Len(p \o q) PROVE ~Bound((p \o q)[i])
      OBVIOUS
    <2>1. CASE i <= Len(p)
      BY <1>2, <1>3, <2>1 DEF Plain
    <2>2. CASE i > Len(p)
      BY <1>2, <1>3, <2>2 DEF OpsOf
    <2> QED
      BY <1>2, <2>1, <2>2
  <1> QED
    BY <1>2, <1>4, <1>5, <1>6, <1>7 DEF Plain

\* The pieces that the methods are made of.
LEMMA Pieces ==
  /\ Plain(<<>>)
  /\ Plain(StopCells) /\ OpsOf(StopCells) = {<<"mask", "">>, <<"signal", "stop">>}
  /\ Plain(PwmStop) /\ OpsOf(PwmStop) = {<<"forceTrip", "">>, <<"pwmOff", "">>}
  /\ Plain(<<<<"resetRamp", "">>>>)
  /\ Plain(GoAfterWait("SHUTDOWN"))
  <1>1. \A n \in {"mask", "forceTrip", "pwmOff", "resetRamp"} :
           Ordinary(<<n, "">>) /\ ~Bound(<<n, "">>)
    <2> SUFFICES ASSUME NEW n \in {"mask", "forceTrip", "pwmOff", "resetRamp"}
                 PROVE  Ordinary(<<n, "">>) /\ ~Bound(<<n, "">>)
      OBVIOUS
    <2>1. <<n, "">> \in Operation /\ <<n, "">>[1] = n /\ <<n, "">>[2] = ""
      BY Pairs DEF Names, Arguments
    <2> QED
      BY <2>1 DEF Ordinary, Bound, Alone, OfExpiry, Switches, ToCharging
  <1>2. Ordinary(<<"signal", "stop">>) /\ ~Bound(<<"signal", "stop">>)
    <2>1. <<"signal", "stop">> \in Operation
      BY Pairs DEF Names, Arguments
    <2> QED
      BY <2>1 DEF Ordinary, Bound, Alone, OfExpiry, Switches, ToCharging
  <1>3. Plain(GoAfterWait("SHUTDOWN"))
    <2> DEFINE g == GoAfterWait("SHUTDOWN")
    <2>1. /\ g \in Seq(Operation) /\ Len(g) = 2
          /\ g[1] = <<"setNext", "SHUTDOWN">> /\ g[2] = <<"goTo", "WAIT">>
          /\ OpsOf(g) = {<<"setNext", "SHUTDOWN">>, <<"goTo", "WAIT">>}
      BY GoAfterWaitIs
    <2> HIDE DEF g
    <2>2. /\ g[1] \in SetNexts /\ g[1] \notin ToWait
          /\ \A op \in OpsOf(g) : /\ ~Bound(op) /\ ~Alone(op) /\ op \notin Switches
                                  /\ op # ToCharging /\ op # <<"setNext", "STANDBY">>
                                  /\ op # <<"setNext", "READY">> /\ op # <<"relay", "on">>
      BY <2>1 DEF SetNexts, ToWait, Bound, Alone, OfExpiry, Switches, ToCharging
    <2>3. Told(g) /\ ~Begins(g, ToWait)
      BY <2>1, <2>2 DEF Told, Begins
    <2>4. /\ Before(g, {<<"setNext", "READY">>}, {<<"relay", "on">>})
          /\ Follows(g, {<<"relay", "on">>}, ToWait)
          /\ \A i \in 2 .. Len(g) : ~Bound(g[i])
      BY <2>1, <2>2 DEF Before, Follows, OpsOf
    <2> QED
      BY <2>1, <2>2, <2>3, <2>4 DEF Plain, g
  <1> QED
    BY <1>1, <1>2, <1>3, PlainShort, ShortOps DEF StopCells, PwmStop

\* The methods of a shutdown.
LEMMA ShutdownRoutine ==
  ASSUME NEW s \in States
  PROVE  /\ Plain(ShutdownOf(s))
         /\ OpsOf(ShutdownOf(s)) \subseteq
              {<<"mask", "">>, <<"signal", "stop">>, <<"forceTrip", "">>, <<"pwmOff", "">>,
               <<"resetRamp", "">>, <<"setNext", "SHUTDOWN">>, <<"goTo", "WAIT">>}
         /\ s \in {"STANDBY", "SHUTDOWN", "WAIT"} =>
              <<"setNext", "SHUTDOWN">> \notin OpsOf(ShutdownOf(s))
         /\ s \in {"CHARGING_START", "CHARGING"} =>
              \E q \in Seq(Operation) : ShutdownOf(s) = PwmStop \o q
  <1> DEFINE g == GoAfterWait("SHUTDOWN")
             reset == <<<<"resetRamp", "">>>>
             Masks == {<<"mask", "">>, <<"signal", "stop">>}
             Sets == {<<"setNext", "SHUTDOWN">>, <<"goTo", "WAIT">>}
             Trips == {<<"forceTrip", "">>, <<"pwmOff", "">>}
  <1>1. Plain(g) /\ OpsOf(g) = Sets
    BY Pieces, GoAfterWaitIs
  <1>2. Plain(reset) /\ OpsOf(reset) = {<<"resetRamp", "">>}
    BY Pieces, ShortOps
  <1>3. /\ Plain(StopCells) /\ OpsOf(StopCells) = Masks
        /\ Plain(PwmStop) /\ OpsOf(PwmStop) = Trips
    BY Pieces
  <1> HIDE DEF g, reset
  <1>4. /\ ~Bound(<<"mask", "">>) /\ ~Bound(<<"signal", "stop">>)
        /\ ~Bound(<<"resetRamp", "">>)
        /\ ~Bound(<<"setNext", "SHUTDOWN">>) /\ ~Bound(<<"goTo", "WAIT">>)
    BY DEF Bound, OfExpiry
  <1>5. /\ \A op \in OpsOf(g) : ~Bound(op)
        /\ \A op \in OpsOf(StopCells) : ~Bound(op)
        /\ \A op \in OpsOf(reset) : ~Bound(op)
    BY <1>1, <1>2, <1>3, <1>4
  <1>6. ASSUME NEW p, Plain(p), NEW q, Plain(q), \A op \in OpsOf(q) : ~Bound(op)
        PROVE  Plain(p \o q) /\ OpsOf(p \o q) = OpsOf(p) \union OpsOf(q)
    BY <1>6, PlainJoin
  <1>7. Plain(StopCells \o g) /\ OpsOf(StopCells \o g) = OpsOf(StopCells) \union OpsOf(g)
    BY <1>1, <1>3, <1>5, <1>6, Zenon
  <1>8. /\ Plain(PwmStop \o StopCells)
        /\ OpsOf(PwmStop \o StopCells) = OpsOf(PwmStop) \union OpsOf(StopCells)
    BY <1>3, <1>5, <1>6, Zenon
  <1>9. /\ Plain(PwmStop \o StopCells \o g)
        /\ OpsOf(PwmStop \o StopCells \o g) = OpsOf(PwmStop \o StopCells) \union OpsOf(g)
    BY <1>1, <1>5, <1>6, <1>8, Zenon
  <1>10. /\ Plain(PwmStop \o StopCells \o reset \o g)
         /\ OpsOf(PwmStop \o StopCells \o reset \o g)
              = (OpsOf(PwmStop \o StopCells) \union OpsOf(reset)) \union OpsOf(g)
    <2>1. /\ Plain(PwmStop \o StopCells \o reset)
          /\ OpsOf(PwmStop \o StopCells \o reset)
               = OpsOf(PwmStop \o StopCells) \union OpsOf(reset)
      BY <1>2, <1>5, <1>6, <1>8, Zenon
    <2> QED
      BY <1>1, <1>5, <1>6, <2>1, Zenon
  <1>11. ASSUME NEW p \in Seq(Operation), NEW q \in Seq(Operation), NEW r \in Seq(Operation)
         PROVE  (p \o q) \o r = p \o (q \o r)
    BY ConcatAssociative
  <1>12. /\ g \in Seq(Operation) /\ reset \in Seq(Operation) /\ StopCells \in Seq(Operation)
         /\ PwmStop \in Seq(Operation)
    BY <1>1, <1>2, <1>3 DEF Plain
  <1>13. ASSUME NEW p \in Seq(Operation), NEW q \in Seq(Operation)
         PROVE  p \o q \in Seq(Operation)
    BY ConcatProperties
  <1>14. CASE s \in {"STARTUP", "READY"}
    <2>1. ShutdownOf(s) = StopCells \o g
      BY <1>14, Zenon DEF ShutdownOf, g
    <2> QED
      BY <1>1, <1>3, <1>7, <1>14, <2>1
  <1>15. CASE s = "CHARGING_START"
    <2>1. ShutdownOf(s) = PwmStop \o StopCells \o reset \o g
      BY <1>15, Zenon DEF ShutdownOf, g, reset
    <2>2. ShutdownOf(s) = PwmStop \o (StopCells \o (reset \o g))
      <3>1. PwmStop \o StopCells \in Seq(Operation) /\ reset \o g \in Seq(Operation)
        BY <1>12, <1>13
      <3>2. (PwmStop \o StopCells \o reset) \o g = (PwmStop \o StopCells) \o (reset \o g)
        BY <3>1, <1>11, <1>12
      <3>3. (PwmStop \o StopCells) \o (reset \o g) = PwmStop \o (StopCells \o (reset \o g))
        BY <3>1, <1>11, <1>12
      <3> QED
        BY <2>1, <3>2, <3>3
    <2>3. StopCells \o (reset \o g) \in Seq(Operation)
      BY <1>12, <1>13
    <2> QED
      BY <1>1, <1>2, <1>3, <1>8, <1>10, <1>15, <2>1, <2>2, <2>3
  <1>16. CASE s = "CHARGING"
    <2>1. ShutdownOf(s) = PwmStop \o StopCells \o g
      BY <1>16, Zenon DEF ShutdownOf, g
    <2>2. ShutdownOf(s) = PwmStop \o (StopCells \o g)
      BY <2>1, <1>11, <1>12
    <2>3. StopCells \o g \in Seq(Operation)
      BY <1>12, <1>13
    <2> QED
      BY <1>1, <1>3, <1>8, <1>9, <1>16, <2>1, <2>2, <2>3
  <1>17. CASE s = "WAIT"
    <2>1. ShutdownOf(s) = PwmStop
      BY <1>17, Zenon DEF ShutdownOf
    <2>2. <<"setNext", "SHUTDOWN">> \notin Trips
      OBVIOUS
    <2> QED
      BY <1>3, <1>17, <2>1, <2>2
  <1>18. CASE s \in {"STANDBY", "SHUTDOWN"}
    <2>1. ShutdownOf(s) = <<>>
      BY <1>18, Zenon DEF ShutdownOf
    <2>2. OpsOf(<<>>) = {}
      BY ShortOps
    <2> QED
      BY <1>18, <2>1, <2>2, Pieces
  <1> QED
    BY <1>14, <1>15, <1>16, <1>17, <1>18 DEF States

-----------------------------------------------------------------------------
(* Threads and their queues.                                               *)

\* Nothing to do is always in order.
LEMMA EmptyOK ==
  ASSUME NEW t
  PROVE  QueueOK(t, <<>>) /\ QueueOK(t, <<>>)'
  <1>1. <<>> \in Seq(Operation) /\ Len(<<>>) = 0
    BY EmptySeq
  <1>2. OpsOf(<<>>) = {}
    BY ShortOps
  <1>3. Told(<<>>) /\ ~Begins(<<>>, ToWait)
    BY <1>1 DEF Told, Begins
  <1>4. /\ Before(<<>>, {<<"setNext", "STANDBY">>}, {<<"relay", "off">>})
        /\ Before(<<>>, {<<"setNext", "READY">>}, {<<"relay", "on">>})
        /\ Follows(<<>>, {<<"relay", "on">>}, ToWait)
        /\ Follows(<<>>, Switches, {ToCharging})
    BY <1>1 DEF Before, Follows
  <1>5. \A i \in 2 .. Len(<<>>) : ~Bound(<<>>[i])
    BY <1>1
  <1> QED
    BY <1>2, <1>3, <1>4, <1>5 DEF QueueOK, Ordered

\* What may be pending depends on the state, its successor and the relay alone.
LEMMA SameSituation ==
  ASSUME UNCHANGED <<state, nextState, waitFresh, relay>>, NEW t, NEW q, QueueOK(t, q)
  PROVE  QueueOK(t, q)'
  <1>1. ASSUME NEW op, Home(t, op) PROVE Home(t, op)'
    BY <1>1 DEF Home, Live, Grounded
  <1>2. WaitSet(t)' <=> WaitSet(t)
    BY DEF WaitSet, Live, Grounded
  <1> QED
    BY <1>1, <1>2 DEF QueueOK, Ordered

\* The rest of a queue is in order, but for what the first operation was needed for.
LEMMA TailOrdered ==
  ASSUME NEW t, NEW q \in Seq(Operation), q # <<>>, Ordered(t, q)
  PROVE  /\ Told(Tail(q)) /\ (Begins(Tail(q), ToWait) => Head(q) \in SetNexts)
         /\ \/ Before(Tail(q), {<<"setNext", "STANDBY">>}, {<<"relay", "off">>})
            \/ ~relay \/ Head(q) = <<"relay", "off">>
         /\ \/ Before(Tail(q), {<<"setNext", "READY">>}, {<<"relay", "on">>})
            \/ relay \/ Head(q) = <<"relay", "on">>
         /\ Follows(Tail(q), {<<"relay", "on">>}, ToWait)
         /\ Follows(Tail(q), Switches, {ToCharging})
         /\ \A op \in OpsOf(Tail(q)) : ~Alone(op)
         /\ \A i \in 2 .. Len(Tail(q)) : ~Bound(Tail(q)[i])
         /\ q \notin BoundRoutines => \A op \in OpsOf(Tail(q)) : ~Bound(op)
         /\ ToCharging \in OpsOf(q) =>
              \A op \in OpsOf(Tail(q)) : ~Leaving(op) /\ op[1] # "call"
         /\ OpsOf(Tail(q)) \subseteq OpsOf(q)
  <1>1. /\ Len(q) \in Nat /\ Head(q) = q[1] /\ Len(Tail(q)) = Len(q) - 1 /\ Len(q) >= 1
        /\ Tail(q) \in Seq(Operation)
        /\ \A k \in 1 .. Len(Tail(q)) : Tail(q)[k] = q[k + 1]
    BY TailElements
  <1>2. OpsOf(Tail(q)) \subseteq OpsOf(q)
    BY <1>1 DEF OpsOf
  <1>3. \A op \in OpsOf(Tail(q)) : ~Alone(op)
    <2> SUFFICES ASSUME NEW op \in OpsOf(Tail(q)), Alone(op) PROVE FALSE
      OBVIOUS
    <2>1. Len(q) = 1
      BY <1>2 DEF Ordered
    <2>2. PICK i \in 1 .. Len(Tail(q)) : op = Tail(q)[i]
      BY DEF OpsOf
    <2> QED
      BY <1>1, <2>1, <2>2
  <1>4. \A i \in 2 .. Len(Tail(q)) : ~Bound(Tail(q)[i])
    <2> DEFINE tl == Tail(q)
    <2>1. Len(tl) = Len(q) - 1 /\ \A k \in 1 .. Len(tl) : tl[k] = q[k + 1]
      BY <1>1
    <2> HIDE DEF tl
    <2>2. ASSUME \A i \in 2 .. Len(q) : ~Bound(q[i])
          PROVE  \A i \in 2 .. Len(tl) : ~Bound(tl[i])
      BY <1>1, <2>1, <2>2
    <2>3. ASSUME NEW a, NEW b, q = <<a, b>>
          PROVE  \A i \in 2 .. Len(tl) : ~Bound(tl[i])
      <3>1. Len(<<a, b>>) = 2
        OBVIOUS
      <3>2. Len(tl) = 1
        BY <2>1, <2>3, <3>1
      <3> QED
        BY <3>2
    <2>4. ASSUME NEW op \in Operation, q = <<op>> \o GoAfterWait("STANDBY")
          PROVE  \A i \in 2 .. Len(tl) : ~Bound(tl[i])
      <3>1. <<op>> \in Seq(Operation) /\ Len(<<op>>) = 1
        OBVIOUS
      <3>2. /\ GoAfterWait("STANDBY") \in Seq(Operation) /\ Len(GoAfterWait("STANDBY")) = 2
            /\ GoAfterWait("STANDBY")[2] = <<"goTo", "WAIT">>
        BY GoAfterWaitIs
      <3>3. Len(q) = 1 + 2 /\ q[1 + 2] = GoAfterWait("STANDBY")[2]
        BY <2>4, <3>1, <3>2, JoinElements
      <3>4. ~Bound(<<"goTo", "WAIT">>)
        BY DEF Bound, OfExpiry
      <3>5. Len(tl) = 2 /\ tl[2] = <<"goTo", "WAIT">>
        BY <2>1, <3>2, <3>3
      <3> QED
        BY <3>4, <3>5
    <2>5. <<"resetErrors", "">> \in Operation /\ <<"relay", "off">> \in Operation
      BY Pairs DEF Names, Arguments
    <2>6. CASE q \in BoundRoutines
      BY <2>3, <2>4, <2>5, <2>6 DEF BoundRoutines, tl
    <2> QED
      BY <2>2, <2>6 DEF Ordered, tl
  <1>5. ASSUME q \notin BoundRoutines PROVE \A op \in OpsOf(Tail(q)) : ~Bound(op)
    BY <1>1, <1>5 DEF Ordered, OpsOf
  <1>6. Told(Tail(q)) /\ (Begins(Tail(q), ToWait) => Head(q) \in SetNexts)
    BY ToldTail DEF Ordered
  <1>7. \/ Before(Tail(q), {<<"setNext", "STANDBY">>}, {<<"relay", "off">>})
        \/ ~relay \/ Head(q) = <<"relay", "off">>
    BY TailBefore DEF Ordered
  <1>8. \/ Before(Tail(q), {<<"setNext", "READY">>}, {<<"relay", "on">>})
        \/ relay \/ Head(q) = <<"relay", "on">>
    BY TailBefore DEF Ordered
  <1>9. /\ Follows(Tail(q), {<<"relay", "on">>}, ToWait)
        /\ Follows(Tail(q), Switches, {ToCharging})
    BY TailFollows DEF Ordered
  <1>10. ToCharging \in OpsOf(q) =>
           \A op \in OpsOf(Tail(q)) : ~Leaving(op) /\ op[1] # "call"
    BY <1>2 DEF Ordered
  <1> QED
    BY <1>2, <1>3, <1>4, <1>5, <1>6, <1>7, <1>8, <1>9, <1>10

\* The thread that runs, and what it has to do next.
LEMMA Running ==
  ASSUME StackOK, TodoOK, stack # <<>>
  PROVE  /\ Len(stack) \in Nat /\ Len(stack) >= 1 /\ Current = stack[Len(stack)]
         /\ Current \in Threads /\ todo[Current] \in Seq(Operation)
         /\ QueueOK(Current, todo[Current])
         /\ Current = "main" => \A t \in Threads : t # "main" => todo[t] = <<>>
         /\ todo[Current] # <<>> =>
              /\ Head(todo[Current]) \in Operation /\ Head(todo[Current]) = todo[Current][1]
              /\ Head(todo[Current]) \in OpsOf(todo[Current])
              /\ Home(Current, Head(todo[Current]))
              /\ Tail(todo[Current]) \in Seq(Operation)
  <1>1. stack \in Seq(Threads) /\ Len(stack) \in Nat /\ Len(stack) >= 1
    BY TailElements DEF StackOK
  <1>2. Current = stack[Len(stack)] /\ Current \in Threads
    BY <1>1, ElementOfSeq DEF Current
  <1>3. todo[Current] \in Seq(Operation) /\ QueueOK(Current, todo[Current])
    BY <1>2 DEF TodoOK
  <1>4. ASSUME Current = "main", NEW t \in Threads, t # "main" PROVE todo[t] = <<>>
    <2>1. \A i \in 1 .. Len(stack) : stack[i] = "main" => i = 1
      BY DEF StackOK
    <2>2. Len(stack) \in 1 .. Len(stack)
      BY <1>1
    <2>3. Len(stack) = 1
      BY <1>2, <1>4, <2>1, <2>2
    <2>4. todo[t] # <<>> => \E i \in 1 .. Len(stack) : stack[i] = t
      BY DEF StackOK
    <2>5. \A i \in 1 .. Len(stack) : stack[i] = "main"
      <3>1. stack[1] = "main"
        BY <1>2, <1>4, <2>3
      <3>2. \A i \in 1 .. Len(stack) : i = 1
        BY <2>3
      <3> QED
        BY <3>1, <3>2
    <2> QED
      BY <1>4, <2>4, <2>5
  <1>5. ASSUME todo[Current] # <<>>
        PROVE  /\ Head(todo[Current]) \in Operation /\ Head(todo[Current]) = todo[Current][1]
               /\ Head(todo[Current]) \in OpsOf(todo[Current])
               /\ Home(Current, Head(todo[Current]))
               /\ Tail(todo[Current]) \in Seq(Operation)
    <2> DEFINE q == todo[Current]
    <2>1. q \in Seq(Operation) /\ q # <<>>
      BY <1>3, <1>5
    <2> HIDE DEF q
    <2>2. Head(q) \in Operation /\ Head(q) = q[1] /\ Tail(q) \in Seq(Operation)
      BY <2>1, TailElements
    <2>3. Head(q) \in OpsOf(q)
      BY <2>1, <2>2, TailElements DEF OpsOf
    <2> QED
      BY <1>3, <2>2, <2>3 DEF QueueOK, q
  <1> QED
    BY <1>1, <1>2, <1>3, <1>4, <1>5

-----------------------------------------------------------------------------
(* The steps of the running thread.                                        *)

\* ops take the place of the operation that is done: what is then pending.
LEMMA DoQueues ==
  ASSUME StackOK, TodoOK, stack # <<>>, todo[Current] # <<>>,
         NEW ops \in Seq(Operation),
         todo' = [todo EXCEPT ![Current] = ops \o Tail(@)], UNCHANGED stack
  PROVE  /\ StackOK'
         /\ todo' \in [Threads -> Seq(Operation)]
         /\ todo'[Current] = ops \o Tail(todo[Current])
         /\ \A t \in Threads : t # Current => todo'[t] = todo[t]
         /\ \A t \in Threads, op \in Operation :
              op \in OpsOf(todo[t]) /\ op # Head(todo[Current]) => op \in OpsOf(todo'[t])
         /\ Head(todo[Current]) \notin Trip /\ Watched(ops)
              /\ (\A t \in Threads : Watched(todo[t]))
              => \A t \in Threads : Watched(todo'[t])
  <1> DEFINE c == Current
             q == todo[c]
             r == ops \o Tail(q)
  <1>1. /\ c \in Threads /\ q \in Seq(Operation) /\ q # <<>> /\ Len(stack) >= 1
        /\ c = stack[Len(stack)] /\ Len(stack) \in Nat
    BY Running
  <1>2. todo \in [Threads -> Seq(Operation)]
    BY DEF TodoOK
  <1> HIDE DEF c, q
  <1>3. r \in Seq(Operation) /\ \A op \in OpsOf(q) : op # Head(q) => op \in OpsOf(r)
    BY <1>1, ReplacedOps
  <1> HIDE DEF r
  <1>4. todo' = [todo EXCEPT ![c] = r]
    BY DEF c, q, r
  <1>5. /\ todo' \in [Threads -> Seq(Operation)] /\ todo'[c] = r
        /\ \A t \in Threads : t # c => todo'[t] = todo[t]
    BY <1>1, <1>2, <1>3, <1>4
  <1>6. StackOK'
    <2>1. ASSUME NEW t \in Threads, todo'[t] # <<>>
          PROVE  \E i \in 1 .. Len(stack) : stack[i] = t
      <3>1. CASE t = c
        <4>1. Len(stack) \in 1 .. Len(stack)
          BY <1>1
        <4> QED
          BY <1>1, <3>1, <4>1
      <3>2. CASE t # c
        BY <1>5, <2>1, <3>2 DEF StackOK
      <3> QED
        BY <3>1, <3>2
    <2> QED
      BY <2>1 DEF StackOK
  <1>7. ASSUME NEW t \in Threads, NEW op \in OpsOf(todo[t]), op # Head(q)
        PROVE  op \in OpsOf(todo'[t])
    BY <1>3, <1>5, <1>7 DEF q
  <1>8. ASSUME Head(q) \notin Trip, Watched(ops), \A t \in Threads : Watched(todo[t])
        PROVE  \A t \in Threads : Watched(todo'[t])
    <2>1. Watched(Tail(q)) /\ Tail(q) \in Seq(Operation)
      BY <1>1, <1>8, TailBefore, TailElements DEF Watched, q
    <2>2. Watched(r)
      BY <1>8, <2>1, JoinBefore DEF Watched, r
    <2> QED
      BY <1>5, <1>8, <2>2
  <1> QED
    BY <1>5, <1>6, <1>7, <1>8 DEF c, q, r

\* A condition or a call is done, and the state, the relay and the outputs stay.
LEMMA BranchStep ==
  ASSUME StackOK, TodoOK, RelayOK, GatesOK, stack # <<>>, todo[Current] # <<>>,
         Branching(Head(todo[Current])),
         NEW ops \in Seq(Operation),
         todo' = [todo EXCEPT ![Current] = ops \o Tail(@)],
         UNCHANGED <<stack, state, nextState, waitFresh, relay, gates>>,
         \A op \in OpsOf(ops) : Home(Current, op),
         Ordered(Current, ops \o Tail(todo[Current])),
         gates /\ state \in {"CHARGING_START", "CHARGING"} /\ Watched(todo[Current])
           => Watched(ops)
  PROVE  StackOK' /\ TodoOK' /\ RelayOK' /\ GatesOK'
  <1> DEFINE c == Current
             q == todo[c]
             r == ops \o Tail(q)
  <1>1. c \in Threads /\ q \in Seq(Operation) /\ q # <<>> /\ QueueOK(c, q)
    BY Running
  <1>2. /\ StackOK' /\ todo' \in [Threads -> Seq(Operation)] /\ todo'[c] = r
        /\ \A t \in Threads : t # c => todo'[t] = todo[t]
        /\ \A t \in Threads, op \in Operation :
             op \in OpsOf(todo[t]) /\ op # Head(q) => op \in OpsOf(todo'[t])
        /\ Head(q) \notin Trip /\ Watched(ops) /\ (\A t \in Threads : Watched(todo[t]))
             => \A t \in Threads : Watched(todo'[t])
    BY DoQueues
  <1>3. Branching(Head(q)) /\ \A op \in OpsOf(ops) : Home(c, op)
    OBVIOUS
  <1>4. Ordered(c, r)
    OBVIOUS
  <1>5. gates /\ state \in {"CHARGING_START", "CHARGING"} /\ Watched(q) => Watched(ops)
    OBVIOUS
  <1> HIDE DEF c, q, r
  <1>6. QueueOK(c, r)
    <2>1. OpsOf(r) \subseteq OpsOf(ops) \union OpsOf(q)
      BY <1>1, ReplacedOps DEF r
    <2> QED
      BY <1>1, <1>3, <1>4, <2>1 DEF QueueOK
  <1>7. TodoOK'
    <2>1. ASSUME NEW t \in Threads, NEW u, u = todo'[t] PROVE QueueOK(t, u)'
      <3>1. QueueOK(t, u)
        BY <1>1, <1>2, <1>6, <2>1 DEF TodoOK
      <3> QED
        BY <3>1, SameSituation
    <2> QED
      BY <1>2, <2>1 DEF TodoOK
  <1>8. /\ Head(q) # <<"goTo", "WAIT">> /\ Head(q) # ToCharging /\ Head(q) \notin Trip
    <2>1. /\ <<"goTo", "WAIT">>[1] = "goTo" /\ ToCharging[1] = "goTo"
          /\ <<"forceTrip", "">>[1] = "forceTrip"
      BY DEF ToCharging
    <2>2. Head(q)[1] \notin {"goTo", "forceTrip"}
      BY <1>3 DEF Branching
    <2> QED
      BY <2>1, <2>2 DEF Trip
  <1>9. <<"goTo", "WAIT">> \in Operation /\ ToCharging \in Operation
    BY Pairs DEF Names, Arguments, States, ToCharging
  <1>10. RelayOK'
    <2>1. <<"goTo", "WAIT">> \in OpsOf(todo["pwm"]) => <<"goTo", "WAIT">> \in OpsOf(todo'["pwm"])
      BY <1>2, <1>8, <1>9 DEF Threads
    <2> QED
      BY <2>1 DEF RelayOK
  <1>11. GatesOK'
    <2>1. ToCharging \in OpsOf(todo["main"]) => ToCharging \in OpsOf(todo'["main"])
      BY <1>2, <1>8, <1>9 DEF Threads
    <2>2. Watched(q) <=> Watched(todo[c])
      BY DEF q
    <2> QED
      BY <1>1, <1>2, <1>5, <1>8, <2>1, <2>2 DEF GatesOK
  <1> QED
    BY <1>2, <1>7, <1>10, <1>11

\* An operation is done and nothing takes its place.
LEMMA Done ==
  ASSUME StackOK, TodoOK, stack # <<>>, todo[Current] # <<>>, UNCHANGED stack,
         \/ todo' = [todo EXCEPT ![Current] = <<>> \o Tail(@)]
         \/ todo' = [todo EXCEPT ![Current] = Tail(@)]
  PROVE  /\ StackOK'
         /\ todo' \in [Threads -> Seq(Operation)]
         /\ todo'[Current] = Tail(todo[Current])
         /\ \A t \in Threads : t # Current => todo'[t] = todo[t]
         /\ \A t \in Threads, op \in Operation :
              op \in OpsOf(todo[t]) /\ op # Head(todo[Current]) => op \in OpsOf(todo'[t])
         /\ Head(todo[Current]) \notin Trip /\ (\A t \in Threads : Watched(todo[t]))
              => \A t \in Threads : Watched(todo'[t])
  <1> DEFINE q == todo[Current]
  <1>1. Current \in Threads /\ Tail(q) \in Seq(Operation)
    BY Running
  <1>2. <<>> \in Seq(Operation) /\ Len(<<>>) = 0
    BY EmptySeq
  <1>3. <<>> \o Tail(q) = Tail(q)
    BY <1>1, ConcatEmptySeq
  <1>4. todo' = [todo EXCEPT ![Current] = <<>> \o Tail(@)]
    BY <1>3
  <1>5. Watched(<<>>)
    BY <1>2 DEF Watched, Before
  <1> QED
    BY <1>2, <1>3, <1>4, <1>5, DoQueues

\* The state, its successor and the relay stay; nothing else depends on the operation.
LEMMA QuietStep ==
  ASSUME StackOK, TodoOK, RelayOK, GatesOK, stack # <<>>, todo[Current] # <<>>,
         Head(todo[Current])[1] \notin {"goTo", "setNext", "relay"},
         \/ todo' = [todo EXCEPT ![Current] = <<>> \o Tail(@)]
         \/ todo' = [todo EXCEPT ![Current] = Tail(@)],
         UNCHANGED <<stack, state, nextState, waitFresh, relay>>,
         \/ gates' = gates /\ Head(todo[Current])[1] # "forceTrip"
         \/ gates' = FALSE
         \/ Head(todo[Current])[1] = "clearTrip"
  PROVE  StackOK' /\ TodoOK' /\ RelayOK' /\ GatesOK'
  <1> DEFINE c == Current
             q == todo[c]
             r == Tail(q)
  <1>1. /\ c \in Threads /\ q \in Seq(Operation) /\ q # <<>> /\ QueueOK(c, q)
        /\ Head(q) \in Operation /\ Head(q) = q[1] /\ Home(c, Head(q)) /\ r \in Seq(Operation)
        /\ Head(q) \in OpsOf(q)
    BY Running
  <1>2. /\ StackOK' /\ todo' \in [Threads -> Seq(Operation)] /\ todo'[c] = r
        /\ \A t \in Threads : t # c => todo'[t] = todo[t]
        /\ \A t \in Threads, op \in Operation :
             op \in OpsOf(todo[t]) /\ op # Head(q) => op \in OpsOf(todo'[t])
        /\ Head(q) \notin Trip /\ (\A t \in Threads : Watched(todo[t]))
             => \A t \in Threads : Watched(todo'[t])
    BY Done
  <1>3. /\ Head(q)[1] \notin {"goTo", "setNext", "relay"}
        /\ \/ gates' = gates /\ Head(q)[1] # "forceTrip"
           \/ gates' = FALSE
           \/ Head(q)[1] = "clearTrip"
    OBVIOUS
  <1> HIDE DEF c, q, r
  <1>4. /\ Head(q) \notin SetNexts
        /\ Head(q) # <<"relay", "off">> /\ Head(q) # <<"relay", "on">>
        /\ Head(q) # <<"goTo", "WAIT">> /\ Head(q) # ToCharging
        /\ Head(q)[1] # "forceTrip" => Head(q) \notin Trip
    BY <1>3, NamesOf
  <1>5. QueueOK(c, r)
    <2>1. Ordered(c, q) /\ \A op \in OpsOf(q) : Home(c, op)
      BY <1>1 DEF QueueOK
    <2>2. /\ Told(r) /\ ~Begins(r, ToWait)
          /\ Before(r, {<<"setNext", "STANDBY">>}, {<<"relay", "off">>}) \/ ~relay
          /\ Before(r, {<<"setNext", "READY">>}, {<<"relay", "on">>}) \/ relay
          /\ Follows(r, {<<"relay", "on">>}, ToWait)
          /\ Follows(r, Switches, {ToCharging})
          /\ \A op \in OpsOf(r) : ~Alone(op)
          /\ \A i \in 2 .. Len(r) : ~Bound(r[i])
          /\ ToCharging \in OpsOf(q) => \A op \in OpsOf(r) : ~Leaving(op) /\ op[1] # "call"
          /\ OpsOf(r) \subseteq OpsOf(q)
      BY <1>1, <1>4, <2>1, TailOrdered DEF r
    <2> QED
      BY <2>1, <2>2 DEF QueueOK, Ordered
  <1>6. TodoOK'
    <2>1. ASSUME NEW t \in Threads, NEW u, u = todo'[t] PROVE QueueOK(t, u)'
      <3>1. QueueOK(t, u)
        BY <1>1, <1>2, <1>5, <2>1 DEF TodoOK
      <3> QED
        BY <3>1, SameSituation
    <2> QED
      BY <1>2, <2>1 DEF TodoOK
  <1>7. <<"goTo", "WAIT">> \in Operation /\ ToCharging \in Operation
    BY Pairs DEF Names, Arguments, States, ToCharging
  <1>8. RelayOK'
    <2>1. <<"goTo", "WAIT">> \in OpsOf(todo["pwm"]) => <<"goTo", "WAIT">> \in OpsOf(todo'["pwm"])
      BY <1>2, <1>4, <1>7 DEF Threads
    <2> QED
      BY <2>1 DEF RelayOK
  <1>9. ToCharging \in OpsOf(todo["main"]) => ToCharging \in OpsOf(todo'["main"])
    BY <1>2, <1>4, <1>7 DEF Threads
  <1>10. GatesOK'
    <2>1. CASE gates' = FALSE
      BY <2>1 DEF GatesOK
    <2>2. CASE gates' = gates /\ Head(q)[1] # "forceTrip"
      BY <1>2, <1>4, <1>9, <2>2 DEF GatesOK
    <2>3. CASE Head(q)[1] = "clearTrip"
      <3>1. c = "main"
        BY <1>1, <2>3 DEF Home, OfMain
      <3>2. q[1] \in Switches
        <4>1. Head(q)[2] = ""
          BY <1>1, <2>3 DEF Home, Typed
        <4>2. Head(q) = <<Head(q)[1], Head(q)[2]>>
          BY <1>1 DEF Operation
        <4> QED
          BY <1>1, <2>3, <4>1, <4>2 DEF Switches
      <3>3. 1 \in 1 .. Len(q)
        BY <1>1, TailElements
      <3>4. PICK j \in 2 .. Len(q) : q[j] = ToCharging
        BY <1>1, <3>2, <3>3 DEF QueueOK, Ordered, Follows
      <3>5. ToCharging \in OpsOf(q)
        BY <1>1, <3>4, TailElements DEF OpsOf
      <3> QED
        BY <1>9, <3>1, <3>5 DEF GatesOK, q
    <2> QED
      BY <1>3, <2>1, <2>2, <2>3
  <1> QED
    BY <1>2, <1>6, <1>8, <1>10

\* A change of the state leaves the other threads in their homes.
LEMMA GoToKeeps ==
  ASSUME VarsOK, NEW c \in Threads, NEW a \in States, Home(c, <<"goTo", a>>),
         a = "WAIT" => WaitSet(c),
         state' = a, UNCHANGED <<nextState, waitFresh, relay>>,
         NEW t \in Threads, NEW u, QueueOK(t, u),
         t = c => (\A op \in OpsOf(u) : ~Bound(op)) /\ ~Begins(u, ToWait),
         c = "main" /\ t # c => u = <<>>
  PROVE  QueueOK(t, u)'
  <1> DEFINE h == <<"goTo", a>>
  <1>1. /\ h[1] = "goTo" /\ h[2] = a /\ Home(c, h)
    OBVIOUS
  <1>2. a \in {"STARTUP", "CHARGING_START"} => c = "main"
    BY DEF Home, OfMain
  <1>3. a = "CHARGING" => c = "pwm" /\ Live
    BY <1>1 DEF Home, OfPwm, OfRun
  <1>4. a \in {"STANDBY", "READY", "SHUTDOWN"} =>
          c = "pwm" /\ state = "WAIT" /\ ~waitFresh /\ nextState = a
    BY <1>1 DEF Home, OfPwm, OfExpiry
  <1>5. a = "STARTUP" => state = "STANDBY"
    BY DEF Home
  <1>6. a = "CHARGING_START" => Live
    BY <1>1 DEF Home, OfRun
  <1> HIDE DEF h
  <1>7. Ordered(t, u) /\ \A op \in OpsOf(u) : Home(t, op)
    BY DEF QueueOK
  <1>8. c # "main" \/ t = c \/ QueueOK(t, u)'
    BY EmptyOK
  <1>9. ASSUME c # "main" \/ t = c, NEW op \in OpsOf(u) PROVE Home(t, op)'
    <2>1. Home(t, op) /\ (t = c => ~Bound(op))
      BY <1>7, <1>9
    <2>2. OfRun(op) => Live'
      <3>1. CASE a \in {"STARTUP", "CHARGING_START", "CHARGING"}
        BY <3>1 DEF Live
      <3>2. CASE a = "WAIT"
        BY <2>1, <3>2 DEF Live, WaitSet, Grounded, Home
      <3>3. CASE a \in {"STANDBY", "READY", "SHUTDOWN"}
        BY <1>4, <2>1, <3>3 DEF Live, Home
      <3> QED
        BY <3>1, <3>2, <3>3 DEF States
    <2>3. Bound(op) => state' = state \/ (op[1] = "ifExpired" /\ a = "WAIT")
      <3> SUFFICES ASSUME Bound(op) PROVE state' = state \/ (op[1] = "ifExpired" /\ a = "WAIT")
        OBVIOUS
      <3>1. t # c /\ c # "main"
        BY <1>9, <2>1
      <3>2. \/ t = "main" /\ state = "STANDBY"
            \/ t = "pwm" /\ state = "SHUTDOWN"
            \/ t = "pwm" /\ state = "WAIT"
        BY <2>1, <3>1 DEF Bound, Home, OfMain, OfPwm, Grounded, OfExpiry
      <3>3. CASE a = "WAIT"
        BY <2>1, <3>1, <3>2, <3>3 DEF WaitSet, Live, Grounded, Home, Bound, OfExpiry
      <3>4. CASE a \in {"STANDBY", "READY", "SHUTDOWN", "CHARGING"}
        BY <1>3, <1>4, <3>1, <3>2, <3>4 DEF Live
      <3> QED
        BY <1>2, <3>1, <3>3, <3>4 DEF States
    <2>4. ~Bound(op) => Home(t, op)'
      BY <2>1, <2>2 DEF Home, Bound, OfExpiry
    <2>5. Bound(op) => Home(t, op)'
      <3> SUFFICES ASSUME Bound(op) PROVE Home(t, op)'
        OBVIOUS
      <3>1. CASE state' = state
        BY <2>1, <2>2, <3>1 DEF Home, Grounded
      <3>2. CASE op[1] = "ifExpired" /\ a = "WAIT"
        BY <2>1, <2>2, <3>2 DEF Home, OfExpiry
      <3> QED
        BY <2>3, <3>1, <3>2
    <2> QED
      BY <2>4, <2>5
  <1>10. ASSUME c # "main" \/ t = c, Begins(u, ToWait) PROVE WaitSet(t)'
    <2>1. WaitSet(t) /\ t # c /\ c # "main"
      BY <1>7, <1>10 DEF Ordered
    <2>2. CASE a = "WAIT"
      BY <2>1, <2>2 DEF WaitSet, Live, Grounded
    <2>3. CASE a = "CHARGING"
      BY <1>3, <2>1, <2>3 DEF WaitSet, Live, Grounded
    <2>4. CASE a \in {"STANDBY", "READY", "SHUTDOWN"}
      BY <1>4, <2>1, <2>4 DEF WaitSet, Live, Grounded
    <2> QED
      BY <1>2, <2>1, <2>2, <2>3, <2>4 DEF States
  <1>11. ASSUME c # "main" \/ t = c PROVE QueueOK(t, u)'
    <2>1. \A op \in OpsOf(u) : Home(t, op)'
      BY <1>9, <1>11
    <2>2. Begins(u, ToWait) => WaitSet(t)'
      BY <1>10, <1>11
    <2>3. relay' = relay
      OBVIOUS
    <2> QED
      BY <1>7, <2>1, <2>2, <2>3 DEF QueueOK, Ordered
  <1> QED
    BY <1>8, <1>11

\* So does telling WAIT where it leads to; the thread that does it may then go there.
LEMMA SetNextKeeps ==
  ASSUME VarsOK, NEW c \in Threads, NEW s \in {"STANDBY", "READY", "SHUTDOWN"},
         Home(c, <<"setNext", s>>), s = "READY" => relay, s = "STANDBY" => ~relay,
         nextState' = s, waitFresh' = TRUE, UNCHANGED <<state, relay>>,
         NEW t \in Threads, NEW u, \A op \in OpsOf(u) : Home(t, op),
         Begins(u, ToWait) => t = c \/ WaitSet(t)
  PROVE  /\ \A op \in OpsOf(u) : Home(t, op)'
         /\ Begins(u, ToWait) => WaitSet(t)'
         /\ WaitSet(c)'
  <1> DEFINE h == <<"setNext", s>>
  <1>1. /\ h[1] = "setNext" /\ h[2] = s /\ Home(c, h)
        /\ s = "STANDBY" => h = <<"setNext", "STANDBY">>
    OBVIOUS
  <1>2. s \in {"READY", "SHUTDOWN"} => Live
    BY <1>1 DEF Home, OfRun
  <1>3. s = "STANDBY" => Grounded(c)
    BY <1>1 DEF Home
  <1> HIDE DEF h
  <1>4. ASSUME NEW op \in OpsOf(u) PROVE Home(t, op)'
    <2>1. Home(t, op)
      OBVIOUS
    <2>2. OfRun(op) => Live'
      BY <1>2, <1>3, <2>1 DEF Home, Live, Grounded
    <2>3. ~OfExpiry(op)
      BY <1>2, <1>3, <2>1 DEF Home, Live, Grounded
    <2> QED
      BY <2>1, <2>2, <2>3 DEF Home, Grounded
  <1>5. WaitSet(c)'
    BY <1>2, <1>3 DEF WaitSet, Live, Grounded
  <1>6. WaitSet(t) => WaitSet(t)'
    BY <1>2, <1>3 DEF WaitSet, Live, Grounded
  <1> QED
    BY <1>4, <1>5, <1>6

\* The relay is switched under the eyes of nobody who relies on it.
LEMMA RelayKeeps ==
  ASSUME VarsOK, NEW v \in {"on", "off"}, Home("pwm", <<"relay", v>>),
         relay' = (v = "on"), UNCHANGED <<state, nextState, waitFresh>>,
         NEW t \in Threads, NEW u, \A op \in OpsOf(u) : Home(t, op),
         Begins(u, ToWait) => WaitSet(t)
  PROVE  /\ \A op \in OpsOf(u) : Home(t, op)'
         /\ Begins(u, ToWait) => WaitSet(t)'
         /\ Before(u, {<<"setNext", "STANDBY">>}, {<<"relay", "off">>}) \/ ~relay'
         /\ Before(u, {<<"setNext", "READY">>}, {<<"relay", "on">>}) \/ relay'
  <1>1. v = "on" => Live
    BY DEF Home, OfRun
  <1>2. v = "off" => state = "SHUTDOWN"
    BY DEF Home
  <1>3. ASSUME NEW op \in OpsOf(u) PROVE Home(t, op)'
    <2>1. Home(t, op)
      OBVIOUS
    <2>2. OfCharge(op) => OfRun(op)
      BY DEF OfCharge, OfRun
    <2>3. OfCharge(op) => relay'
      BY <1>2, <2>1, <2>2 DEF Home, Live
    <2>4. Live' <=> Live
      BY DEF Live
    <2> QED
      BY <2>1, <2>3, <2>4 DEF Home, Grounded
  <1>4. WaitSet(t) => WaitSet(t)'
    BY <1>1, <1>2 DEF WaitSet, Live, Grounded
  <1>5. Before(u, {<<"setNext", "STANDBY">>}, {<<"relay", "off">>}) \/ ~relay'
    <2>1. ASSUME v = "on", NEW i \in 1 .. Len(u), u[i] = <<"setNext", "STANDBY">> PROVE FALSE
      <3>1. Home(t, <<"setNext", "STANDBY">>)
        BY <2>1 DEF OpsOf
      <3> QED
        BY <1>1, <2>1, <3>1 DEF Home, Grounded, Live
    <2> QED
      BY <2>1 DEF Before
  <1>6. Before(u, {<<"setNext", "READY">>}, {<<"relay", "on">>}) \/ relay'
    <2>1. ASSUME v = "off", NEW i \in 1 .. Len(u), u[i] = <<"setNext", "READY">> PROVE FALSE
      <3>1. Home(t, <<"setNext", "READY">>)
        BY <2>1 DEF OpsOf
      <3> QED
        BY <1>2, <2>1, <3>1 DEF Home, OfRun, Live
    <2> QED
      BY <2>1 DEF Before
  <1> QED
    BY <1>3, <1>4, <1>5, <1>6

\* The running thread and the operation it does, of a given name.
LEMMA Reached ==
  ASSUME StackOK, TodoOK, NEW name, Op(name)
  PROVE  /\ stack # <<>> /\ todo[Current] # <<>> /\ Current \in Threads
         /\ Arg = Head(todo[Current])[2]
         /\ Head(todo[Current]) = <<name, Arg>> /\ Head(todo[Current])[1] = name
         /\ Home(Current, <<name, Arg>>)
         /\ Current = "main" => \A t \in Threads : t # "main" => todo[t] = <<>>
  <1>1. /\ stack # <<>> /\ todo[Current] # <<>> /\ Head(todo[Current])[1] = name
        /\ Arg = Head(todo[Current])[2]
    BY DEF Op, Arg
  <1>2. /\ Current \in Threads /\ Head(todo[Current]) \in Operation
        /\ Home(Current, Head(todo[Current]))
        /\ Current = "main" => \A t \in Threads : t # "main" => todo[t] = <<>>
    BY <1>1, Running
  <1>3. \A op \in Operation : op = <<op[1], op[2]>>
    BY DEF Operation
  <1>4. Head(todo[Current]) = <<name, Arg>>
    BY <1>1, <1>2, <1>3
  <1> QED
    BY <1>1, <1>2, <1>4

\* Going to a state: the invariant says where op is pending, so nothing is left behind.
LEMMA GoToStep ==
  ASSUME VarsOK, StackOK, TodoOK, RelayOK, GatesOK, GoTo
  PROVE  StackOK' /\ TodoOK' /\ RelayOK' /\ GatesOK'
  <1> DEFINE c == Current
             q == todo[c]
             r == Tail(q)
             a == Arg
  <1>1. /\ stack # <<>> /\ q # <<>> /\ c \in Threads /\ Head(q) = <<"goTo", a>>
        /\ Head(q)[1] = "goTo" /\ Home(c, <<"goTo", a>>)
        /\ c = "main" => \A t \in Threads : t # "main" => todo[t] = <<>>
    BY Reached DEF GoTo
  <1>2. /\ todo' = [todo EXCEPT ![c] = <<>> \o Tail(@)] /\ UNCHANGED stack
        /\ state' = a /\ UNCHANGED <<nextState, waitFresh, relay, gates>>
    BY DEF GoTo, Do, plant
  <1>3. q \in Seq(Operation) /\ QueueOK(c, q) /\ Head(q) = q[1] /\ Head(q) \in OpsOf(q)
    BY <1>1, Running
  <1>4. /\ StackOK' /\ todo' \in [Threads -> Seq(Operation)] /\ todo'[c] = r
        /\ \A t \in Threads : t # c => todo'[t] = todo[t]
        /\ \A t \in Threads, op \in Operation :
             op \in OpsOf(todo[t]) /\ op # Head(q) => op \in OpsOf(todo'[t])
        /\ Head(q) \notin Trip /\ (\A t \in Threads : Watched(todo[t]))
             => \A t \in Threads : Watched(todo'[t])
    BY <1>1, <1>2, Done
  <1> HIDE DEF c, q, r, a
  <1>5. a \in States
    <2>1. <<"goTo", a>>[1] = "goTo" /\ <<"goTo", a>>[2] = a
      OBVIOUS
    <2> QED
      BY <1>1, <2>1 DEF Home, Typed
  <1>6. Len(q) \in Nat /\ Len(q) >= 1
    BY <1>1, <1>3, TailElements
  <1>7. a = "WAIT" => WaitSet(c)
    <2>1. a = "WAIT" => Begins(q, ToWait)
      BY <1>1, <1>3, <1>6 DEF Begins, ToWait
    <2> QED
      BY <1>3, <2>1 DEF QueueOK, Ordered
  <1>8. Head(q) \notin SetNexts /\ Head(q) # <<"relay", "off">> /\ Head(q) # <<"relay", "on">>
        /\ Head(q) \notin Trip
    BY <1>1, NamesOf
  <1>9. q \notin BoundRoutines
    <2>1. /\ <<"signal", "start">>[1] = "signal" /\ <<"relay", "off">>[1] = "relay"
          /\ <<"resetErrors", "">>[1] = "resetErrors"
      OBVIOUS
    <2> QED
      BY <1>1, <2>1, BoundRoutinesBegin
  <1>10. Ordered(c, q) /\ \A op \in OpsOf(q) : Home(c, op)
    BY <1>3 DEF QueueOK
  <1>11. /\ Told(r) /\ ~Begins(r, ToWait)
         /\ Before(r, {<<"setNext", "STANDBY">>}, {<<"relay", "off">>}) \/ ~relay
         /\ Before(r, {<<"setNext", "READY">>}, {<<"relay", "on">>}) \/ relay
         /\ Follows(r, {<<"relay", "on">>}, ToWait)
         /\ Follows(r, Switches, {ToCharging})
         /\ \A op \in OpsOf(r) : ~Alone(op)
         /\ \A i \in 2 .. Len(r) : ~Bound(r[i])
         /\ \A op \in OpsOf(r) : ~Bound(op)
         /\ ToCharging \in OpsOf(q) => \A op \in OpsOf(r) : ~Leaving(op) /\ op[1] # "call"
         /\ OpsOf(r) \subseteq OpsOf(q)
    BY <1>1, <1>3, <1>8, <1>9, <1>10, TailOrdered DEF r
  <1>12. QueueOK(c, r)
    BY <1>10, <1>11 DEF QueueOK, Ordered
  <1>13. TodoOK'
    <2>1. ASSUME NEW t \in Threads, NEW u, u = todo'[t] PROVE QueueOK(t, u)'
      <3>1. CASE t = c
        <4>1. u = r
          BY <1>4, <2>1, <3>1
        <4> QED
          BY <1>1, <1>2, <1>5, <1>7, <1>11, <1>12, <3>1, <4>1, GoToKeeps
      <3>2. CASE t # c
        <4>1. u = todo[t] /\ QueueOK(t, u)
          BY <1>4, <2>1, <3>2 DEF TodoOK
        <4>2. c = "main" => u = <<>>
          BY <1>1, <3>2, <4>1
        <4> QED
          BY <1>1, <1>2, <1>5, <1>7, <3>2, <4>1, <4>2, GoToKeeps
      <3> QED
        BY <3>1, <3>2
    <2> QED
      BY <1>4, <2>1 DEF TodoOK
  <1>14. <<"goTo", "WAIT">> \in Operation /\ ToCharging \in Operation
    BY Pairs DEF Names, Arguments, States, ToCharging
  <1>15. <<"goTo", a>>[1] = "goTo" /\ <<"goTo", a>>[2] = a
    OBVIOUS
  <1>16. RelayOK'
    <2>1. CASE a = "WAIT"
      BY <1>2, <1>7, <2>1 DEF RelayOK, WaitSet
    <2>2. CASE a = "STARTUP"
      <3>1. state = "STANDBY"
        BY <1>1, <2>2 DEF Home
      <3> QED
        BY <1>2, <2>2, <3>1 DEF RelayOK
    <2>3. CASE a \in {"CHARGING_START", "CHARGING"}
      <3>1. relay
        BY <1>1, <1>15, <2>3 DEF Home, OfCharge
      <3> QED
        BY <1>2, <2>3, <3>1 DEF RelayOK
    <2>4. CASE a \in {"STANDBY", "READY", "SHUTDOWN"}
      <3>1. state = "WAIT" /\ nextState = a
        BY <1>1, <1>15, <2>4 DEF Home, OfExpiry
      <3> QED
        BY <1>2, <2>4, <3>1 DEF RelayOK
    <2> QED
      BY <1>5, <2>1, <2>2, <2>3, <2>4 DEF States
  <1>17. GatesOK'
    <2>1. CASE ~gates
      BY <1>2, <2>1 DEF GatesOK
    <2>2. CASE a = "CHARGING_START"
      <3>1. c = "main"
        BY <1>1, <2>2 DEF Home, OfMain
      <3>2. ToCharging \in OpsOf(q)
        BY <1>1, <1>3, <2>2 DEF ToCharging
      <3>3. Watched(r)
        BY <1>11, <3>2 DEF Watched, Before, LeavingOps, OpsOf
      <3>4. Watched(<<>>)
        <4>1. Len(<<>>) = 0
          BY EmptySeq
        <4> QED
          BY <4>1 DEF Watched, Before
      <3>5. \A t \in Threads : Watched(todo'[t])
        BY <1>1, <1>4, <3>1, <3>3, <3>4
      <3> QED
        BY <1>2, <2>2, <3>5 DEF GatesOK
    <2>3. CASE gates /\ a # "CHARGING_START" /\ ToCharging \in OpsOf(todo["main"])
      <3>1. ToCharging # Head(q)
        BY <1>1, <2>3 DEF ToCharging
      <3>2. ToCharging \in OpsOf(todo'["main"])
        BY <1>4, <1>14, <2>3, <3>1 DEF Threads
      <3> QED
        BY <3>2 DEF GatesOK
    <2>4. CASE gates /\ ToCharging \notin OpsOf(todo["main"])
      <3>1. \A t \in Threads : Watched(todo[t])
        BY <2>4 DEF GatesOK
      <3>2. Head(q) \notin LeavingOps
        <4>1. Watched(q)
          BY <1>1, <3>1 DEF q
        <4> QED
          BY <1>3, <1>6, <4>1 DEF Watched, Before
      <3>3. a \in {"CHARGING_START", "CHARGING"}
        <4>1. <<"goTo", a>> \in Operation
          BY <1>5, Pairs DEF Names, Arguments
        <4> QED
          BY <1>1, <1>15, <3>2, <4>1 DEF LeavingOps, Leaving
      <3> QED
        BY <1>2, <1>4, <1>8, <3>1, <3>3 DEF GatesOK
    <2> QED
      BY <2>1, <2>2, <2>3, <2>4
  <1> QED
    BY <1>4, <1>13, <1>16, <1>17

\* A step that neither opens the outputs nor goes anywhere keeps them watched.
LEMMA GatesKept ==
  ASSUME GatesOK, UNCHANGED <<state, gates>>,
         ToCharging \in OpsOf(todo["main"]) => ToCharging \in OpsOf(todo'["main"]),
         (\A t \in Threads : Watched(todo[t])) => \A t \in Threads : Watched(todo'[t])
  PROVE  GatesOK'
BY DEF GatesOK

\* Telling WAIT where it leads to, with the relay as that state needs it.
LEMMA SetNextStep ==
  ASSUME VarsOK, StackOK, TodoOK, RelayOK, GatesOK, SetNext
  PROVE  StackOK' /\ TodoOK' /\ RelayOK' /\ GatesOK'
  <1> DEFINE c == Current
             q == todo[c]
             r == Tail(q)
             s == Arg
  <1>1. /\ stack # <<>> /\ q # <<>> /\ c \in Threads /\ Head(q) = <<"setNext", s>>
        /\ Head(q)[1] = "setNext" /\ Home(c, <<"setNext", s>>)
    BY Reached DEF SetNext
  <1>2. /\ todo' = [todo EXCEPT ![c] = <<>> \o Tail(@)] /\ UNCHANGED stack
        /\ nextState' = s /\ waitFresh' = TRUE /\ UNCHANGED <<state, relay, gates>>
    BY DEF SetNext, Do, plant
  <1>3. q \in Seq(Operation) /\ QueueOK(c, q) /\ Head(q) = q[1] /\ Head(q) \in OpsOf(q)
    BY <1>1, Running
  <1>4. /\ StackOK' /\ todo' \in [Threads -> Seq(Operation)] /\ todo'[c] = r
        /\ \A t \in Threads : t # c => todo'[t] = todo[t]
        /\ \A t \in Threads, op \in Operation :
             op \in OpsOf(todo[t]) /\ op # Head(q) => op \in OpsOf(todo'[t])
        /\ Head(q) \notin Trip /\ (\A t \in Threads : Watched(todo[t]))
             => \A t \in Threads : Watched(todo'[t])
    BY <1>1, <1>2, Done
  <1> HIDE DEF c, q, r, s
  <1>5. s \in {"STANDBY", "READY", "SHUTDOWN"}
    <2>1. <<"setNext", s>>[1] = "setNext" /\ <<"setNext", s>>[2] = s
      OBVIOUS
    <2> QED
      BY <1>1, <2>1 DEF Home, Typed
  <1>6. /\ Head(q) # <<"relay", "off">> /\ Head(q) # <<"relay", "on">> /\ Head(q) \notin Trip
        /\ Head(q) # <<"goTo", "WAIT">> /\ Head(q) # ToCharging
    BY <1>1, NamesOf
  <1>7. Ordered(c, q) /\ \A op \in OpsOf(q) : Home(c, op)
    BY <1>3 DEF QueueOK
  <1>8. 1 \in 1 .. Len(q)
    BY <1>1, <1>3, TailElements
  <1>9. s = "READY" => relay
    BY <1>1, <1>3, <1>7, <1>8 DEF Ordered, Before
  <1>10. s = "STANDBY" => ~relay
    BY <1>1, <1>3, <1>7, <1>8 DEF Ordered, Before
  <1>11. /\ Told(r)
         /\ Before(r, {<<"setNext", "STANDBY">>}, {<<"relay", "off">>}) \/ ~relay
         /\ Before(r, {<<"setNext", "READY">>}, {<<"relay", "on">>}) \/ relay
         /\ Follows(r, {<<"relay", "on">>}, ToWait)
         /\ Follows(r, Switches, {ToCharging})
         /\ \A op \in OpsOf(r) : ~Alone(op)
         /\ \A i \in 2 .. Len(r) : ~Bound(r[i])
         /\ ToCharging \in OpsOf(q) => \A op \in OpsOf(r) : ~Leaving(op) /\ op[1] # "call"
         /\ OpsOf(r) \subseteq OpsOf(q)
    BY <1>1, <1>3, <1>6, <1>7, TailOrdered DEF r
  <1>12. TodoOK'
    <2>1. ASSUME NEW t \in Threads, NEW u, u = todo'[t] PROVE QueueOK(t, u)'
      <3>1. CASE t = c
        <4>1. u = r
          BY <1>4, <2>1, <3>1
        <4>2. \A op \in OpsOf(u) : Home(t, op)
          BY <1>7, <1>11, <3>1, <4>1
        <4>3. (\A op \in OpsOf(u) : Home(t, op)') /\ WaitSet(t)'
          BY <1>1, <1>2, <1>5, <1>9, <1>10, <3>1, <4>2, SetNextKeeps
        <4> QED
          BY <1>2, <1>11, <4>1, <4>3 DEF QueueOK, Ordered
      <3>2. CASE t # c
        <4>1. QueueOK(t, u)
          BY <1>4, <2>1, <3>2 DEF TodoOK
        <4>2. Ordered(t, u) /\ \A op \in OpsOf(u) : Home(t, op)
          BY <4>1 DEF QueueOK
        <4>3. Begins(u, ToWait) => WaitSet(t)
          BY <4>2 DEF Ordered
        <4>4. (\A op \in OpsOf(u) : Home(t, op)') /\ (Begins(u, ToWait) => WaitSet(t)')
          BY <1>1, <1>2, <1>5, <1>9, <1>10, <4>2, <4>3, SetNextKeeps
        <4> QED
          BY <1>2, <4>2, <4>4 DEF QueueOK, Ordered
      <3> QED
        BY <3>1, <3>2
    <2> QED
      BY <1>4, <2>1 DEF TodoOK
  <1>13. <<"goTo", "WAIT">> \in Operation /\ ToCharging \in Operation
    BY Pairs DEF Names, Arguments, States, ToCharging
  <1>14. RelayOK'
    <2>1. <<"goTo", "WAIT">> \in OpsOf(todo["pwm"]) => <<"goTo", "WAIT">> \in OpsOf(todo'["pwm"])
      BY <1>4, <1>6, <1>13 DEF Threads
    <2> QED
      BY <1>2, <1>9, <1>10, <2>1 DEF RelayOK
  <1>15. ToCharging \in OpsOf(todo["main"]) => ToCharging \in OpsOf(todo'["main"])
    BY <1>4, <1>6, <1>13 DEF Threads
  <1>16. GatesOK'
    BY <1>2, <1>4, <1>6, <1>15, GatesKept
  <1> QED
    BY <1>4, <1>12, <1>14, <1>16

\* The relay is closed under way to READY and opened under way to STANDBY.
LEMMA RelayStep ==
  ASSUME VarsOK, StackOK, TodoOK, RelayOK, GatesOK, Relay
  PROVE  StackOK' /\ TodoOK' /\ RelayOK' /\ GatesOK'
  <1> DEFINE c == Current
             q == todo[c]
             r == Tail(q)
             v == Arg
  <1>1. /\ stack # <<>> /\ q # <<>> /\ c \in Threads /\ Head(q) = <<"relay", v>>
        /\ Head(q)[1] = "relay" /\ Home(c, <<"relay", v>>)
    BY Reached DEF Relay
  <1>2. /\ todo' = [todo EXCEPT ![c] = <<>> \o Tail(@)] /\ UNCHANGED stack
        /\ relay' = (v = "on") /\ UNCHANGED <<state, nextState, waitFresh, gates>>
    BY DEF Relay, Do, fsm
  <1>3. q \in Seq(Operation) /\ QueueOK(c, q) /\ Head(q) = q[1] /\ Head(q) \in OpsOf(q)
    BY <1>1, Running
  <1>4. /\ StackOK' /\ todo' \in [Threads -> Seq(Operation)] /\ todo'[c] = r
        /\ \A t \in Threads : t # c => todo'[t] = todo[t]
        /\ \A t \in Threads, op \in Operation :
             op \in OpsOf(todo[t]) /\ op # Head(q) => op \in OpsOf(todo'[t])
        /\ Head(q) \notin Trip /\ (\A t \in Threads : Watched(todo[t]))
             => \A t \in Threads : Watched(todo'[t])
    BY <1>1, <1>2, Done
  <1> HIDE DEF c, q, r, v
  <1>5. v \in {"on", "off"} /\ c = "pwm"
    <2>1. <<"relay", v>>[1] = "relay" /\ <<"relay", v>>[2] = v
      OBVIOUS
    <2> QED
      BY <1>1, <2>1 DEF Home, Typed, OfPwm
  <1>6. /\ Head(q) \notin SetNexts /\ Head(q) \notin Trip
        /\ Head(q) # <<"goTo", "WAIT">> /\ Head(q) # ToCharging
    BY <1>1, NamesOf
  <1>7. Ordered(c, q) /\ \A op \in OpsOf(q) : Home(c, op)
    BY <1>3 DEF QueueOK
  <1>8. /\ Told(r) /\ ~Begins(r, ToWait)
        /\ Follows(r, {<<"relay", "on">>}, ToWait)
        /\ Follows(r, Switches, {ToCharging})
        /\ \A op \in OpsOf(r) : ~Alone(op)
        /\ \A i \in 2 .. Len(r) : ~Bound(r[i])
        /\ ToCharging \in OpsOf(q) => \A op \in OpsOf(r) : ~Leaving(op) /\ op[1] # "call"
        /\ OpsOf(r) \subseteq OpsOf(q)
    BY <1>1, <1>3, <1>6, <1>7, TailOrdered DEF r
  <1>9. TodoOK'
    <2>1. ASSUME NEW t \in Threads, NEW u, u = todo'[t] PROVE QueueOK(t, u)'
      <3>1. \A op \in OpsOf(u) : Home(t, op)
        BY <1>4, <1>7, <1>8, <2>1 DEF TodoOK, QueueOK
      <3>2. Begins(u, ToWait) => WaitSet(t)
        BY <1>4, <1>8, <2>1 DEF TodoOK, QueueOK, Ordered
      <3>3. /\ \A op \in OpsOf(u) : Home(t, op)'
            /\ Begins(u, ToWait) => WaitSet(t)'
            /\ Before(u, {<<"setNext", "STANDBY">>}, {<<"relay", "off">>}) \/ ~relay'
            /\ Before(u, {<<"setNext", "READY">>}, {<<"relay", "on">>}) \/ relay'
        BY <1>1, <1>2, <1>5, <3>1, <3>2, RelayKeeps
      <3>4. CASE t = c
        BY <1>4, <1>8, <2>1, <3>3, <3>4 DEF QueueOK, Ordered
      <3>5. CASE t # c
        <4>1. Ordered(t, u)
          BY <1>4, <2>1, <3>5 DEF TodoOK, QueueOK
        <4> QED
          BY <3>3, <4>1 DEF QueueOK, Ordered
      <3> QED
        BY <3>4, <3>5
    <2> QED
      BY <1>4, <2>1 DEF TodoOK
  <1>10. <<"goTo", "WAIT">> \in Operation /\ ToCharging \in Operation
    BY Pairs DEF Names, Arguments, States, ToCharging
  <1>11. RelayOK'
    <2>1. CASE v = "off"
      <3>1. state = "SHUTDOWN"
        BY <1>1, <2>1 DEF Home
      <3> QED
        BY <1>2, <3>1 DEF RelayOK
    <2>2. CASE v = "on"
      <3>1. Live
        BY <1>1, <2>2 DEF Home, OfRun
      <3>2. 1 \in 1 .. Len(q) /\ Len(q) \in Nat
        BY <1>1, <1>3, TailElements
      <3>3. PICK j \in 2 .. Len(q) : q[j] \in ToWait
        BY <1>1, <1>3, <1>7, <2>2, <3>2 DEF Ordered, Follows
      <3>4. <<"goTo", "WAIT">> \in OpsOf(q)
        BY <3>2, <3>3 DEF OpsOf, ToWait
      <3>5. <<"goTo", "WAIT">> \in OpsOf(todo'["pwm"])
        BY <1>4, <1>5, <1>6, <1>10, <3>4 DEF Threads, q
      <3> QED
        BY <1>2, <2>2, <3>1, <3>5 DEF RelayOK, Live
    <2> QED
      BY <1>5, <2>1, <2>2
  <1>12. ToCharging \in OpsOf(todo["main"]) => ToCharging \in OpsOf(todo'["main"])
    BY <1>4, <1>6, <1>10 DEF Threads
  <1>13. GatesOK'
    BY <1>2, <1>4, <1>6, <1>12, GatesKept
  <1> QED
    BY <1>4, <1>9, <1>11, <1>13

-----------------------------------------------------------------------------
(* The steps that expand a call or a condition.                            *)

\* Operations that are at home everywhere.
LEMMA FreeHome ==
  ASSUME NEW t
  PROVE  /\ Home(t, <<"mask", "">>) /\ Home(t, <<"unmask", "">>)
         /\ Home(t, <<"signal", "stop">>) /\ Home(t, <<"signal", "start">>)
         /\ Home(t, <<"forceTrip", "">>) /\ Home(t, <<"pwmOff", "">>)
         /\ Home(t, <<"resetRamp", "">>) /\ Home(t, <<"resetErrors", "">>)
         /\ Home(t, <<"goTo", "WAIT">>) /\ Home(t, <<"setError", "OTHER">>)
BY DEF Home, Typed, OfMain, OfPwm, OfRun, OfCharge, OfExpiry, States

\* Nothing in ops leads away from the watch.
LEMMA NoLeaving ==
  ASSUME NEW ops, \A op \in OpsOf(ops) : ~Leaving(op)
  PROVE  Watched(ops)
BY DEF Watched, Before, LeavingOps, OpsOf

\* A plain sequence takes the place of a call or a condition.
LEMMA PlainStep ==
  ASSUME StackOK, TodoOK, RelayOK, GatesOK, stack # <<>>, todo[Current] # <<>>,
         Branching(Head(todo[Current])),
         Current # "main" \/ Head(todo[Current])[1] = "call",
         NEW ops, Plain(ops),
         todo' = [todo EXCEPT ![Current] = ops \o Tail(@)],
         UNCHANGED <<stack, state, nextState, waitFresh, relay, gates>>,
         \A op \in OpsOf(ops) : Home(Current, op),
         gates /\ state \in {"CHARGING_START", "CHARGING"} /\ Watched(todo[Current])
           => Watched(ops)
  PROVE  StackOK' /\ TodoOK' /\ RelayOK' /\ GatesOK'
  <1> DEFINE q == todo[Current]
  <1>1. /\ Current \in Threads /\ q \in Seq(Operation) /\ q # <<>> /\ QueueOK(Current, q)
        /\ Head(q) \in OpsOf(q)
    BY Running
  <1>2. Branching(Head(q)) /\ (Current # "main" \/ Head(q)[1] = "call")
    OBVIOUS
  <1> HIDE DEF q
  <1>3. ToCharging \notin OpsOf(q)
    <2>1. ToCharging \in OpsOf(q) => Current = "main" /\ Head(q)[1] # "call"
      BY <1>1 DEF QueueOK, Ordered, Home, OfMain, ToCharging
    <2> QED
      BY <1>2, <2>1
  <1>4. ops \in Seq(Operation)
    BY DEF Plain
  <1>5. Ordered(Current, ops \o Tail(q))
    BY <1>1, <1>2, <1>3, PlainOrdered DEF QueueOK
  <1> QED
    BY <1>4, <1>5, BranchStep DEF q

\* The same for a call or a condition that is alone in its thread.
LEMMA AloneStep ==
  ASSUME StackOK, TodoOK, RelayOK, GatesOK, stack # <<>>, todo[Current] # <<>>,
         Branching(Head(todo[Current])), Alone(Head(todo[Current])),
         NEW ops \in Seq(Operation), QueueOK(Current, ops),
         todo' = [todo EXCEPT ![Current] = ops \o Tail(@)],
         UNCHANGED <<stack, state, nextState, waitFresh, relay, gates>>,
         gates /\ state \in {"CHARGING_START", "CHARGING"} /\ Watched(todo[Current])
           => Watched(ops)
  PROVE  StackOK' /\ TodoOK' /\ RelayOK' /\ GatesOK'
  <1> DEFINE q == todo[Current]
  <1>1. /\ Current \in Threads /\ q \in Seq(Operation) /\ q # <<>> /\ QueueOK(Current, q)
        /\ Head(q) \in OpsOf(q) /\ Tail(q) \in Seq(Operation)
    BY Running
  <1>2. Alone(Head(q))
    OBVIOUS
  <1> HIDE DEF q
  <1>3. Len(q) = 1
    BY <1>1, <1>2 DEF QueueOK, Ordered
  <1>4. Len(Tail(q)) = 0
    BY <1>1, <1>3, TailElements
  <1>5. Tail(q) = <<>>
    BY <1>1, <1>4, EmptySeq
  <1>6. ops \o Tail(q) = ops
    BY <1>5, ConcatEmptySeq
  <1>7. Ordered(Current, ops \o Tail(q)) /\ \A op \in OpsOf(ops) : Home(Current, op)
    BY <1>6 DEF QueueOK
  <1> QED
    BY <1>7, BranchStep DEF q

\* A plain sequence is in order on its own.
LEMMA PlainQueue ==
  ASSUME NEW t, NEW ops, Plain(ops), \A op \in OpsOf(ops) : Home(t, op)
  PROVE  QueueOK(t, ops)
  <1>1. Before(ops, {<<"setNext", "STANDBY">>}, {<<"relay", "off">>})
    BY DEF Plain, Before, OpsOf
  <1>2. Follows(ops, Switches, {ToCharging})
    BY DEF Plain, Follows, OpsOf
  <1> QED
    BY <1>1, <1>2 DEF Plain, QueueOK, Ordered

\* The methods of a shutdown are at home where a converter runs.
LEMMA ShutdownHome ==
  ASSUME NEW t, NEW s \in States, s \notin {"STANDBY", "SHUTDOWN", "WAIT"} => Live
  PROVE  /\ Plain(ShutdownOf(s))
         /\ \A op \in OpsOf(ShutdownOf(s)) : Home(t, op)
         /\ s \in {"CHARGING_START", "CHARGING"} => Watched(ShutdownOf(s))
  <1>1. Live => Home(t, <<"setNext", "SHUTDOWN">>)
    BY DEF Home, Typed, OfMain, OfPwm, OfRun, OfCharge, OfExpiry
  <1>2. \A op \in OpsOf(ShutdownOf(s)) : Home(t, op)
    <2> SUFFICES ASSUME NEW op \in OpsOf(ShutdownOf(s)) PROVE Home(t, op)
      OBVIOUS
    <2>1. op \in {<<"mask", "">>, <<"signal", "stop">>, <<"forceTrip", "">>, <<"pwmOff", "">>,
                  <<"resetRamp", "">>, <<"setNext", "SHUTDOWN">>, <<"goTo", "WAIT">>}
      BY ShutdownRoutine
    <2>2. op = <<"setNext", "SHUTDOWN">> => Live
      BY ShutdownRoutine
    <2> QED
      BY <1>1, <2>1, <2>2, FreeHome
  <1>3. s \in {"CHARGING_START", "CHARGING"} => Watched(ShutdownOf(s))
    <2> SUFFICES ASSUME s \in {"CHARGING_START", "CHARGING"} PROVE Watched(ShutdownOf(s))
      OBVIOUS
    <2>1. PICK q \in Seq(Operation) : ShutdownOf(s) = PwmStop \o q
      BY ShutdownRoutine
    <2>2. PwmStop \in Seq(Operation) /\ OpsOf(PwmStop) = {<<"forceTrip", "">>, <<"pwmOff", "">>}
      BY Pieces DEF Plain
    <2>3. ~Leaving(<<"forceTrip", "">>) /\ ~Leaving(<<"pwmOff", "">>)
      BY DEF Leaving
    <2>4. Watched(PwmStop)
      BY <2>2, <2>3, NoLeaving
    <2>5. <<"forceTrip", "">> \in OpsOf(PwmStop) /\ <<"forceTrip", "">> \in Trip
      BY <2>2 DEF Trip
    <2> QED
      BY <2>1, <2>2, <2>4, <2>5, JoinBehind DEF Watched
  <1> QED
    BY <1>2, <1>3, ShutdownRoutine

\* A single operation that waits for nothing is in order.
LEMMA SingleOK ==
  ASSUME NEW t, NEW op \in Operation, Home(t, op), op[1] \notin {"goTo", "setNext", "relay"},
         op \notin Switches
  PROVE  <<op>> \in Seq(Operation) /\ QueueOK(t, <<op>>)
  <1>1. <<op>> \in Seq(Operation) /\ Len(<<op>>) = 1 /\ <<op>>[1] = op
    OBVIOUS
  <1>2. \A x \in OpsOf(<<op>>) : x = op
    BY <1>1 DEF OpsOf
  <1>3. /\ op \notin ToWait /\ op # <<"setNext", "STANDBY">> /\ op # <<"setNext", "READY">>
        /\ op # <<"relay", "on">> /\ op # ToCharging
    BY NamesOf DEF ToWait
  <1>4. /\ Told(<<op>>) /\ ~Begins(<<op>>, ToWait)
        /\ Before(<<op>>, {<<"setNext", "STANDBY">>}, {<<"relay", "off">>})
        /\ Before(<<op>>, {<<"setNext", "READY">>}, {<<"relay", "on">>})
        /\ Follows(<<op>>, {<<"relay", "on">>}, ToWait)
        /\ Follows(<<op>>, Switches, {ToCharging})
    BY <1>1, <1>3 DEF Told, Begins, Before, Follows
  <1>5. \A i \in 2 .. Len(<<op>>) : ~Bound(<<op>>[i])
    BY <1>1
  <1> QED
    BY <1>1, <1>2, <1>3, <1>4, <1>5 DEF QueueOK, Ordered

\* An operation before a sequence of two.
LEMMA ThreeOps ==
  ASSUME NEW a \in Operation, NEW g \in Seq(Operation), Len(g) = 2
  PROVE  /\ <<a>> \o g \in Seq(Operation) /\ Len(<<a>> \o g) = 3
         /\ (<<a>> \o g)[1] = a /\ (<<a>> \o g)[2] = g[1] /\ (<<a>> \o g)[3] = g[2]
         /\ OpsOf(<<a>> \o g) = {a, g[1], g[2]}
  <1>1. ASSUME NEW p \in Seq(Operation), NEW q \in Seq(Operation)
        PROVE  /\ p \o q \in Seq(Operation) /\ Len(p \o q) = Len(p) + Len(q)
               /\ \A i \in 1 .. Len(p) : (p \o q)[i] = p[i]
               /\ \A i \in 1 .. Len(q) : (p \o q)[Len(p) + i] = q[i]
    BY JoinElements
  <1>2. <<a>> \in Seq(Operation) /\ Len(<<a>>) = 1 /\ <<a>>[1] = a
    OBVIOUS
  <1>3. ASSUME NEW p \in Seq(Operation), Len(p) = 1, p[1] = a,
               NEW r, Len(r) = Len(p) + Len(g),
               \A i \in 1 .. Len(p) : r[i] = p[i],
               \A i \in 1 .. Len(g) : r[Len(p) + i] = g[i]
        PROVE  /\ Len(r) = 3 /\ r[1] = a /\ r[2] = g[1] /\ r[3] = g[2]
               /\ OpsOf(r) = {a, g[1], g[2]}
    <2>1. 1 \in 1 .. Len(p) /\ 1 \in 1 .. Len(g) /\ 2 \in 1 .. Len(g)
      BY <1>3
    <2>2. r[1] = p[1] /\ r[Len(p) + 1] = g[1] /\ r[Len(p) + 2] = g[2]
      BY Zenon, <1>3, <2>1
    <2>3. Len(r) = 3 /\ Len(p) + 1 = 2 /\ Len(p) + 2 = 3
      BY <1>3
    <2>4. r[1] = a /\ r[2] = g[1] /\ r[3] = g[2]
      BY Zenon, <1>3, <2>2, <2>3
    <2>5. 1 .. 3 = {1, 2, 3}
      OBVIOUS
    <2>6. OpsOf(r) = {r[i] : i \in {1, 2, 3}}
      BY Zenon, <2>3, <2>5 DEF OpsOf
    <2> QED
      BY <2>3, <2>4, <2>6
  <1> QED
    BY Zenon, <1>1, <1>2, <1>3

\* A routine of the same shape as the end of a shutdown and the relaunch.
LEMMA GroundedOrder ==
  ASSUME NEW t, NEW first \in Operation, Home(t, first),
         NEW set \in SetNexts, Home(t, set), set = <<"setNext", "STANDBY">>,
         NEW wait \in ToWait, Home(t, wait),
         first[1] \in {"relay", "resetErrors"}, first # <<"relay", "on">>,
         first = <<"relay", "off">> \/ ~relay,
         NEW r \in BoundRoutines, Len(r) = 3, r[1] = first, r[2] = set, r[3] = wait,
         OpsOf(r) = {first, set, wait}
  PROVE  QueueOK(t, r)
  <1>1. set[1] = "setNext" /\ wait[1] = "goTo" /\ wait # ToCharging
    BY NamesOf DEF ToWait, ToCharging
  <1>2. first \notin ToWait /\ set \notin ToWait /\ first # set /\ first # wait
    BY <1>1, NamesOf DEF ToWait
  <1>3. \A op \in OpsOf(r) : op[1] \in {"relay", "resetErrors", "setNext", "goTo"}
    BY <1>1
  <1>4. ASSUME NEW op \in OpsOf(r) PROVE ~Alone(op) /\ op \notin Switches
    <2>1. <<"ifPwmOff", "">>[1] = "ifPwmOff" /\ <<"clearTrip", "">>[1] = "clearTrip"
      OBVIOUS
    <2>2. op \notin Switches
      BY <1>3, <2>1 DEF Switches
    <2>3. <<"call", "startCharging">>[1] = "call" /\ <<"call", "run">>[1] = "call"
      OBVIOUS
    <2> QED
      BY <1>3, <2>2, <2>3 DEF Alone
  <1>5. \A op \in OpsOf(r) : op # ToCharging
    BY <1>1, NamesOf
  <1>6. \A op \in OpsOf(r) : op # <<"setNext", "READY">> /\ op # <<"relay", "on">>
    <2>1. <<"setNext", "STANDBY">> # <<"setNext", "READY">>
      OBVIOUS
    <2> QED
      BY <1>1, <2>1, NamesOf
  <1>7. \A i \in 1 .. Len(r) : r[i] \in OpsOf(r)
    BY DEF OpsOf
  <1>8. \A i \in 1 .. 3 : i = 1 \/ i = 2 \/ i = 3
    OBVIOUS
  <1>9. Told(r) /\ ~Begins(r, ToWait)
    <2>1. \A i \in 2 .. 3 : r[i] \in ToWait => i = 3
      BY <1>2, <1>8
    <2> QED
      BY <1>2, <2>1 DEF Told, Begins
  <1>10. /\ Before(r, {<<"setNext", "READY">>}, {<<"relay", "on">>})
         /\ Follows(r, {<<"relay", "on">>}, ToWait)
         /\ Follows(r, Switches, {ToCharging})
    BY <1>4, <1>6, <1>7 DEF Before, Follows
  <1>11. Before(r, {<<"setNext", "STANDBY">>}, {<<"relay", "off">>}) \/ ~relay
    <2>1. CASE first = <<"relay", "off">>
      <3>1. \A i \in 1 .. 3 : r[i] = set => i = 2
        BY <1>1, <1>2, <1>8
      <3> QED
        BY <2>1, <3>1 DEF Before
    <2> QED
      BY <2>1
  <1> QED
    BY <1>4, <1>5, <1>9, <1>10, <1>11 DEF QueueOK, Ordered

\* The end of a shutdown, and the reset of the errors for another launch.
LEMMA GroundedRoutine ==
  ASSUME NEW t, NEW first \in Operation, Home(t, first), Home(t, <<"setNext", "STANDBY">>),
         first = <<"relay", "off">> \/ (first = <<"resetErrors", "">> /\ ~relay)
  PROVE  /\ <<first>> \o GoAfterWait("STANDBY") \in Seq(Operation)
         /\ QueueOK(t, <<first>> \o GoAfterWait("STANDBY"))
  <1> DEFINE g == GoAfterWait("STANDBY")
             r == <<first>> \o g
             set == <<"setNext", "STANDBY">>
             wait == <<"goTo", "WAIT">>
  <1>1. r \in BoundRoutines
    BY DEF BoundRoutines
  <1>2. first[1] \in {"relay", "resetErrors"} /\ first # <<"relay", "on">>
    <2>1. /\ <<"relay", "off">>[1] = "relay" /\ <<"resetErrors", "">>[1] = "resetErrors"
          /\ <<"relay", "off">> # <<"relay", "on">> /\ <<"resetErrors", "">> # <<"relay", "on">>
      OBVIOUS
    <2> QED
      BY <2>1
  <1>3. set \in SetNexts /\ wait \in ToWait /\ Home(t, wait)
    BY FreeHome DEF SetNexts, ToWait
  <1>4. g \in Seq(Operation) /\ Len(g) = 2 /\ g[1] = set /\ g[2] = wait
    BY GoAfterWaitIs
  <1> HIDE DEF g, set, wait
  <1>5. /\ r \in Seq(Operation) /\ Len(r) = 3 /\ r[1] = first /\ r[2] = set /\ r[3] = wait
        /\ OpsOf(r) = {first, set, wait}
    BY <1>4, ThreeOps
  <1>6. set = <<"setNext", "STANDBY">>
    BY DEF set
  <1> HIDE DEF r
  <1>7. QueueOK(t, r)
    BY <1>1, <1>2, <1>3, <1>5, <1>6, GroundedOrder DEF set
  <1> QED
    BY <1>5, <1>7 DEF r, g

\* All operations but those of the names listed are ordinary, and of these only ifExpired
\* is bound to a state.
LEMMA OrdinaryOp ==
  ASSUME NEW n \in Names, NEW a \in Arguments,
         n \notin {"setNext", "goTo", "relay", "call", "ifLaunch", "ifMayCharge", "ifPwmOff",
                   "clearTrip"}
  PROVE  /\ <<n, a>> \in Operation /\ Ordinary(<<n, a>>)
         /\ n # "ifExpired" => ~Bound(<<n, a>>)
  <1>1. \A op : op = <<n, a>> => op[1] = n /\ op[2] = a
    OBVIOUS
  <1>2. <<n, a>> \in Operation
    BY Pairs
  <1>3. /\ <<"call", "startCharging">>[1] = "call" /\ <<"call", "run">>[1] = "call"
        /\ <<"ifPwmOff", "">>[1] = "ifPwmOff" /\ <<"clearTrip", "">>[1] = "clearTrip"
        /\ <<"goTo", "STARTUP">>[1] = "goTo"
    OBVIOUS
  <1>4. ASSUME NEW op \in Operation, op = <<n, a>>
        PROVE  Ordinary(op) /\ (n # "ifExpired" => ~Bound(op))
    <2>1. op[1] = n
      BY <1>1, <1>4
    <2>2. ~Alone(op) /\ op \notin Switches
      BY <2>1, <1>3 DEF Alone, Switches
    <2>3. op # ToCharging /\ op # <<"goTo", "WAIT">> /\ op # <<"relay", "on">>
      BY <2>1, NamesOf
    <2>4. n # "ifExpired" => ~Bound(op)
      BY <2>1, <1>3, NamesOf DEF Bound, OfExpiry
    <2> QED
      BY <2>1, <2>2, <2>3, <2>4 DEF Ordinary
  <1> QED
    BY <1>2, <1>4

\* run() of the state object that is current is in order for the PWM event, and in the
\* states that watch over the outputs it blocks them before it leaves.
LEMMA RunRoutine ==
  ASSUME state \in States, RelayOK
  PROVE  /\ RunOf(state) \in Seq(Operation) /\ QueueOK("pwm", RunOf(state))
         /\ state \in {"CHARGING_START", "CHARGING"} => Watched(RunOf(state))
  <1> DEFINE late == <<"ifLate", "">>
             running == <<"ifRunning", "">>
             errs(s) == <<"ifErrors", s>>
             step == <<"ramp", "">>
             expired == <<"ifExpired", "">>
             open == <<"relay", "off">>
  <1>1. \A s \in States : s \in Arguments /\ "" \in Arguments
    BY DEF Arguments
  <1>2. {"ifLate", "ifRunning", "ifErrors", "ramp", "ifExpired", "relay"} \subseteq Names
    BY DEF Names
  <1>3. /\ late \in Operation /\ Ordinary(late) /\ ~Bound(late)
        /\ running \in Operation /\ Ordinary(running) /\ ~Bound(running)
        /\ step \in Operation /\ Ordinary(step) /\ ~Bound(step)
        /\ expired \in Operation /\ Ordinary(expired)
        /\ \A s \in States : errs(s) \in Operation /\ Ordinary(errs(s)) /\ ~Bound(errs(s))
    BY <1>1, <1>2, OrdinaryOp
  <1>4. /\ Live => Home("pwm", late) /\ Home("pwm", running)
        /\ Live /\ relay => Home("pwm", step)
        /\ state = "WAIT" => Home("pwm", expired)
        /\ state = "SHUTDOWN" => Home("pwm", open) /\ Home("pwm", <<"setNext", "STANDBY">>)
    BY DEF Home, Typed, OfMain, OfPwm, OfRun, OfCharge, OfExpiry, Grounded
  <1>5. ASSUME NEW s \in States, s = "WAIT" \/ Live PROVE Home("pwm", errs(s))
    BY <1>5 DEF Home, Typed, OfMain, OfPwm, OfRun, OfCharge, OfExpiry, Grounded
  <1>6. state \in {"STARTUP", "READY", "CHARGING_START", "CHARGING"} => Live
    BY DEF Live
  <1>7. /\ ~Leaving(errs("CHARGING_START")) /\ ~Leaving(errs("CHARGING")) /\ ~Leaving(step)
    BY DEF Leaving
  <1>8. ASSUME NEW ops, Plain(ops), \A op \in OpsOf(ops) : Home("pwm", op)
        PROVE  ops \in Seq(Operation) /\ QueueOK("pwm", ops)
    BY <1>8, PlainQueue DEF Plain
  <1>9. open \in Operation
    BY <1>2, Pairs DEF Arguments
  <1>10. CASE state = "STARTUP"
    <2>1. RunOf(state) = <<late, running, errs(state)>>
      BY <1>10, Zenon DEF RunOf
    <2>2. Plain(<<late, running, errs(state)>>)
      BY <1>3, PlainShort
    <2>3. \A op \in OpsOf(<<late, running, errs(state)>>) :
             op = late \/ op = running \/ op = errs(state)
      <3>1. \A a, b, c : \A op \in OpsOf(<<a, b, c>>) : op = a \/ op = b \/ op = c
        BY DEF OpsOf
      <3> QED
        BY <3>1
    <2> HIDE DEF late, running, errs
    <2> QED
      BY <1>4, <1>5, <1>6, <1>8, <1>10, <2>1, <2>2, <2>3
  <1>11. CASE state \in {"READY", "CHARGING"}
    <2>1. RunOf(state) = <<errs(state)>>
      BY <1>11, Zenon DEF RunOf
    <2>2. Plain(<<errs(state)>>) /\ OpsOf(<<errs(state)>>) = {errs(state)}
      BY <1>3, PlainShort, ShortOps
    <2>3. state = "CHARGING" => ~Leaving(errs(state))
      BY <1>7
    <2> HIDE DEF errs
    <2> QED
      BY <1>5, <1>6, <1>8, <1>11, <2>1, <2>2, <2>3, NoLeaving
  <1>12. CASE state = "CHARGING_START"
    <2>1. RunOf(state) = <<errs(state), step>>
      BY <1>12, Zenon DEF RunOf
    <2>2. Plain(<<errs(state), step>>) /\ OpsOf(<<errs(state), step>>) = {errs(state), step}
      BY <1>3, PlainShort, ShortOps
    <2>3. ~Leaving(errs(state)) /\ ~Leaving(step)
      BY <1>7, <1>12
    <2>4. relay
      BY <1>12 DEF RelayOK
    <2> HIDE DEF errs, step
    <2> QED
      BY <1>4, <1>5, <1>6, <1>8, <1>12, <2>1, <2>2, <2>3, <2>4, NoLeaving
  <1>13. CASE state = "WAIT"
    <2>1. RunOf(state) = <<expired, errs(state)>>
      BY <1>13, Zenon DEF RunOf
    <2>2. /\ Plain(<<expired, errs(state)>>)
          /\ OpsOf(<<expired, errs(state)>>) = {expired, errs(state)}
      BY <1>3, PlainShort, ShortOps
    <2> HIDE DEF errs, expired
    <2> QED
      BY <1>4, <1>5, <1>8, <1>13, <2>1, <2>2
  <1>14. CASE state = "SHUTDOWN"
    <2>1. RunOf(state) = <<open>> \o GoAfterWait("STANDBY")
      BY <1>14, Zenon DEF RunOf
    <2>2. Home("pwm", open) /\ Home("pwm", <<"setNext", "STANDBY">>)
      BY <1>4, <1>14
    <2>3. open = <<"relay", "off">>
      OBVIOUS
    <2> HIDE DEF open
    <2>4. open = <<"relay", "off">> \/ (open = <<"resetErrors", "">> /\ ~relay)
      BY <2>3
    <2>5. /\ <<open>> \o GoAfterWait("STANDBY") \in Seq(Operation)
          /\ QueueOK("pwm", <<open>> \o GoAfterWait("STANDBY"))
      BY <1>9, <2>2, <2>4, GroundedRoutine
    <2> QED
      BY <1>14, <2>1, <2>5
  <1>15. CASE state = "STANDBY"
    <2>1. RunOf(state) = <<>>
      BY <1>15, Zenon DEF RunOf
    <2> QED
      BY <1>15, <2>1, EmptyOK, EmptySeq
  <1> QED
    BY <1>10, <1>11, <1>12, <1>13, <1>14, <1>15 DEF States

\* startCharging() of the state object that is current is in order for the main loop.
LEMMA StartChargingRoutine ==
  ASSUME state \in States, RelayOK
  PROVE  /\ StartChargingOf(state) \in Seq(Operation)
         /\ QueueOK("main", StartChargingOf(state))
         /\ state \in {"CHARGING_START", "CHARGING"} => Watched(StartChargingOf(state))
  <1>1. CASE state = "STANDBY"
    <2>1. StartChargingOf(state) = <<<<"ifLaunch", "">>>>
      BY <1>1, Zenon DEF StartChargingOf
    <2>2. <<"ifLaunch", "">> \in Operation
      BY Pairs DEF Names, Arguments
    <2>3. Home("main", <<"ifLaunch", "">>)
      BY <1>1 DEF Home, Typed, OfMain, OfPwm, OfRun, OfCharge, OfExpiry
    <2>4. <<"ifLaunch", "">> \notin Switches /\ <<"ifLaunch", "">>[1] = "ifLaunch"
      BY DEF Switches
    <2> QED
      BY <1>1, <2>1, <2>2, <2>3, <2>4, SingleOK
  <1>2. CASE state = "READY"
    <2>1. StartChargingOf(state) = <<<<"ifMayCharge", "">>>>
      BY <1>2, Zenon DEF StartChargingOf
    <2>2. <<"ifMayCharge", "">> \in Operation
      BY Pairs DEF Names, Arguments
    <2>3. Home("main", <<"ifMayCharge", "">>)
      BY <1>2 DEF Home, Typed, OfMain, OfPwm, OfRun, OfCharge, OfExpiry, Live, RelayOK
    <2>4. <<"ifMayCharge", "">> \notin Switches /\ <<"ifMayCharge", "">>[1] = "ifMayCharge"
      BY DEF Switches
    <2> QED
      BY <1>2, <2>1, <2>2, <2>3, <2>4, SingleOK
  <1>3. CASE state \notin {"STANDBY", "READY"}
    <2>1. StartChargingOf(state) = <<>>
      BY <1>3, Zenon DEF StartChargingOf
    <2>2. <<>> \in Seq(Operation) /\ OpsOf(<<>>) = {}
      BY ShortOps, EmptySeq
    <2> QED
      BY <2>1, <2>2, EmptyOK, NoLeaving
  <1> QED
    BY <1>1, <1>2, <1>3

\* What leads away from the watch is not the next operation of a thread that is
\* watched.
LEMMA LeavingHead ==
  ASSUME NEW q \in Seq(Operation), q # <<>>, Leaving(Head(q))
  PROVE  ~Watched(q)
  <1>1. 1 \in 1 .. Len(q) /\ q[1] = Head(q) /\ Head(q) \in Operation
    BY TailElements
  <1>2. q[1] \in LeavingOps
    BY <1>1 DEF LeavingOps
  <1> QED
    BY <1>1, <1>2 DEF Watched, Before

\* What a call or a condition of the given name does, whatever it is expanded to.
LEMMA Expanded ==
  ASSUME StackOK, TodoOK, NEW name, Op(name), NEW ops, Do(ops)
  PROVE  /\ stack # <<>> /\ todo[Current] # <<>> /\ Current \in Threads
         /\ Head(todo[Current]) = <<name, Arg>> /\ Head(todo[Current])[1] = name
         /\ Home(Current, <<name, Arg>>)
         /\ todo[Current] \in Seq(Operation) /\ QueueOK(Current, todo[Current])
         /\ Head(todo[Current]) \in OpsOf(todo[Current])
         /\ todo' = [todo EXCEPT ![Current] = ops \o Tail(@)] /\ UNCHANGED stack
  <1>1. /\ stack # <<>> /\ todo[Current] # <<>> /\ Current \in Threads
        /\ Head(todo[Current]) = <<name, Arg>> /\ Head(todo[Current])[1] = name
        /\ Home(Current, <<name, Arg>>)
    BY Reached
  <1>2. /\ todo[Current] \in Seq(Operation) /\ QueueOK(Current, todo[Current])
        /\ Head(todo[Current]) \in OpsOf(todo[Current])
    BY <1>1, Running
  <1> QED
    BY <1>1, <1>2 DEF Do

\* A call, expanded to the method of the state object that is current, keeps the
\* invariant.
LEMMA CallStep ==
  ASSUME VarsOK, StackOK, TodoOK, RelayOK, GatesOK, Call
  PROVE  StackOK' /\ TodoOK' /\ RelayOK' /\ GatesOK'
  <1> DEFINE ops == CASE Arg = "shutdown" -> ShutdownOf(state)
                      [] Arg = "startCharging" -> StartChargingOf(state)
                      [] Arg = "run" -> RunOf(state)
  <1>1. Op("call") /\ Do(ops) /\ UNCHANGED <<state, nextState, waitFresh, relay, gates>>
    BY DEF Call, fsm, plant
  <1>2. /\ Arg = "shutdown" => ops = ShutdownOf(state)
        /\ Arg = "startCharging" => ops = StartChargingOf(state)
        /\ Arg = "run" => ops = RunOf(state)
    OBVIOUS
  <1> HIDE DEF ops
  <1>3. /\ stack # <<>> /\ todo[Current] # <<>> /\ Current \in Threads
        /\ Head(todo[Current]) = <<"call", Arg>> /\ Head(todo[Current])[1] = "call"
        /\ Home(Current, <<"call", Arg>>)
        /\ todo' = [todo EXCEPT ![Current] = ops \o Tail(@)] /\ UNCHANGED stack
    BY <1>1, Expanded
  <1>4. <<"call", Arg>>[1] = "call" /\ <<"call", Arg>>[2] = Arg
    OBVIOUS
  <1>5. Arg \in {"shutdown", "startCharging", "run"}
    BY <1>3, <1>4, Zenon DEF Home, Typed
  <1>6. state \in States
    BY DEF VarsOK
  <1>7. Branching(Head(todo[Current]))
    BY <1>3 DEF Branching
  <1>8. CASE Arg = "shutdown"
    <2>1. state \notin {"STANDBY", "SHUTDOWN", "WAIT"} => Live
      BY <1>6 DEF Live, States
    <2>2. /\ Plain(ShutdownOf(state))
          /\ \A op \in OpsOf(ShutdownOf(state)) : Home(Current, op)
          /\ state \in {"CHARGING_START", "CHARGING"} => Watched(ShutdownOf(state))
      BY <1>6, <2>1, ShutdownHome
    <2>3. /\ Plain(ops) /\ \A op \in OpsOf(ops) : Home(Current, op)
          /\ state \in {"CHARGING_START", "CHARGING"} => Watched(ops)
      BY <1>2, <1>8, <2>2, Zenon
    <2> QED
      BY <1>1, <1>3, <1>7, <2>3, PlainStep
  <1>9. CASE Arg = "startCharging"
    <2>1. Current = "main"
      BY <1>3, <1>9, Zenon DEF Home, OfMain
    <2>2. Alone(Head(todo[Current]))
      BY <1>3, <1>9, Zenon DEF Alone
    <2>3. /\ ops \in Seq(Operation) /\ QueueOK(Current, ops)
          /\ state \in {"CHARGING_START", "CHARGING"} => Watched(ops)
      BY <1>2, <1>6, <1>9, <2>1, StartChargingRoutine, Zenon
    <2> QED
      BY <1>1, <1>3, <1>7, <2>2, <2>3, AloneStep
  <1>10. CASE Arg = "run"
    <2>1. Current = "pwm"
      BY <1>3, <1>10, Zenon DEF Home, OfPwm
    <2>2. Alone(Head(todo[Current]))
      BY <1>3, <1>10, Zenon DEF Alone
    <2>3. /\ ops \in Seq(Operation) /\ QueueOK(Current, ops)
          /\ state \in {"CHARGING_START", "CHARGING"} => Watched(ops)
      BY <1>2, <1>6, <1>10, <2>1, RunRoutine, Zenon
    <2> QED
      BY <1>1, <1>3, <1>7, <2>2, <2>3, AloneStep
  <1> QED
    BY <1>5, <1>8, <1>9, <1>10

\* Doing nothing is in order everywhere.
LEMMA NothingHome ==
  ASSUME NEW t
  PROVE  Plain(<<>>) /\ Watched(<<>>) /\ <<>> \in Seq(Operation) /\ QueueOK(t, <<>>)
         /\ \A op \in OpsOf(<<>>) : Home(t, op)
  <1>1. OpsOf(<<>>) = {}
    BY ShortOps
  <1>2. Watched(<<>>)
    BY <1>1, NoLeaving
  <1> QED
    BY <1>1, <1>2, Pieces, EmptySeq, EmptyOK

\* The start of the fuel cells and the step to STARTUP are in order in STANDBY.
LEMMA LaunchRoutine ==
  ASSUME state = "STANDBY"
  PROVE  /\ <<<<"signal", "start">>, <<"goTo", "STARTUP">>>> \in Seq(Operation)
         /\ QueueOK("main", <<<<"signal", "start">>, <<"goTo", "STARTUP">>>>)
  <1> DEFINE a == <<"signal", "start">>
             b == <<"goTo", "STARTUP">>
             r == <<a, b>>
  <1>1. a \in Operation /\ b \in Operation
    BY Pairs DEF Names, Arguments, States
  <1>2. a[1] = "signal" /\ b[1] = "goTo" /\ b # <<"goTo", "WAIT">> /\ b # ToCharging
    BY DEF ToCharging
  <1>3. Home("main", a) /\ Home("main", b)
    BY Zenon DEF Home, Typed, OfMain, OfPwm, OfRun, OfCharge, OfExpiry, States
  <1>4. r \in BoundRoutines
    BY DEF BoundRoutines
  <1>5. ASSUME NEW x \in Operation, NEW y \in Operation
        PROVE  /\ <<x, y>> \in Seq(Operation) /\ Len(<<x, y>>) = 2
               /\ <<x, y>>[1] = x /\ <<x, y>>[2] = y
    OBVIOUS
  <1>6. r \in Seq(Operation) /\ Len(r) = 2 /\ r[1] = a /\ r[2] = b /\ OpsOf(r) = {a, b}
    BY <1>1, <1>5, ShortOps
  <1>7. /\ ~Alone(a) /\ a \notin Switches /\ a # ToCharging
        /\ a \notin ToWait /\ a # <<"setNext", "READY">> /\ a # <<"relay", "on">>
        /\ a # <<"setNext", "STANDBY">>
    <2>1. "signal" \in Names /\ "start" \in Arguments
      BY DEF Names, Arguments
    <2> QED
      BY <1>2, <2>1, OrdinaryOp, NamesOf DEF Ordinary, ToWait
  <1>8. /\ ~Alone(b) /\ b \notin Switches /\ b \notin ToWait
        /\ b # <<"setNext", "READY">> /\ b # <<"relay", "on">> /\ b # <<"setNext", "STANDBY">>
    <2>1. ~Alone(b) /\ b \notin Switches
      BY Zenon DEF Alone, Switches
    <2> QED
      BY <1>2, <2>1, NamesOf DEF ToWait
  <1> HIDE DEF a, b, r
  <1>9. \A i \in 1 .. Len(r) : r[i] \in {a, b}
    BY <1>6 DEF OpsOf
  <1>10. /\ Told(r) /\ ~Begins(r, ToWait)
         /\ Before(r, {<<"setNext", "STANDBY">>}, {<<"relay", "off">>})
         /\ Before(r, {<<"setNext", "READY">>}, {<<"relay", "on">>})
         /\ Follows(r, {<<"relay", "on">>}, ToWait)
         /\ Follows(r, Switches, {ToCharging})
    <2>1. \A i \in 1 .. Len(r) : /\ r[i] \notin ToWait /\ r[i] \notin Switches
                                 /\ r[i] \notin {<<"setNext", "STANDBY">>}
                                 /\ r[i] \notin {<<"setNext", "READY">>}
                                 /\ r[i] \notin {<<"relay", "on">>}
      BY <1>7, <1>8, <1>9
    <2>2. Len(r) = 2
      BY <1>6
    <2> QED
      BY <2>1, <2>2 DEF Told, Begins, Before, Follows
  <1>11. ToCharging \notin OpsOf(r)
    BY <1>2, <1>6, <1>7
  <1>12. QueueOK("main", r)
    BY <1>3, <1>4, <1>6, <1>7, <1>8, <1>10, <1>11 DEF QueueOK, Ordered
  <1> QED
    BY <1>6, <1>12 DEF r, a, b

\* STANDBY_State::startup, whether it starts the fuel cells, resets the errors or does
\* nothing, keeps the invariant: the state is STANDBY and the relay open.
LEMMA IfLaunchStep ==
  ASSUME VarsOK, StackOK, TodoOK, RelayOK, GatesOK, IfLaunch
  PROVE  StackOK' /\ TodoOK' /\ RelayOK' /\ GatesOK'
  <1> DEFINE launch == <<<<"signal", "start">>, <<"goTo", "STARTUP">>>>
             relaunch == <<<<"resetErrors", "">>>> \o GoAfterWait("STANDBY")
  <1>1. \E ops \in {<<>>, launch, relaunch} :
           /\ Op("ifLaunch") /\ Do(ops)
           /\ UNCHANGED <<state, nextState, waitFresh, relay, gates>>
    BY Zenon DEF IfLaunch, Branch, fsm, plant
  <1>2. PICK ops \in {<<>>, launch, relaunch} :
           /\ Op("ifLaunch") /\ Do(ops)
           /\ UNCHANGED <<state, nextState, waitFresh, relay, gates>>
    BY <1>1
  <1>3. /\ stack # <<>> /\ todo[Current] # <<>> /\ Current \in Threads
        /\ Head(todo[Current])[1] = "ifLaunch" /\ Home(Current, <<"ifLaunch", Arg>>)
        /\ todo' = [todo EXCEPT ![Current] = ops \o Tail(@)] /\ UNCHANGED stack
    BY <1>2, Expanded
  <1>4. <<"ifLaunch", Arg>>[1] = "ifLaunch"
    OBVIOUS
  <1>5. Current = "main" /\ state = "STANDBY"
    BY <1>3, <1>4, Zenon DEF Home, OfMain
  <1>6. Branching(Head(todo[Current])) /\ Alone(Head(todo[Current]))
    BY <1>3 DEF Branching, Alone
  <1>7. launch \in Seq(Operation) /\ QueueOK("main", launch)
    BY <1>5, LaunchRoutine
  <1>8. relaunch \in Seq(Operation) /\ QueueOK("main", relaunch)
    <2> DEFINE first == <<"resetErrors", "">>
    <2>1. first \in Operation
      BY Pairs DEF Names, Arguments
    <2>2. Home("main", first)
      BY FreeHome
    <2>3. Home("main", <<"setNext", "STANDBY">>)
      BY <1>5, Zenon DEF Home, Typed, OfMain, OfPwm, OfRun, OfCharge, OfExpiry, Grounded
    <2>4. ~relay
      BY <1>5 DEF RelayOK
    <2>5. first = <<"relay", "off">> \/ (first = <<"resetErrors", "">> /\ ~relay)
      BY <2>4, Zenon
    <2> QED
      BY <2>1, <2>2, <2>3, <2>5, GroundedRoutine, Zenon
  <1> HIDE DEF launch, relaunch
  <1>9. ops \in Seq(Operation) /\ QueueOK(Current, ops)
    BY <1>2, <1>5, <1>7, <1>8, NothingHome
  <1>10. ~(state \in {"CHARGING_START", "CHARGING"})
    BY <1>5
  <1> QED
    BY <1>2, <1>3, <1>6, <1>9, <1>10, AloneStep

\* What READY_State::startCharging decides on is at home while the converter is live and
\* the relay closed, and leads only to a state that watches over the outputs.
LEMMA MayChargeRoutine ==
  ASSUME Live, relay
  PROVE  /\ <<<<"ifPwmOff", "">>, ToCharging>> \in Seq(Operation)
         /\ QueueOK("main", <<<<"ifPwmOff", "">>, ToCharging>>)
         /\ Watched(<<<<"ifPwmOff", "">>, ToCharging>>)
  <1> DEFINE a == <<"ifPwmOff", "">>
             r == <<a, ToCharging>>
  <1>1. a \in Operation /\ ToCharging \in Operation
    BY Pairs DEF Names, Arguments, States, ToCharging
  <1>2. a[1] = "ifPwmOff" /\ ToCharging[1] = "goTo"
    BY DEF ToCharging
  <1>3. Home("main", a) /\ Home("main", ToCharging)
    BY Zenon DEF Home, Typed, OfMain, OfPwm, OfRun, OfCharge, OfExpiry, States, ToCharging
  <1>4. ASSUME NEW x \in Operation, NEW y \in Operation
        PROVE  /\ <<x, y>> \in Seq(Operation) /\ Len(<<x, y>>) = 2
               /\ <<x, y>>[1] = x /\ <<x, y>>[2] = y
    OBVIOUS
  <1>5. /\ r \in Seq(Operation) /\ Len(r) = 2 /\ r[1] = a /\ r[2] = ToCharging
        /\ OpsOf(r) = {a, ToCharging}
    BY <1>1, <1>4, ShortOps
  <1>6. /\ ~Alone(a) /\ ~Alone(ToCharging) /\ ToCharging \notin Switches
        /\ ~Leaving(a) /\ ~Leaving(ToCharging) /\ ~Bound(ToCharging)
    BY Zenon DEF Alone, Switches, Leaving, Bound, OfExpiry, ToCharging
  <1>7. /\ a \notin ToWait /\ a # <<"setNext", "READY">> /\ a # <<"relay", "on">>
        /\ a # <<"setNext", "STANDBY">>
    <2> HIDE DEF a
    <2> QED
      BY <1>2, NamesOf DEF ToWait
  <1>8. /\ ToCharging \notin ToWait /\ ToCharging # <<"setNext", "READY">>
        /\ ToCharging # <<"relay", "on">> /\ ToCharging # <<"setNext", "STANDBY">>
    BY Zenon DEF ToCharging, ToWait
  <1> HIDE DEF a, r
  <1>9. \A i \in 1 .. Len(r) : /\ r[i] \in {a, ToCharging} /\ r[i] \notin ToWait
                               /\ r[i] \notin {<<"setNext", "STANDBY">>}
                               /\ r[i] \notin {<<"setNext", "READY">>}
                               /\ r[i] \notin {<<"relay", "on">>}
    BY <1>5, <1>7, <1>8 DEF OpsOf
  <1>10. /\ Told(r) /\ ~Begins(r, ToWait)
         /\ Before(r, {<<"setNext", "STANDBY">>}, {<<"relay", "off">>})
         /\ Before(r, {<<"setNext", "READY">>}, {<<"relay", "on">>})
         /\ Follows(r, {<<"relay", "on">>}, ToWait)
    <2>1. Len(r) = 2
      BY <1>5
    <2> QED
      BY <1>9, <2>1 DEF Told, Begins, Before, Follows
  <1>11. Follows(r, Switches, {ToCharging})
    <2> SUFFICES ASSUME NEW i \in 1 .. Len(r), r[i] \in Switches
                 PROVE  \E j \in i + 1 .. Len(r) : r[j] \in {ToCharging}
      BY DEF Follows
    <2>1. i = 1 \/ i = 2
      BY <1>5
    <2>2. i = 1
      BY <1>5, <1>6, <2>1
    <2> QED
      BY <1>5, <2>2
  <1>12. \A i \in 2 .. Len(r) : ~Bound(r[i])
    <2>1. \A i \in 2 .. Len(r) : i = 2
      BY <1>5
    <2> QED
      BY <1>5, <1>6, <2>1
  <1>13. \A op \in OpsOf(r) : ~Leaving(op) /\ op[1] # "call" /\ ~Alone(op) /\ Home("main", op)
    BY <1>2, <1>3, <1>5, <1>6
  <1>14. QueueOK("main", r)
    BY <1>10, <1>11, <1>12, <1>13 DEF QueueOK, Ordered
  <1>15. Watched(r)
    BY <1>13, NoLeaving
  <1> QED
    BY <1>5, <1>14, <1>15 DEF r, a

\* READY_State::startCharging keeps the invariant: the converter is live.
LEMMA IfMayChargeStep ==
  ASSUME VarsOK, StackOK, TodoOK, RelayOK, GatesOK, IfMayCharge
  PROVE  StackOK' /\ TodoOK' /\ RelayOK' /\ GatesOK'
  <1> DEFINE go == <<<<"ifPwmOff", "">>, ToCharging>>
  <1>1. \E ops \in {<<>>, go} :
           /\ Op("ifMayCharge") /\ Do(ops)
           /\ UNCHANGED <<state, nextState, waitFresh, relay, gates>>
    BY Zenon DEF IfMayCharge, Branch, fsm, plant, ToCharging
  <1>2. PICK ops \in {<<>>, go} :
           /\ Op("ifMayCharge") /\ Do(ops)
           /\ UNCHANGED <<state, nextState, waitFresh, relay, gates>>
    BY <1>1
  <1>3. /\ stack # <<>> /\ todo[Current] # <<>> /\ Current \in Threads
        /\ Head(todo[Current])[1] = "ifMayCharge" /\ Home(Current, <<"ifMayCharge", Arg>>)
        /\ todo' = [todo EXCEPT ![Current] = ops \o Tail(@)] /\ UNCHANGED stack
    BY <1>2, Expanded
  <1>4. <<"ifMayCharge", Arg>>[1] = "ifMayCharge"
    OBVIOUS
  <1>5. Current = "main" /\ Live /\ relay
    BY <1>3, <1>4, Zenon DEF Home, OfMain, OfRun, OfCharge
  <1>6. Branching(Head(todo[Current])) /\ Alone(Head(todo[Current]))
    BY <1>3 DEF Branching, Alone
  <1>7. go \in Seq(Operation) /\ QueueOK("main", go) /\ Watched(go)
    BY <1>5, MayChargeRoutine
  <1> HIDE DEF go
  <1>8. ops \in Seq(Operation) /\ QueueOK(Current, ops) /\ Watched(ops)
    BY <1>2, <1>5, <1>7, NothingHome
  <1> QED
    BY <1>2, <1>3, <1>6, <1>8, AloneStep

\* What has to follow follows in the second of two sequences that are joined.
LEMMA JoinAhead ==
  ASSUME NEW S, NEW p \in Seq(S), NEW q \in Seq(S), NEW N, NEW A,
         Follows(q, N, A), NEW a \in OpsOf(q), a \in A
  PROVE  Follows(p \o q, N, A)
  <1> SUFFICES ASSUME NEW i \in 1 .. Len(p \o q), (p \o q)[i] \in N
               PROVE  \E j \in i + 1 .. Len(p \o q) : (p \o q)[j] \in A
    BY DEF Follows
  <1>1. Len(p) \in Nat /\ Len(p \o q) = Len(p) + Len(q) /\ Len(q) \in Nat
    BY JoinElements
  <1>2. CASE i <= Len(p)
    <2>1. PICK k \in 1 .. Len(q) : a = q[k]
      BY DEF OpsOf
    <2>2. (p \o q)[Len(p) + k] = q[k]
      BY <2>1, JoinElements
    <2>3. Len(p) + k \in i + 1 .. Len(p \o q)
      BY <1>1, <1>2, <2>1
    <2> QED
      BY <2>1, <2>2, <2>3
  <1>3. CASE i > Len(p)
    <2>1. i - Len(p) \in 1 .. Len(q) /\ (p \o q)[i] = q[i - Len(p)]
      BY <1>1, <1>3, JoinElements
    <2>2. PICK j \in (i - Len(p)) + 1 .. Len(q) : q[j] \in A
      BY <2>1 DEF Follows
    <2>3. (p \o q)[Len(p) + j] = q[j] /\ Len(p) + j \in i + 1 .. Len(p \o q)
      BY <1>1, <2>1, <2>2, JoinElements
    <2> QED
      BY <2>2, <2>3
  <1> QED
    BY <1>1, <1>2, <1>3

\* Converter::start keeps the invariant although it may open the outputs in READY: its
\* thread has still to go to CHARGING_START.
LEMMA IfPwmOffStep ==
  ASSUME VarsOK, StackOK, TodoOK, RelayOK, GatesOK, IfPwmOff
  PROVE  StackOK' /\ TodoOK' /\ RelayOK' /\ GatesOK'
  <1> DEFINE c == Current
             q == todo[c]
  <1>1. \E ops \in {<<>>, PwmStart} :
           /\ Op("ifPwmOff") /\ Do(ops)
           /\ UNCHANGED <<state, nextState, waitFresh, relay, gates>>
    BY Zenon DEF IfPwmOff, Branch, fsm, plant
  <1>2. PICK ops \in {<<>>, PwmStart} :
           /\ Op("ifPwmOff") /\ Do(ops)
           /\ UNCHANGED <<state, nextState, waitFresh, relay, gates>>
    BY <1>1
  <1>3. /\ stack # <<>> /\ q # <<>> /\ c \in Threads
        /\ Head(q) = <<"ifPwmOff", Arg>> /\ Head(q)[1] = "ifPwmOff"
        /\ Home(c, <<"ifPwmOff", Arg>>) /\ Head(q) \in OpsOf(q)
        /\ q \in Seq(Operation) /\ QueueOK(c, q)
        /\ todo' = [todo EXCEPT ![c] = ops \o Tail(@)] /\ UNCHANGED stack
    BY <1>2, Expanded
  <1>4. <<"ifPwmOff", Arg>>[1] = "ifPwmOff" /\ <<"ifPwmOff", Arg>>[2] = Arg
    OBVIOUS
  <1>5. /\ c = "main" /\ Live /\ relay /\ Arg = ""
    BY <1>3, <1>4, Zenon DEF Home, OfMain, OfRun, OfCharge, Typed
  <1>6. Branching(Head(q)) /\ Head(q) \notin SetNexts /\ Head(q) \in Switches
    <2>1. Branching(Head(q))
      BY <1>3 DEF Branching
    <2>2. Head(q) \notin SetNexts
      BY <1>3, NamesOf
    <2>3. Head(q) \in Switches
      BY <1>3, <1>5, Zenon DEF Switches
    <2> QED
      BY <2>1, <2>2, <2>3
  <1> HIDE DEF c, q
  <1>7. ToCharging \in OpsOf(Tail(q))
    <2>1. /\ Len(q) \in Nat /\ Len(q) >= 1 /\ Head(q) = q[1] /\ Len(Tail(q)) = Len(q) - 1
          /\ \A i \in 1 .. Len(Tail(q)) : Tail(q)[i] = q[i + 1]
      BY <1>3, TailElements
    <2>2. PICK j \in 2 .. Len(q) : q[j] \in {ToCharging}
      BY <1>3, <1>6, <2>1 DEF QueueOK, Ordered, Follows
    <2>3. j - 1 \in 1 .. Len(Tail(q)) /\ Tail(q)[j - 1] = ToCharging
      BY <2>1, <2>2
    <2> QED
      BY <2>3 DEF OpsOf
  <1>8. /\ ops \in Seq(Operation) /\ Told(ops)
        /\ Before(ops, {<<"setNext", "STANDBY">>}, {<<"relay", "off">>})
        /\ Before(ops, {<<"setNext", "READY">>}, {<<"relay", "on">>})
        /\ Follows(ops, {<<"relay", "on">>}, ToWait)
        /\ ~Begins(ops, ToWait)
        /\ \A i \in 2 .. Len(ops) : ~Bound(ops[i])
        /\ \A op \in OpsOf(ops) : /\ Home(c, op) /\ ~Alone(op) /\ ~Leaving(op)
                                  /\ op[1] # "call"
    <2> DEFINE a == <<"pwmOn", "">>
               b == <<"clearTrip", "">>
    <2>1. PwmStart = <<a, b>>
      BY DEF PwmStart
    <2>2. a \in Operation /\ b \in Operation
      BY Pairs DEF Names, Arguments
    <2>3. a[1] = "pwmOn" /\ b[1] = "clearTrip"
      OBVIOUS
    <2>4. Home("main", a) /\ Home("main", b)
      BY Zenon DEF Home, Typed, OfMain, OfPwm, OfRun, OfCharge, OfExpiry
    <2> HIDE DEF a, b
    <2>5. ASSUME NEW op, op \in {a, b}
          PROVE  /\ op[1] \in {"pwmOn", "clearTrip"}
                 /\ op \notin ToWait /\ op # <<"setNext", "STANDBY">>
                 /\ op # <<"setNext", "READY">> /\ op # <<"relay", "on">>
                 /\ op \notin {<<"relay", "off">>} /\ op # <<"goTo", "STARTUP">>
      <3>1. op[1] \in {"pwmOn", "clearTrip"}
        BY <2>3, <2>5
      <3>2. <<"goTo", "STARTUP">>[1] = "goTo"
        OBVIOUS
      <3> QED
        BY <3>1, <3>2, NamesOf DEF ToWait
    <2>6. ASSUME NEW op, op \in {a, b}
          PROVE  ~Alone(op) /\ ~Leaving(op) /\ ~Bound(op) /\ op[1] # "call"
      <3>1. <<"call", "startCharging">>[1] = "call" /\ <<"call", "run">>[1] = "call"
        OBVIOUS
      <3> QED
        BY <2>5, <2>6, <3>1 DEF Alone, Leaving, Bound, OfExpiry
    <2>7. ops \in Seq(Operation) /\ \A i \in 1 .. Len(ops) : ops[i] \in {a, b}
      <3>1. ASSUME NEW x \in Operation, NEW y \in Operation
            PROVE  /\ <<x, y>> \in Seq(Operation)
                   /\ \A i \in 1 .. Len(<<x, y>>) : <<x, y>>[i] \in {x, y}
        OBVIOUS
      <3>2. <<>> \in Seq(Operation) /\ \A i \in 1 .. Len(<<>>) : <<>>[i] \in {a, b}
        BY EmptySeq
      <3> QED
        BY <1>2, <2>1, <2>2, <3>1, <3>2
    <2>8. OpsOf(ops) \subseteq {a, b}
      BY <2>7 DEF OpsOf
    <2>9. Len(ops) \in Nat
      BY <2>7
    <2>10. /\ \A i \in 1 .. Len(ops) : /\ ops[i] \notin ToWait /\ ~Bound(ops[i])
                                       /\ ops[i] \notin {<<"setNext", "STANDBY">>}
                                       /\ ops[i] \notin {<<"setNext", "READY">>}
                                       /\ ops[i] \notin {<<"relay", "on">>}
      BY <2>5, <2>6, <2>7
    <2>11. /\ Told(ops) /\ ~Begins(ops, ToWait)
           /\ Before(ops, {<<"setNext", "STANDBY">>}, {<<"relay", "off">>})
           /\ Before(ops, {<<"setNext", "READY">>}, {<<"relay", "on">>})
           /\ Follows(ops, {<<"relay", "on">>}, ToWait)
           /\ \A i \in 2 .. Len(ops) : ~Bound(ops[i])
      BY <2>9, <2>10 DEF Told, Begins, Before, Follows
    <2>12. \A op \in OpsOf(ops) : /\ Home(c, op) /\ ~Alone(op) /\ ~Leaving(op)
                                  /\ op[1] # "call"
      BY <1>5, <2>4, <2>6, <2>8
    <2> QED
      BY <2>7, <2>11, <2>12
  <1>9. /\ Tail(q) \in Seq(Operation) /\ ops \o Tail(q) \in Seq(Operation)
    BY <1>3, <1>8, TailElements, ReplacedOps
  <1>10. /\ Told(Tail(q)) /\ ~Begins(Tail(q), ToWait)
         /\ Before(Tail(q), {<<"setNext", "STANDBY">>}, {<<"relay", "off">>}) \/ ~relay
         /\ Before(Tail(q), {<<"setNext", "READY">>}, {<<"relay", "on">>}) \/ relay
         /\ Follows(Tail(q), {<<"relay", "on">>}, ToWait)
         /\ Follows(Tail(q), Switches, {ToCharging})
         /\ \A op \in OpsOf(Tail(q)) : ~Alone(op)
         /\ \A i \in 2 .. Len(Tail(q)) : ~Bound(Tail(q)[i])
         /\ q \notin BoundRoutines => \A op \in OpsOf(Tail(q)) : ~Bound(op)
         /\ ToCharging \in OpsOf(q) =>
              \A op \in OpsOf(Tail(q)) : ~Leaving(op) /\ op[1] # "call"
         /\ OpsOf(Tail(q)) \subseteq OpsOf(q)
    <2>1. Head(q) # <<"relay", "off">> /\ Head(q) # <<"relay", "on">>
      BY <1>3, NamesOf
    <2> QED
      BY <1>3, <1>6, <2>1, TailOrdered DEF QueueOK
  <1>11. q \notin BoundRoutines
    <2>1. /\ <<"signal", "start">>[1] = "signal" /\ <<"relay", "off">>[1] = "relay"
          /\ <<"resetErrors", "">>[1] = "resetErrors"
      OBVIOUS
    <2>2. Head(q)[1] \notin {"signal", "resetErrors", "relay"}
      BY <1>3
    <2> QED
      BY <2>1, <2>2, BoundRoutinesBegin
  <1> DEFINE r == ops \o Tail(q)
  <1>12. OpsOf(r) \subseteq OpsOf(ops) \union OpsOf(Tail(q))
    <2> SUFFICES ASSUME NEW i \in 1 .. Len(r)
                 PROVE  r[i] \in OpsOf(ops) \union OpsOf(Tail(q))
      BY DEF OpsOf
    <2>1. /\ Len(ops) \in Nat
          /\ i > Len(ops) => i - Len(ops) \in 1 .. Len(Tail(q)) /\ r[i] = Tail(q)[i - Len(ops)]
          /\ i <= Len(ops) => r[i] = ops[i] /\ i \in 1 .. Len(ops)
      BY <1>8, <1>9, JoinElements
    <2> HIDE DEF r
    <2>2. CASE i > Len(ops)
      BY <2>1, <2>2 DEF OpsOf
    <2>3. CASE i <= Len(ops)
      BY <2>1, <2>3 DEF OpsOf
    <2> QED
      BY <2>1, <2>2, <2>3
  <1>13. Told(r) /\ ~Begins(r, ToWait)
    BY <1>8, <1>9, <1>10, ToldJoin
  <1>14. /\ Before(r, {<<"setNext", "STANDBY">>}, {<<"relay", "off">>}) \/ ~relay
         /\ Before(r, {<<"setNext", "READY">>}, {<<"relay", "on">>}) \/ relay
    BY <1>8, <1>9, <1>10, JoinBefore
  <1>15. Follows(r, {<<"relay", "on">>}, ToWait) /\ Follows(r, Switches, {ToCharging})
    BY <1>7, <1>8, <1>9, <1>10, JoinFollows, JoinAhead
  <1>16. \A i \in 2 .. Len(r) : ~Bound(r[i])
    BY <1>3, <1>8, <1>11, LaterNotBound DEF QueueOK, Ordered
  <1> HIDE DEF r
  <1>17. \A op \in OpsOf(r) : ~Leaving(op) /\ op[1] # "call" /\ ~Alone(op)
    BY <1>7, <1>8, <1>10, <1>12
  <1>18. Ordered(c, r)
    BY <1>13, <1>14, <1>15, <1>16, <1>17 DEF Ordered
  <1>19. Watched(ops)
    BY <1>8, NoLeaving
  <1>20. \A op \in OpsOf(ops) : Home(Current, op)
    BY <1>8 DEF c
  <1>21. Ordered(Current, ops \o Tail(todo[Current]))
    BY <1>18 DEF r, q, c
  <1>22. /\ stack # <<>> /\ todo[Current] # <<>> /\ Branching(Head(todo[Current]))
         /\ todo' = [todo EXCEPT ![Current] = ops \o Tail(@)]
    BY <1>3, <1>6 DEF q, c
  <1>23. ops \in Seq(Operation)
    BY <1>8
  <1> QED
    BY <1>2, <1>3, <1>19, <1>20, <1>21, <1>22, <1>23, BranchStep

\* When the cells run the relay is closed before WAIT is told to lead to READY; all of
\* it is at home in the thread of the PWM event.
LEMMA RunningRoutine ==
  ASSUME Live
  PROVE  LET ops == <<<<"unmask", "">>, <<"relay", "on">>>> \o GoAfterWait("READY")
         IN  Plain(ops) /\ \A op \in OpsOf(ops) : Home("pwm", op)
  <1> DEFINE a == <<"unmask", "">>
             b == <<"relay", "on">>
             p == <<a, b>>
             g == GoAfterWait("READY")
             set == <<"setNext", "READY">>
             wait == <<"goTo", "WAIT">>
             r == p \o g
  <1>1. a \in Operation /\ b \in Operation /\ Ordinary(a) /\ ~Bound(a)
    <2>1. "unmask" \in Names /\ "" \in Arguments /\ "relay" \in Names /\ "on" \in Arguments
      BY DEF Names, Arguments
    <2> QED
      BY <2>1, Pairs, OrdinaryOp, Zenon
  <1>2. a[1] = "unmask" /\ b[1] = "relay" /\ set[1] = "setNext" /\ wait[1] = "goTo"
    OBVIOUS
  <1>3. /\ Home("pwm", a) /\ Home("pwm", b) /\ Home("pwm", set) /\ Home("pwm", wait)
    BY Zenon DEF Home, Typed, OfMain, OfPwm, OfRun, OfCharge, OfExpiry, States
  <1>4. g \in Seq(Operation) /\ Len(g) = 2 /\ g[1] = set /\ g[2] = wait
    BY GoAfterWaitIs
  <1>5. /\ ~Bound(b) /\ ~Bound(set) /\ ~Bound(wait)
        /\ ~Alone(b) /\ ~Alone(set) /\ ~Alone(wait)
        /\ b \notin Switches /\ set \notin Switches /\ wait \notin Switches
    BY Zenon DEF Bound, OfExpiry, Alone, Switches
  <1>6. /\ wait # ToCharging /\ set # <<"setNext", "STANDBY">> /\ set \in SetNexts
        /\ wait \in ToWait
    BY DEF ToCharging, SetNexts, ToWait
  <1>7. b = <<"relay", "on">> /\ set = <<"setNext", "READY">> /\ ToWait = {wait}
    BY DEF ToWait
  <1> HIDE DEF a, b, set, wait, g
  <1>8. ASSUME NEW x \in Operation, NEW y \in Operation
        PROVE  /\ <<x, y>> \in Seq(Operation) /\ Len(<<x, y>>) = 2
               /\ <<x, y>>[1] = x /\ <<x, y>>[2] = y
    OBVIOUS
  <1>9. p \in Seq(Operation) /\ Len(p) = 2 /\ p[1] = a /\ p[2] = b
    BY <1>1, <1>8
  <1>10. ASSUME NEW s \in Seq(Operation), NEW t \in Seq(Operation)
         PROVE  /\ s \o t \in Seq(Operation) /\ Len(s \o t) = Len(s) + Len(t)
                /\ \A i \in 1 .. Len(s) : (s \o t)[i] = s[i]
                /\ \A i \in 1 .. Len(t) : (s \o t)[Len(s) + i] = t[i]
    BY JoinElements
  <1> HIDE DEF p
  <1>11. /\ r \in Seq(Operation) /\ Len(r) = Len(p) + Len(g)
         /\ \A i \in 1 .. Len(p) : r[i] = p[i]
         /\ \A i \in 1 .. Len(g) : r[Len(p) + i] = g[i]
    BY <1>4, <1>9, <1>10, Zenon
  <1> HIDE DEF r
  <1>12. Len(r) = 4 /\ r[1] = a /\ r[2] = b /\ r[3] = set /\ r[4] = wait
    BY <1>4, <1>9, <1>11
  <1>13. \A i \in 1 .. 4 : i = 1 \/ i = 2 \/ i = 3 \/ i = 4
    OBVIOUS
  <1>14. OpsOf(r) \subseteq {a, b, set, wait}
    BY <1>12, <1>13 DEF OpsOf
  <1>15. /\ a \notin ToWait /\ b \notin ToWait /\ set \notin ToWait
         /\ a # set /\ b # set /\ wait # set /\ a # b /\ set # b /\ wait # b
    BY <1>2, <1>7
  <1>16. Told(r) /\ ~Begins(r, ToWait)
    <2>1. \A i \in 2 .. 4 : r[i] \in ToWait => i = 4
      BY <1>12, <1>13, <1>15
    <2> QED
      BY <1>6, <1>12, <1>15, <2>1 DEF Told, Begins
  <1>17. Before(r, {<<"setNext", "READY">>}, {<<"relay", "on">>})
    <2>1. \A i \in 1 .. 4 : r[i] = set => i = 3
      BY <1>12, <1>13, <1>15
    <2>2. Before(r, {set}, {b})
      BY <1>12, <2>1 DEF Before
    <2> QED
      BY <1>7, <2>2
  <1>18. Follows(r, {<<"relay", "on">>}, ToWait)
    <2>1. \A i \in 1 .. 4 : r[i] = b => i = 2
      BY <1>12, <1>13, <1>15
    <2>2. Follows(r, {b}, ToWait)
      BY <1>6, <1>12, <2>1 DEF Follows
    <2> QED
      BY <1>7, <2>2
  <1>19. \A op \in OpsOf(r) : /\ ~Alone(op) /\ op \notin Switches /\ op # ToCharging
                              /\ op # <<"setNext", "STANDBY">>
    <2>1. /\ a # <<"setNext", "STANDBY">> /\ b # <<"setNext", "STANDBY">>
          /\ wait # <<"setNext", "STANDBY">> /\ b # ToCharging /\ set # ToCharging
      BY <1>2, NamesOf
    <2> QED
      BY <1>1, <1>5, <1>6, <1>14, <2>1 DEF Ordinary
  <1>20. \A i \in 2 .. Len(r) : ~Bound(r[i])
    BY <1>5, <1>12, <1>13
  <1>21. Plain(r)
    BY <1>11, <1>16, <1>17, <1>18, <1>19, <1>20 DEF Plain
  <1>22. \A op \in OpsOf(r) : Home("pwm", op)
    BY <1>3, <1>14
  <1> QED
    BY <1>21, <1>22, Zenon DEF r, p, g, a, b

\* STARTUP_State::run keeps the invariant whether the cells are late or not.
LEMMA IfLateStep ==
  ASSUME VarsOK, StackOK, TodoOK, RelayOK, GatesOK, IfLate
  PROVE  StackOK' /\ TodoOK' /\ RelayOK' /\ GatesOK'
  <1> DEFINE unmask == <<<<"unmask", "">>>>
  <1>1. \E ops \in {<<>>, unmask} :
           /\ Op("ifLate") /\ Do(ops)
           /\ UNCHANGED <<state, nextState, waitFresh, relay, gates>>
    BY Zenon DEF IfLate, Branch, fsm, plant
  <1>2. PICK ops \in {<<>>, unmask} :
           /\ Op("ifLate") /\ Do(ops)
           /\ UNCHANGED <<state, nextState, waitFresh, relay, gates>>
    BY <1>1
  <1>3. /\ stack # <<>> /\ todo[Current] # <<>> /\ Current \in Threads
        /\ Head(todo[Current])[1] = "ifLate" /\ Home(Current, <<"ifLate", Arg>>)
        /\ todo' = [todo EXCEPT ![Current] = ops \o Tail(@)] /\ UNCHANGED stack
    BY <1>2, Expanded
  <1>4. <<"ifLate", Arg>>[1] = "ifLate"
    OBVIOUS
  <1>5. Current = "pwm"
    BY <1>3, <1>4, Zenon DEF Home, OfPwm
  <1>6. Branching(Head(todo[Current]))
    BY <1>3 DEF Branching
  <1>7. Plain(unmask) /\ Watched(unmask) /\ \A op \in OpsOf(unmask) : Home(Current, op)
    <2> DEFINE a == <<"unmask", "">>
    <2>1. "unmask" \in Names /\ "" \in Arguments
      BY DEF Names, Arguments
    <2>2. Ordinary(a) /\ ~Bound(a) /\ ~Leaving(a)
      BY <2>1, OrdinaryOp, Zenon DEF Leaving
    <2>3. Home(Current, a)
      BY FreeHome
    <2> HIDE DEF a
    <2>4. OpsOf(<<a>>) = {a} /\ Plain(<<a>>)
      BY <2>2, ShortOps, PlainShort
    <2>5. Watched(<<a>>)
      BY <2>2, <2>4, NoLeaving
    <2> QED
      BY <2>3, <2>4, <2>5 DEF a
  <1> HIDE DEF unmask
  <1>8. Plain(ops) /\ Watched(ops) /\ \A op \in OpsOf(ops) : Home(Current, op)
    BY <1>2, <1>7, NothingHome
  <1> QED
    BY <1>2, <1>3, <1>5, <1>6, <1>8, PlainStep

\* STARTUP_State::run keeps the invariant whether the fuel cells run, the launch is
\* overdue, or neither.
LEMMA IfRunningStep ==
  ASSUME VarsOK, StackOK, TodoOK, RelayOK, GatesOK, IfRunning
  PROVE  StackOK' /\ TodoOK' /\ RelayOK' /\ GatesOK'
  <1> DEFINE run == <<<<"unmask", "">>, <<"relay", "on">>>> \o GoAfterWait("READY")
             overdue == <<<<"setError", "OTHER">>>>
  <1>1. \E ops \in {<<>>, run, overdue} :
           /\ Op("ifRunning") /\ Do(ops)
           /\ UNCHANGED <<state, nextState, waitFresh, relay, gates>>
    BY Zenon DEF IfRunning, Branch, fsm, plant
  <1>2. PICK ops \in {<<>>, run, overdue} :
           /\ Op("ifRunning") /\ Do(ops)
           /\ UNCHANGED <<state, nextState, waitFresh, relay, gates>>
    BY <1>1
  <1>3. /\ stack # <<>> /\ todo[Current] # <<>> /\ Current \in Threads
        /\ Head(todo[Current])[1] = "ifRunning" /\ Home(Current, <<"ifRunning", Arg>>)
        /\ todo[Current] \in Seq(Operation)
        /\ todo' = [todo EXCEPT ![Current] = ops \o Tail(@)] /\ UNCHANGED stack
    BY <1>2, Expanded
  <1>4. <<"ifRunning", Arg>>[1] = "ifRunning"
    OBVIOUS
  <1>5. Current = "pwm" /\ Live
    BY <1>3, <1>4, Zenon DEF Home, OfPwm, OfRun
  <1>6. Branching(Head(todo[Current])) /\ Leaving(Head(todo[Current]))
    BY <1>3 DEF Branching, Leaving
  <1>7. ~Watched(todo[Current])
    BY <1>3, <1>6, LeavingHead
  <1>8. Plain(run) /\ \A op \in OpsOf(run) : Home(Current, op)
    BY <1>5, RunningRoutine, Zenon
  <1>9. Plain(overdue) /\ \A op \in OpsOf(overdue) : Home(Current, op)
    <2> DEFINE a == <<"setError", "OTHER">>
    <2>1. "setError" \in Names /\ "OTHER" \in Arguments
      BY DEF Names, Arguments
    <2>2. Ordinary(a) /\ ~Bound(a)
      BY <2>1, OrdinaryOp, Zenon
    <2>3. Home(Current, a)
      BY FreeHome
    <2> HIDE DEF a
    <2>4. OpsOf(<<a>>) = {a} /\ Plain(<<a>>)
      BY <2>2, ShortOps, PlainShort
    <2> QED
      BY <2>3, <2>4 DEF a
  <1> HIDE DEF run, overdue
  <1>10. Plain(ops) /\ \A op \in OpsOf(ops) : Home(Current, op)
    BY <1>2, <1>8, <1>9, NothingHome
  <1> QED
    BY <1>2, <1>3, <1>5, <1>6, <1>7, <1>10, PlainStep

\* run() shuts down through its own state object: as long as the thread is under
\* way, the outputs are blocked before that object is left.
LEMMA IfErrorsStep ==
  ASSUME VarsOK, StackOK, TodoOK, RelayOK, GatesOK, IfErrors
  PROVE  StackOK' /\ TodoOK' /\ RelayOK' /\ GatesOK'
  <1>1. \E ops \in {<<>>, ShutdownOf(Arg)} :
           /\ Op("ifErrors") /\ Do(ops)
           /\ UNCHANGED <<state, nextState, waitFresh, relay, gates>>
    BY Zenon DEF IfErrors, Branch, fsm, plant
  <1>2. PICK ops \in {<<>>, ShutdownOf(Arg)} :
           /\ Op("ifErrors") /\ Do(ops)
           /\ UNCHANGED <<state, nextState, waitFresh, relay, gates>>
    BY <1>1
  <1>3. /\ stack # <<>> /\ todo[Current] # <<>> /\ Current \in Threads
        /\ Head(todo[Current]) = <<"ifErrors", Arg>>
        /\ Head(todo[Current])[1] = "ifErrors" /\ Home(Current, <<"ifErrors", Arg>>)
        /\ todo[Current] \in Seq(Operation)
        /\ todo' = [todo EXCEPT ![Current] = ops \o Tail(@)] /\ UNCHANGED stack
    BY <1>2, Expanded
  <1>4. <<"ifErrors", Arg>>[1] = "ifErrors" /\ <<"ifErrors", Arg>>[2] = Arg
    OBVIOUS
  <1>5. Current = "pwm" /\ Arg \in States /\ (Arg # "WAIT" => Live)
    BY <1>3, <1>4, Zenon DEF Home, OfPwm, OfRun, Typed
  <1>6. Branching(Head(todo[Current]))
    BY <1>3 DEF Branching
  <1>7. /\ Plain(ShutdownOf(Arg))
        /\ \A op \in OpsOf(ShutdownOf(Arg)) : Home(Current, op)
        /\ Arg \in {"CHARGING_START", "CHARGING"} => Watched(ShutdownOf(Arg))
    BY <1>5, ShutdownHome
  <1>8. Watched(todo[Current]) => Arg \in {"CHARGING_START", "CHARGING"}
    <2> SUFFICES ASSUME Arg \notin {"CHARGING_START", "CHARGING"}
                 PROVE  ~Watched(todo[Current])
      OBVIOUS
    <2>1. Leaving(Head(todo[Current]))
      BY <1>3, <1>4 DEF Leaving
    <2> QED
      BY <1>3, <2>1, LeavingHead
  <1>9. /\ Plain(ops) /\ \A op \in OpsOf(ops) : Home(Current, op)
        /\ Watched(todo[Current]) => Watched(ops)
    BY <1>2, <1>7, <1>8, NothingHome
  <1> QED
    BY <1>2, <1>3, <1>5, <1>6, <1>9, PlainStep

\* WAIT_State::run keeps the invariant: it leaves WAIT for the state it was told, and not
\* under a handler that was running when the wait began.
LEMMA IfExpiredStep ==
  ASSUME VarsOK, StackOK, TodoOK, RelayOK, GatesOK, IfExpired
  PROVE  StackOK' /\ TodoOK' /\ RelayOK' /\ GatesOK'
  <1> DEFINE go == <<<<"goTo", nextState>>>>
  <1>1. \E ops \in {<<>>, go} :
           /\ Op("ifExpired") /\ Do(ops) /\ (ops = <<>> \/ ~waitFresh)
           /\ UNCHANGED <<state, nextState, waitFresh, relay, gates>>
    BY Zenon DEF IfExpired, Branch, fsm, plant
  <1>2. PICK ops \in {<<>>, go} :
           /\ Op("ifExpired") /\ Do(ops) /\ (ops = <<>> \/ ~waitFresh)
           /\ UNCHANGED <<state, nextState, waitFresh, relay, gates>>
    BY <1>1
  <1>3. /\ stack # <<>> /\ todo[Current] # <<>> /\ Current \in Threads
        /\ Head(todo[Current])[1] = "ifExpired" /\ Home(Current, <<"ifExpired", Arg>>)
        /\ todo' = [todo EXCEPT ![Current] = ops \o Tail(@)] /\ UNCHANGED stack
    BY <1>2, Expanded
  <1>4. <<"ifExpired", Arg>>[1] = "ifExpired"
    OBVIOUS
  <1>5. Current = "pwm" /\ state = "WAIT"
    BY <1>3, <1>4, Zenon DEF Home, OfPwm
  <1>6. Branching(Head(todo[Current]))
    BY <1>3 DEF Branching
  <1>7. nextState \in {"STANDBY", "READY", "SHUTDOWN"}
    BY DEF VarsOK
  <1>8. ~waitFresh => Plain(go) /\ \A op \in OpsOf(go) : Home(Current, op)
    <2> SUFFICES ASSUME ~waitFresh
                 PROVE  Plain(go) /\ \A op \in OpsOf(go) : Home(Current, op)
      OBVIOUS
    <2> DEFINE a == <<"goTo", nextState>>
    <2>1. a[1] = "goTo" /\ a[2] = nextState
      OBVIOUS
    <2>2. "goTo" \in Names /\ nextState \in Arguments /\ nextState \in States
      BY <1>7 DEF Names, Arguments, States
    <2>3. a \in Operation
      BY <2>2, Pairs
    <2>4. a # ToCharging /\ a # <<"goTo", "WAIT">>
      BY <1>7 DEF ToCharging
    <2>5. /\ ~Alone(a) /\ a \notin Switches /\ a # <<"relay", "on">>
      BY <1>7, Zenon DEF Alone, Switches
    <2>6. Home(Current, a)
      BY <1>5, <1>7, <2>1, <2>2, Zenon DEF Home, Typed, OfMain, OfPwm, OfRun, OfCharge, OfExpiry
    <2> HIDE DEF a
    <2>7. Ordinary(a)
      BY <2>1, <2>3, <2>4, <2>5 DEF Ordinary
    <2>8. <<a>> \in Seq(Operation) /\ Len(<<a>>) = 1 /\ OpsOf(<<a>>) = {a}
      <3>1. ASSUME NEW x \in Operation PROVE <<x>> \in Seq(Operation) /\ Len(<<x>>) = 1
        OBVIOUS
      <3> QED
        BY <2>3, <3>1, ShortOps
    <2>9. Plain(<<a>>)
      <3>1. \A i \in 2 .. Len(<<a>>) : ~Bound(<<a>>[i])
        BY <2>8
      <3> QED
        BY <2>7, <2>8, <3>1, PlainOrdinary
    <2> QED
      BY <2>6, <2>8, <2>9 DEF a
  <1> HIDE DEF go
  <1>9. Plain(ops) /\ \A op \in OpsOf(ops) : Home(Current, op)
    BY <1>2, <1>8, NothingHome
  <1>10. ~(state \in {"CHARGING_START", "CHARGING"})
    BY <1>5
  <1> QED
    BY <1>2, <1>3, <1>5, <1>6, <1>9, <1>10, PlainStep

\* CHARGING_START_State::run, after its look at the errors, keeps the invariant: it goes
\* nowhere but to CHARGING.
LEMMA RampStepDone ==
  ASSUME VarsOK, StackOK, TodoOK, RelayOK, GatesOK, RampStep
  PROVE  StackOK' /\ TodoOK' /\ RelayOK' /\ GatesOK'
  <1> DEFINE go == <<<<"resetRamp", "">>, <<"goTo", "CHARGING">>>>
  <1>1. \E ops \in {<<>>, go} :
           /\ Op("ramp") /\ Do(ops)
           /\ UNCHANGED <<state, nextState, waitFresh, relay, gates>>
    BY Zenon DEF RampStep, fsm
  <1>2. PICK ops \in {<<>>, go} :
           /\ Op("ramp") /\ Do(ops)
           /\ UNCHANGED <<state, nextState, waitFresh, relay, gates>>
    BY <1>1
  <1>3. /\ stack # <<>> /\ todo[Current] # <<>> /\ Current \in Threads
        /\ Head(todo[Current])[1] = "ramp" /\ Home(Current, <<"ramp", Arg>>)
        /\ todo' = [todo EXCEPT ![Current] = ops \o Tail(@)] /\ UNCHANGED stack
    BY <1>2, Expanded
  <1>4. <<"ramp", Arg>>[1] = "ramp"
    OBVIOUS
  <1>5. Current = "pwm" /\ Live /\ relay
    BY <1>3, <1>4, Zenon DEF Home, OfPwm, OfRun, OfCharge
  <1>6. Branching(Head(todo[Current]))
    BY <1>3 DEF Branching
  <1>7. Plain(go) /\ Watched(go) /\ \A op \in OpsOf(go) : Home(Current, op)
    <2> DEFINE a == <<"resetRamp", "">>
               b == <<"goTo", "CHARGING">>
    <2>1. /\ "resetRamp" \in Names /\ "" \in Arguments
          /\ "goTo" \in Names /\ "CHARGING" \in Arguments
      BY DEF Names, Arguments, States
    <2>2. Ordinary(a) /\ ~Bound(a) /\ ~Leaving(a)
      BY <2>1, OrdinaryOp, Zenon DEF Leaving
    <2>3. b \in Operation
      BY <2>1, Pairs
    <2>4. ~Bound(b) /\ ~Leaving(b) /\ ~Alone(b) /\ b \notin Switches
      BY Zenon DEF Bound, OfExpiry, Leaving, Alone, Switches
    <2>5. b[1] = "goTo" /\ b # ToCharging /\ b # <<"goTo", "WAIT">>
      BY DEF ToCharging
    <2>6. Home(Current, a) /\ Home(Current, b)
      <3>1. Home(Current, a)
        BY FreeHome
      <3>2. Home(Current, b)
        BY <1>5, Zenon DEF Home, Typed, OfMain, OfPwm, OfRun, OfCharge, OfExpiry, States
      <3> QED
        BY <3>1, <3>2
    <2> HIDE DEF a, b
    <2>7. Ordinary(b)
      BY <2>3, <2>4, <2>5, NamesOf DEF Ordinary
    <2>8. Plain(<<a, b>>) /\ OpsOf(<<a, b>>) = {a, b}
      BY <2>2, <2>4, <2>7, PlainShort, ShortOps
    <2>9. Watched(<<a, b>>)
      BY <2>2, <2>4, <2>8, NoLeaving
    <2> QED
      BY <2>6, <2>8, <2>9 DEF a, b
  <1> HIDE DEF go
  <1>8. Plain(ops) /\ Watched(ops) /\ \A op \in OpsOf(ops) : Home(Current, op)
    BY <1>2, <1>7, NothingHome
  <1> QED
    BY <1>2, <1>3, <1>5, <1>6, <1>8, PlainStep

-----------------------------------------------------------------------------
(* The steps that leave the state, the wait and the relay alone.           *)

\* The same queues under the same circumstances keep the invariant; with all queues empty
\* the wait may become old.
LEMMA SameKeeps ==
  ASSUME StackOK', TodoOK, RelayOK, GatesOK,
         UNCHANGED <<todo, state, nextState, relay, gates>>,
         \/ waitFresh' = waitFresh
         \/ waitFresh' = FALSE /\ \A t \in Threads : todo[t] = <<>>
  PROVE  TodoOK' /\ RelayOK' /\ GatesOK'
  <1>1. TodoOK'
    <2>1. ASSUME NEW t \in Threads, NEW u, u = todo'[t] PROVE QueueOK(t, u)'
      <3>1. u = todo[t] /\ QueueOK(t, u)
        BY <2>1 DEF TodoOK
      <3>2. CASE waitFresh' = waitFresh
        BY <3>1, <3>2, SameSituation
      <3>3. CASE waitFresh' = FALSE /\ \A s \in Threads : todo[s] = <<>>
        BY <3>1, <3>3, EmptyOK
      <3> QED
        BY <3>2, <3>3
    <2>2. todo' \in [Threads -> Seq(Operation)]
      BY DEF TodoOK
    <2> QED
      BY <2>1, <2>2 DEF TodoOK
  <1>2. RelayOK'
    BY DEF RelayOK
  <1>3. GatesOK'
    BY DEF GatesOK
  <1> QED
    BY <1>1, <1>2, <1>3

\* The critical sections, the signals to the fuel cells and the writes to the PWM registers
\* keep the invariant.
LEMMA QuietSteps ==
  ASSUME StackOK, TodoOK, RelayOK, GatesOK,
         Mask \/ Unmask \/ SetError \/ ResetErrors \/ Warning \/ Signal \/ Drive
  PROVE  StackOK' /\ TodoOK' /\ RelayOK' /\ GatesOK'
  <1>1. ASSUME NEW n, Op(n), n \notin {"goTo", "setNext", "relay"},
               Do(<<>>) \/ DoCritical,
               UNCHANGED <<state, nextState, waitFresh, relay>>,
               \/ gates' = gates /\ n # "forceTrip"
               \/ gates' = FALSE
               \/ n = "clearTrip"
        PROVE  StackOK' /\ TodoOK' /\ RelayOK' /\ GatesOK'
    <2>1. stack # <<>> /\ todo[Current] # <<>> /\ Head(todo[Current])[1] = n
      BY <1>1, Reached
    <2>2. UNCHANGED stack
      BY <1>1 DEF Do, DoCritical
    <2>3. \/ todo' = [todo EXCEPT ![Current] = <<>> \o Tail(@)]
          \/ todo' = [todo EXCEPT ![Current] = Tail(@)]
      BY <1>1, Zenon DEF Do, DoCritical
    <2> QED
      BY <1>1, <2>1, <2>2, <2>3, QuietStep
  <1>2. CASE Mask
    BY <1>1, <1>2 DEF Mask, fsm, plant
  <1>3. CASE Unmask
    BY <1>1, <1>3 DEF Unmask, fsm, plant
  <1>4. CASE SetError
    BY <1>1, <1>4 DEF SetError, fsm, plant
  <1>5. CASE ResetErrors
    BY <1>1, <1>5 DEF ResetErrors, fsm, plant
  <1>6. CASE Warning
    BY <1>1, <1>6 DEF Warning, fsm, plant
  <1>7. CASE Signal
    BY <1>1, <1>7 DEF Signal, fsm
  <1>8. CASE Drive
    <2>1. Do(<<>>) /\ UNCHANGED <<state, nextState, waitFresh, relay>>
      BY <1>8 DEF Drive, fsm
    <2>2. \/ Op("pwmOn") /\ gates' = gates
          \/ Op("pwmOff") /\ gates' = gates
          \/ Op("clearTrip")
          \/ Op("forceTrip") /\ gates' = FALSE
          \/ Op("resetRamp") /\ gates' = gates
      BY <1>8 DEF Drive
    <2> QED
      BY <1>1, <2>1, <2>2
  <1> QED
    BY <1>2, <1>3, <1>4, <1>5, <1>6, <1>7, <1>8

\* A handler that returns had nothing left to do; with the last one every wait that was
\* begun is no longer fresh, and nobody is left who relied on it.
LEMMA ReturnStep ==
  ASSUME VarsOK, StackOK, TodoOK, RelayOK, GatesOK, Return
  PROVE  StackOK' /\ TodoOK' /\ RelayOK' /\ GatesOK'
  <1> DEFINE n == Len(stack)
  <1>1. /\ stack # <<>> /\ todo[Current] = <<>>
        /\ stack' = SubSeq(stack, 1, n - 1)
        /\ waitFresh' = (waitFresh /\ n > 1)
        /\ UNCHANGED <<state, nextState, todo, relay, gates>>
    BY DEF Return, plant
  <1>2. n \in Nat /\ n >= 1 /\ n <= 3 /\ stack \in Seq(Threads) /\ Current = stack[n]
    BY <1>1, Running DEF StackOK
  <1> HIDE DEF n
  <1>3. /\ stack' \in Seq(Threads) /\ Len(stack') = n - 1
        /\ \A i \in 1 .. n - 1 : stack'[i] = stack[i]
    <2>1. SubSeq(stack, 1, n - 1) \in Seq(Threads)
      BY <1>2, SubSeqProperties DEF n
    <2>2. Len(SubSeq(stack, 1, n - 1)) = n - 1
      <3>1. Len(SubSeq(stack, 1, n - 1)) = IF 1 <= n - 1 THEN (n - 1) - 1 + 1 ELSE 0
        BY <1>2, SubSeqProperties DEF n
      <3> QED
        BY <1>2, <3>1
    <2>3. \A i \in 1 .. n - 1 : SubSeq(stack, 1, n - 1)[i] = stack[i]
      BY <1>2, SubSeqProperties DEF n
    <2> QED
      BY <1>1, <2>1, <2>2, <2>3
  <1>4. StackOK'
    <2>1. ASSUME NEW t \in Threads, todo'[t] # <<>>
          PROVE  \E i \in 1 .. Len(stack') : stack'[i] = t
      <3>1. PICK i \in 1 .. n : stack[i] = t
        BY <1>1, <2>1 DEF StackOK, n
      <3>2. i # n
        BY <1>1, <1>2, <2>1, <3>1
      <3>3. i \in 1 .. n - 1
        BY <1>2, <3>1, <3>2
      <3> QED
        BY <1>3, <3>1, <3>3
    <2>2. \A i, j \in 1 .. Len(stack') : stack'[i] = stack'[j] => i = j
      <3>1. \A i, j \in 1 .. n : stack[i] = stack[j] => i = j
        BY DEF StackOK, n
      <3> QED
        BY <1>2, <1>3, <3>1
    <2>3. \A i \in 1 .. Len(stack') : stack'[i] = "main" => i = 1
      <3>1. \A i \in 1 .. n : stack[i] = "main" => i = 1
        BY DEF StackOK, n
      <3> QED
        BY <1>2, <1>3, <3>1
    <2>4. Len(stack') <= 3
      BY <1>2, <1>3
    <2> QED
      BY <1>3, <2>1, <2>2, <2>3, <2>4 DEF StackOK
  <1>5. CASE n > 1
    <2>1. waitFresh' = waitFresh
      <3>1. waitFresh \in BOOLEAN
        BY DEF VarsOK
      <3>2. (n > 1) = TRUE
        BY <1>5
      <3>3. waitFresh' = (waitFresh /\ TRUE)
        BY <1>1, <3>2, Zenon
      <3> QED
        BY <3>1, <3>3
    <2> QED
      BY <1>1, <1>4, <1>5, <2>1, SameKeeps
  <1>6. CASE n = 1
    <2>1. waitFresh' = FALSE
      <3>1. (n > 1) = FALSE
        BY <1>6
      <3> QED
        BY <1>1, <3>1, Zenon
    <2>2. \A t \in Threads : todo[t] = <<>>
      <3> SUFFICES ASSUME NEW t \in Threads, todo[t] # <<>> PROVE FALSE
        OBVIOUS
      <3>1. PICK i \in 1 .. n : stack[i] = t
        BY DEF StackOK, n
      <3> QED
        BY <1>1, <1>2, <1>6, <3>1
    <2> QED
      BY <1>1, <1>4, <2>1, <2>2, SameKeeps
  <1> QED
    BY <1>2, <1>5, <1>6

-----------------------------------------------------------------------------
(* The handlers are entered.                                               *)

\* A thread that is not on the stack begins with ops.
LEMMA StartStep ==
  ASSUME StackOK, TodoOK, RelayOK, GatesOK, NEW t \in Threads,
         \A i \in 1 .. Len(stack) : stack[i] # t, t = "main" => stack = <<>>,
         NEW ops \in Seq(Operation), QueueOK(t, ops), Watched(ops), Start(t, ops)
  PROVE  StackOK' /\ TodoOK' /\ RelayOK' /\ GatesOK'
  <1> DEFINE n == Len(stack)
  <1>1. /\ stack' = Append(stack, t) /\ todo' = [todo EXCEPT ![t] = ops]
        /\ UNCHANGED <<state, nextState, waitFresh, relay, gates>>
    BY DEF Start, fsm, plant
  <1>2. /\ stack \in Seq(Threads) /\ n \in Nat /\ n <= 3
        /\ \A i, j \in 1 .. n : stack[i] = stack[j] => i = j
        /\ \A i \in 1 .. n : stack[i] = "main" => i = 1
        /\ \A i \in 1 .. n : stack[i] \in Threads
    BY DEF StackOK
  <1>3. \A i \in 1 .. n : stack[i] # t
    OBVIOUS
  <1>4. /\ stack' \in Seq(Threads) /\ Len(stack') = n + 1 /\ stack'[n + 1] = t
        /\ \A i \in 1 .. n : stack'[i] = stack[i]
    BY <1>1, <1>2, AppendProperties
  <1>5. t = "main" => n = 0
    BY EmptySeq
  <1> HIDE DEF n
  <1>6. todo[t] = <<>>
    BY <1>3 DEF StackOK, n
  <1>7. /\ todo' \in [Threads -> Seq(Operation)] /\ todo'[t] = ops
        /\ \A s \in Threads : s # t => todo'[s] = todo[s]
    BY <1>1 DEF TodoOK
  <1>8. n # 3
    <2> SUFFICES ASSUME n = 3 PROVE FALSE
      OBVIOUS
    <2>1. /\ stack[1] # stack[2] /\ stack[1] # stack[3] /\ stack[2] # stack[3]
      <3>1. \A i, j \in 1 .. 3 : stack[i] = stack[j] => i = j
        BY <1>2
      <3>2. 1 \in 1 .. 3 /\ 2 \in 1 .. 3 /\ 3 \in 1 .. 3
        OBVIOUS
      <3> HIDE DEF n
      <3> QED
        BY <3>1, <3>2
    <2>2. /\ stack[1] \in Threads /\ stack[2] \in Threads /\ stack[3] \in Threads
          /\ stack[1] # t /\ stack[2] # t /\ stack[3] # t
      BY <1>2, <1>3
    <2> QED
      BY <2>1, <2>2 DEF Threads
  <1>9. StackOK'
    <2>1. ASSUME NEW s \in Threads, todo'[s] # <<>>
          PROVE  \E i \in 1 .. Len(stack') : stack'[i] = s
      <3>1. CASE s = t
        BY <1>2, <1>4, <3>1
      <3>2. CASE s # t
        <4>1. PICK i \in 1 .. n : stack[i] = s
          BY <1>7, <2>1, <3>2 DEF StackOK, n
        <4> QED
          BY <1>2, <1>4, <4>1
      <3> QED
        BY <3>1, <3>2
    <2>2. \A i, j \in 1 .. Len(stack') : stack'[i] = stack'[j] => i = j
      BY <1>2, <1>3, <1>4
    <2>3. \A i \in 1 .. Len(stack') : stack'[i] = "main" => i = 1
      BY <1>2, <1>4, <1>5
    <2>4. Len(stack') <= 3
      BY <1>2, <1>4, <1>8
    <2> QED
      BY <1>4, <2>1, <2>2, <2>3, <2>4 DEF StackOK
  <1>10. TodoOK'
    <2>1. ASSUME NEW s \in Threads, NEW u, u = todo'[s] PROVE QueueOK(s, u)'
      <3>1. QueueOK(s, u)
        BY <1>7, <2>1 DEF TodoOK
      <3> QED
        BY <1>1, <3>1, SameSituation
    <2> QED
      BY <1>7, <2>1 DEF TodoOK
  <1>11. OpsOf(todo[t]) = {}
    BY <1>6, ShortOps
  <1>12. RelayOK'
    <2>1. <<"goTo", "WAIT">> \in OpsOf(todo["pwm"]) => <<"goTo", "WAIT">> \in OpsOf(todo'["pwm"])
      BY <1>7, <1>11 DEF Threads
    <2> QED
      BY <1>1, <2>1 DEF RelayOK
  <1>13. GatesOK'
    <2>1. ToCharging \in OpsOf(todo["main"]) => ToCharging \in OpsOf(todo'["main"])
      BY <1>7, <1>11 DEF Threads
    <2>2. (\A s \in Threads : Watched(todo[s])) => \A s \in Threads : Watched(todo'[s])
      BY <1>7
    <2> QED
      BY <1>1, <2>1, <2>2, GatesKept
  <1> QED
    BY <1>9, <1>10, <1>12, <1>13

\* A handler may begin with one or two ordinary operations that are at home in it.
LEMMA HandlerOK ==
  ASSUME NEW t,
         NEW a, Ordinary(a), ~Leaving(a), Home(t, a),
         NEW b, Ordinary(b), ~Leaving(b), Home(t, b), ~Bound(b)
  PROVE  /\ <<a>> \in Seq(Operation) /\ QueueOK(t, <<a>>) /\ Watched(<<a>>)
         /\ <<a, b>> \in Seq(Operation) /\ QueueOK(t, <<a, b>>) /\ Watched(<<a, b>>)
  <1>1. /\ Plain(<<a>>) /\ OpsOf(<<a>>) = {a}
        /\ Plain(<<a, b>>) /\ OpsOf(<<a, b>>) = {a, b}
    BY PlainShort, ShortOps
  <1> QED
    BY <1>1, PlainQueue, NoLeaving DEF Plain

\* The operations that handlers begin with are ordinary and at home everywhere.
LEMMA HandlerOps ==
  ASSUME NEW t
  PROVE  \A op \in {<<"call", "shutdown">>, <<"setError", "OTHER">>, <<"setError", "CELL">>,
                    <<"warning", "set">>, <<"warning", "reset">>, <<"resetErrors", "">>} :
           Ordinary(op) /\ ~Leaving(op) /\ ~Bound(op) /\ Home(t, op)
  <1>1. ASSUME NEW n \in {"setError", "warning", "resetErrors"}, NEW a \in Arguments
        PROVE  Ordinary(<<n, a>>) /\ ~Bound(<<n, a>>) /\ ~Leaving(<<n, a>>)
    <2>1. n \in Names
      BY DEF Names
    <2>2. <<n, a>>[1] = n
      OBVIOUS
    <2>3. Ordinary(<<n, a>>) /\ ~Bound(<<n, a>>)
      BY <2>1, OrdinaryOp, Zenon
    <2> QED
      BY <2>2, <2>3 DEF Leaving
  <1>2. {"OTHER", "CELL", "set", "reset", "", "shutdown"} \subseteq Arguments /\ "call" \in Names
    BY Zenon DEF Arguments, Names
  <1>3. /\ Home(t, <<"setError", "OTHER">>) /\ Home(t, <<"setError", "CELL">>)
        /\ Home(t, <<"warning", "set">>) /\ Home(t, <<"warning", "reset">>)
        /\ Home(t, <<"resetErrors", "">>) /\ Home(t, <<"call", "shutdown">>)
    BY Zenon DEF Home, Typed, OfMain, OfPwm, OfRun, OfCharge, OfExpiry, States
  <1>4. LET op == <<"call", "shutdown">>
        IN  Ordinary(op) /\ ~Leaving(op) /\ ~Bound(op)
    <2> DEFINE op == <<"call", "shutdown">>
    <2>1. op \in Operation /\ op[1] = "call"
      BY <1>2, Pairs
    <2>2. ~Alone(op) /\ op \notin Switches /\ op # ToCharging
      BY Zenon DEF Alone, Switches, ToCharging
    <2>3. ~Leaving(op) /\ ~Bound(op)
      BY Zenon DEF Leaving, Bound, OfExpiry
    <2> HIDE DEF op
    <2>4. Ordinary(op)
      BY <2>1, <2>2, NamesOf DEF Ordinary
    <2> QED
      BY <2>3, <2>4 DEF op
  <1> QED
    BY <1>1, <1>2, <1>3, <1>4, Zenon

\* Every response of the main loop begins in order.
LEMMA MainLoopStep ==
  ASSUME VarsOK, StackOK, TodoOK, RelayOK, GatesOK, MainLoop
  PROVE  StackOK' /\ TodoOK' /\ RelayOK' /\ GatesOK'
  <1> DEFINE start == <<"call", "startCharging">>
             shut == <<"call", "shutdown">>
             other == <<"setError", "OTHER">>
             cell == <<"setError", "CELL">>
             high == <<"warning", "set">>
             low == <<"warning", "reset">>
             clear == <<"resetErrors", "">>
  <1>1. \E ops \in {<<start>>, <<shut>>, <<shut, other>>, <<high, shut>>, <<low>>, <<clear>>,
                    <<cell>>} : stack = <<>> /\ Start("main", ops)
    BY Zenon DEF MainLoop
  <1>2. /\ \A op \in {shut, other, cell, high, low, clear} :
             Ordinary(op) /\ ~Leaving(op) /\ ~Bound(op) /\ Home("main", op)
    BY HandlerOps
  <1>3. /\ <<start>> \in Seq(Operation) /\ QueueOK("main", <<start>>) /\ Watched(<<start>>)
    <2>1. start \in Operation /\ start[1] = "call"
      BY Pairs DEF Names, Arguments
    <2>2. Home("main", start) /\ start \notin Switches /\ ~Leaving(start)
      BY Zenon DEF Home, Typed, OfMain, OfPwm, OfRun, OfCharge, OfExpiry, Switches, Leaving
    <2> HIDE DEF start
    <2>3. OpsOf(<<start>>) = {start}
      BY ShortOps
    <2> QED
      BY <2>1, <2>2, <2>3, SingleOK, NoLeaving
  <1> HIDE DEF start, shut, other, cell, high, low, clear
  <1>4. \A ops \in {<<start>>, <<shut>>, <<shut, other>>, <<high, shut>>, <<low>>, <<clear>>,
                    <<cell>>} :
           ops \in Seq(Operation) /\ QueueOK("main", ops) /\ Watched(ops)
    <2>1. ASSUME NEW a \in {shut, other, cell, high, low, clear},
                 NEW b \in {shut, other, cell, high, low, clear}
          PROVE  /\ <<a>> \in Seq(Operation) /\ QueueOK("main", <<a>>) /\ Watched(<<a>>)
                 /\ <<a, b>> \in Seq(Operation) /\ QueueOK("main", <<a, b>>)
                 /\ Watched(<<a, b>>)
      BY <1>2, HandlerOK
    <2> QED
      BY <1>3, <2>1, Zenon
  <1>5. PICK ops \in {<<start>>, <<shut>>, <<shut, other>>, <<high, shut>>, <<low>>, <<clear>>,
                      <<cell>>} : stack = <<>> /\ Start("main", ops)
    BY <1>1
  <1>6. \A i \in 1 .. Len(stack) : stack[i] # "main"
    BY <1>5, EmptySeq
  <1> QED
    BY <1>4, <1>5, <1>6, StartStep DEF Threads

\* So does every interrupt handler, on top of whatever it preempts.
LEMMA InterruptStep ==
  ASSUME VarsOK, StackOK, TodoOK, RelayOK, GatesOK, PwmEvent \/ VoltageOut
  PROVE  StackOK' /\ TodoOK' /\ RelayOK' /\ GatesOK'
  <1>1. CASE PwmEvent
    <2> DEFINE run == <<"call", "run">>
    <2>1. CanInterrupt("pwm") /\ Start("pwm", <<run>>)
      BY <1>1 DEF PwmEvent
    <2>2. run \in Operation /\ run[1] = "call"
      BY Pairs DEF Names, Arguments
    <2>3. Home("pwm", run) /\ run \notin Switches /\ ~Leaving(run)
      BY Zenon DEF Home, Typed, OfMain, OfPwm, OfRun, OfCharge, OfExpiry, Switches, Leaving
    <2> HIDE DEF run
    <2>4. OpsOf(<<run>>) = {run}
      BY ShortOps
    <2>5. <<run>> \in Seq(Operation) /\ QueueOK("pwm", <<run>>) /\ Watched(<<run>>)
      BY <2>2, <2>3, <2>4, SingleOK, NoLeaving
    <2>6. \A i \in 1 .. Len(stack) : stack[i] # "pwm"
      BY <2>1 DEF CanInterrupt
    <2> QED
      BY <2>1, <2>5, <2>6, StartStep DEF Threads
  <1>2. CASE VoltageOut
    <2> DEFINE shut == <<"call", "shutdown">>
               other == <<"setError", "OTHER">>
               high == <<"warning", "set">>
               low == <<"warning", "reset">>
    <2>1. \E ops \in {<<other>>, <<low>>, <<high, shut>>} :
             CanInterrupt("vout") /\ Start("vout", ops)
      BY <1>2, Zenon DEF VoltageOut
    <2>2. /\ \A op \in {shut, other, high, low} :
               Ordinary(op) /\ ~Leaving(op) /\ ~Bound(op) /\ Home("vout", op)
      BY HandlerOps
    <2> HIDE DEF shut, other, high, low
    <2>3. \A ops \in {<<other>>, <<low>>, <<high, shut>>} :
             ops \in Seq(Operation) /\ QueueOK("vout", ops) /\ Watched(ops)
      <3>1. ASSUME NEW a \in {shut, other, high, low}, NEW b \in {shut, other, high, low}
            PROVE  /\ <<a>> \in Seq(Operation) /\ QueueOK("vout", <<a>>) /\ Watched(<<a>>)
                   /\ <<a, b>> \in Seq(Operation) /\ QueueOK("vout", <<a, b>>)
                   /\ Watched(<<a, b>>)
        BY <2>2, HandlerOK
      <3> QED
        BY <3>1, Zenon
    <2>4. PICK ops \in {<<other>>, <<low>>, <<high, shut>>} :
             CanInterrupt("vout") /\ Start("vout", ops)
      BY <2>1
    <2>5. \A i \in 1 .. Len(stack) : stack[i] # "vout"
      BY <2>4 DEF CanInterrupt
    <2> QED
      BY <2>3, <2>4, <2>5, StartStep DEF Threads
  <1> QED
    BY <1>1, <1>2

-----------------------------------------------------------------------------
(* The theorems.                                                           *)

\* The type of the variables, one by one.
LEMMA VarsParts ==
  VarsOK <=>
    /\ state \in States /\ nextState \in {"STANDBY", "READY", "SHUTDOWN"}
    /\ errors \subseteq {"CELL", "OTHER"} /\ cellCommand \in {"start", "stop"}
    /\ waitFresh \in BOOLEAN /\ cellsEnabled \in BOOLEAN /\ batteryCharged \in BOOLEAN
    /\ relay \in BOOLEAN /\ pwmOn \in BOOLEAN /\ gates \in BOOLEAN /\ nearMax \in BOOLEAN
    /\ interruptible \in BOOLEAN
BY Zenon DEF VarsOK

\* The arguments of the operations that set a variable are of its type.
LEMMA VarsStep ==
  ASSUME VarsOK, StackOK, TodoOK, Next
  PROVE  VarsOK'
  <1> DEFINE Cpu == interruptible' \in BOOLEAN
             Fsm == /\ state' \in States /\ nextState' \in {"STANDBY", "READY", "SHUTDOWN"}
                    /\ waitFresh' \in BOOLEAN
             Log == /\ errors' \subseteq {"CELL", "OTHER"}
                    /\ cellsEnabled' \in BOOLEAN /\ batteryCharged' \in BOOLEAN
             Plant == /\ relay' \in BOOLEAN /\ pwmOn' \in BOOLEAN /\ gates' \in BOOLEAN
                      /\ nearMax' \in BOOLEAN /\ cellCommand' \in {"start", "stop"}
  <1>1. /\ state \in States /\ nextState \in {"STANDBY", "READY", "SHUTDOWN"}
        /\ errors \subseteq {"CELL", "OTHER"} /\ cellCommand \in {"start", "stop"}
        /\ waitFresh \in BOOLEAN /\ cellsEnabled \in BOOLEAN /\ batteryCharged \in BOOLEAN
        /\ relay \in BOOLEAN /\ pwmOn \in BOOLEAN /\ gates \in BOOLEAN /\ nearMax \in BOOLEAN
        /\ interruptible \in BOOLEAN
    BY VarsParts
  <1>2. UNCHANGED fsm => Fsm
    BY <1>1, Zenon DEF fsm
  <1>3. UNCHANGED syslog => Log
    BY <1>1, Zenon DEF syslog
  <1>4. UNCHANGED plant => Plant
    BY <1>1, Zenon DEF plant
  <1>5. TRUE \in BOOLEAN /\ FALSE \in BOOLEAN
    OBVIOUS
  <1>6. DoCritical => Cpu
    BY <1>5, Zenon DEF DoCritical
  <1>7. \A ops : Do(ops) => Cpu
    BY <1>1, Zenon DEF Do
  <1>8. \A ops : Branch(ops) => Fsm /\ Log /\ Plant /\ Cpu
    BY <1>2, <1>3, <1>4, <1>7, Zenon DEF Branch
  <1>9. ASSUME NEW name, Op(name)
        PROVE  Home(Current, <<name, Arg>>)
    BY <1>9, Reached
  <1>10. \A name : <<name, Arg>>[1] = name /\ <<name, Arg>>[2] = Arg
    OBVIOUS
  <1>11. \A e : (Arg = e) \in BOOLEAN
    OBVIOUS
  <1> SUFFICES Fsm /\ Log /\ Plant /\ Cpu
    BY Zenon DEF VarsOK
  <1>12. CASE Call
    BY <1>2, <1>3, <1>4, <1>7, <1>12, Zenon DEF Call
  <1>13. CASE GoTo
    <2>1. Home(Current, <<"goTo", Arg>>)
      BY <1>9, <1>13, Zenon DEF GoTo
    <2>2. Arg \in States
      BY <1>10, <2>1, Zenon DEF Home, Typed
    <2> QED
      BY <1>1, <1>3, <1>4, <1>7, <1>13, <2>2, Zenon DEF GoTo
  <1>14. CASE SetNext
    <2>1. Home(Current, <<"setNext", Arg>>)
      BY <1>9, <1>14, Zenon DEF SetNext
    <2>2. Arg \in {"STANDBY", "READY", "SHUTDOWN"}
      BY <1>10, <2>1, Zenon DEF Home, Typed
    <2> QED
      BY <1>1, <1>3, <1>4, <1>5, <1>7, <1>14, <2>2, Zenon DEF SetNext
  <1>15. CASE Mask
    BY <1>1, <1>2, <1>4, <1>5, <1>6, <1>15, Zenon DEF Mask
  <1>16. CASE Unmask
    BY <1>1, <1>2, <1>4, <1>5, <1>6, <1>16, Zenon DEF Unmask
  <1>17. CASE SetError
    <2>1. Home(Current, <<"setError", Arg>>)
      BY <1>9, <1>17, Zenon DEF SetError
    <2>2. Arg \in {"CELL", "OTHER"}
      BY <1>10, <2>1, Zenon DEF Home, Typed
    <2>3. errors' \subseteq {"CELL", "OTHER"}
      BY <1>1, <1>17, <2>2 DEF SetError
    <2> QED
      BY <1>1, <1>2, <1>4, <1>6, <1>17, <2>3, Zenon DEF SetError
  <1>18. CASE ResetErrors
    <2>1. errors' \subseteq {"CELL", "OTHER"}
      BY <1>18 DEF ResetErrors
    <2> QED
      BY <1>1, <1>2, <1>4, <1>5, <1>6, <1>18, <2>1, Zenon DEF ResetErrors
  <1>19. CASE Warning
    BY <1>1, <1>2, <1>4, <1>6, <1>11, <1>19, Zenon DEF Warning
  <1>20. CASE Signal
    <2>1. Home(Current, <<"signal", Arg>>)
      BY <1>9, <1>20, Zenon DEF Signal
    <2>2. Arg \in {"start", "stop"}
      BY <1>10, <2>1, Zenon DEF Home, Typed
    <2> QED
      BY <1>1, <1>2, <1>3, <1>7, <1>20, <2>2, Zenon DEF Signal
  <1>21. CASE Relay
    BY <1>1, <1>2, <1>3, <1>7, <1>11, <1>21, Zenon DEF Relay
  <1>22. CASE Drive
    BY <1>1, <1>2, <1>3, <1>5, <1>7, <1>22, Zenon DEF Drive
  <1>23. CASE IfLaunch
    BY <1>8, <1>23, Zenon DEF IfLaunch
  <1>24. CASE IfMayCharge \/ IfPwmOff
    BY <1>8, <1>24, Zenon DEF IfMayCharge, IfPwmOff
  <1>25. CASE IfLate \/ IfRunning \/ IfErrors \/ IfExpired
    BY <1>8, <1>25, Zenon DEF IfLate, IfRunning, IfErrors, IfExpired
  <1>26. CASE RampStep
    BY <1>1, <1>2, <1>3, <1>7, <1>26, Zenon DEF RampStep
  <1>27. CASE Return
    <2>1. (waitFresh /\ Len(stack) > 1) \in BOOLEAN
      OBVIOUS
    <2> QED
      BY <1>1, <1>3, <1>4, <1>5, <1>27, <2>1, Zenon DEF Return
  <1>28. ASSUME NEW t, NEW ops, Start(t, ops)
         PROVE  Fsm /\ Log /\ Plant /\ Cpu
    <2>1. (t = "main") \in BOOLEAN
      OBVIOUS
    <2> QED
      BY <1>2, <1>3, <1>4, <1>28, <2>1, Zenon DEF Start
  <1>29. CASE MainLoop \/ PwmEvent \/ VoltageOut
    BY <1>28, <1>29, Zenon DEF MainLoop, PwmEvent, VoltageOut
  <1> QED
    BY <1>12, <1>13, <1>14, <1>15, <1>16, <1>17, <1>18, <1>19, <1>20, <1>21, <1>22, <1>23,
       <1>24, <1>25, <1>26, <1>27, <1>29, Zenon DEF Next, Execute

\* Every operation, and every handler that is entered or left, keeps the invariant.
THEOREM InvariantKept == IInv /\ [Next]_vars => IInv'
  <1> SUFFICES ASSUME IInv, [Next]_vars PROVE IInv'
    OBVIOUS
  <1>1. VarsOK /\ StackOK /\ TodoOK /\ RelayOK /\ GatesOK
    BY DEF IInv
  <1>2. CASE Next
    <2>1. VarsOK'
      BY <1>1, <1>2, VarsStep
    <2>2. StackOK' /\ TodoOK' /\ RelayOK' /\ GatesOK'
      <3>1. CASE Call
        BY <1>1, <3>1, CallStep
      <3>2. CASE GoTo
        BY <1>1, <3>2, GoToStep
      <3>3. CASE SetNext
        BY <1>1, <3>3, SetNextStep
      <3>4. CASE Relay
        BY <1>1, <3>4, RelayStep
      <3>5. CASE Mask \/ Unmask \/ SetError \/ ResetErrors \/ Warning \/ Signal \/ Drive
        BY <1>1, <3>5, QuietSteps
      <3>6. CASE IfLaunch
        BY <1>1, <3>6, IfLaunchStep
      <3>7. CASE IfMayCharge
        BY <1>1, <3>7, IfMayChargeStep
      <3>8. CASE IfPwmOff
        BY <1>1, <3>8, IfPwmOffStep
      <3>9. CASE IfLate
        BY <1>1, <3>9, IfLateStep
      <3>10. CASE IfRunning
        BY <1>1, <3>10, IfRunningStep
      <3>11. CASE IfErrors
        BY <1>1, <3>11, IfErrorsStep
      <3>12. CASE IfExpired
        BY <1>1, <3>12, IfExpiredStep
      <3>13. CASE RampStep
        BY <1>1, <3>13, RampStepDone
      <3>14. CASE Return
        BY <1>1, <3>14, ReturnStep
      <3>15. CASE MainLoop
        BY <1>1, <3>15, MainLoopStep
      <3>16. CASE PwmEvent \/ VoltageOut
        BY <1>1, <3>16, InterruptStep
      <3> QED
        BY <1>2, <3>1, <3>2, <3>3, <3>4, <3>5, <3>6, <3>7, <3>8, <3>9, <3>10, <3>11, <3>12,
           <3>13, <3>14, <3>15, <3>16, Zenon DEF Next, Execute
    <2> QED
      BY <2>1, <2>2 DEF IInv
  <1>3. CASE UNCHANGED vars
    <2>1. /\ UNCHANGED <<state, nextState, waitFresh, errors, cellsEnabled, batteryCharged>>
          /\ UNCHANGED <<relay, pwmOn, gates, nearMax, cellCommand, stack, todo, interruptible>>
      BY <1>3, Zenon DEF vars, fsm, syslog, plant, cpu
    <2>2. VarsOK'
      BY <1>1, <2>1, Zenon DEF VarsOK
    <2>3. StackOK'
      BY <1>1, <2>1 DEF StackOK
    <2>4. TodoOK' /\ RelayOK' /\ GatesOK'
      BY <1>1, <2>1, <2>3, SameKeeps
    <2> QED
      BY <2>2, <2>3, <2>4 DEF IInv
  <1> QED
    BY <1>2, <1>3

\* After the power-up the invariant holds: nothing is pending.
LEMMA InvariantStarts == Init => IInv
  <1> SUFFICES ASSUME Init PROVE IInv
    OBVIOUS
  <1>1. VarsOK
    <2>1. TRUE \in BOOLEAN /\ FALSE \in BOOLEAN
      OBVIOUS
    <2>2. {} \subseteq {"CELL", "OTHER"} /\ "STANDBY" \in States
      BY DEF States
    <2> QED
      BY <2>1, <2>2, Zenon DEF Init, VarsOK
  <1>2. /\ todo \in [Threads -> Seq(Operation)] /\ \A t \in Threads : todo[t] = <<>>
    <2>1. <<>> \in Seq(Operation)
      BY EmptySeq
    <2> QED
      BY <2>1 DEF Init
  <1>3. StackOK
    <2>1. stack \in Seq(Threads) /\ Len(stack) = 0
      BY EmptySeq DEF Init
    <2> QED
      BY <1>2, <2>1 DEF StackOK
  <1>4. TodoOK
    BY <1>2, EmptyOK DEF TodoOK
  <1>5. RelayOK /\ GatesOK
    BY DEF Init, RelayOK, GatesOK
  <1> QED
    BY <1>1, <1>3, <1>4, <1>5 DEF IInv

\* The invariant is one.
THEOREM Invariant == Spec => []IInv
BY InvariantStarts, InvariantKept, PTL DEF Spec

\* Every variable has its type, and an interrupt does not preempt itself.
THEOREM TypeCorrect == Spec => []TypeOK
  <1>1. IInv => TypeOK
    BY Zenon DEF IInv, VarsOK, StackOK, TypeOK
  <1> QED
    BY <1>1, Invariant, PTL

\* With no thread on the stack there is nothing left to do.
LEMMA NothingPending ==
  ASSUME StackOK, Quiet
  PROVE  \A t \in Threads : OpsOf(todo[t]) = {}
  <1>1. Len(stack) = 0
    BY EmptySeq DEF Quiet
  <1>2. \A t \in Threads : todo[t] = <<>>
    BY <1>1 DEF StackOK
  <1> QED
    BY <1>2, ShortOps

\* Whatever preempted what: between two handlers the PWM signals are out only in a
\* state that watches over them (Converter::start in READY, the shutdowns).
THEOREM GatesAreWatched == Spec => []GatesWatched
  <1>1. IInv => GatesWatched
    <2> SUFFICES ASSUME IInv, Quiet, gates PROVE state \in {"CHARGING_START", "CHARGING"}
      BY DEF GatesWatched
    <2>1. ToCharging \notin OpsOf(todo["main"])
      BY NothingPending DEF IInv, Threads
    <2> QED
      BY <2>1 DEF IInv, GatesOK
  <1> QED
    BY <1>1, Invariant, PTL

\* Whatever preempted what: between two handlers the relay is open in STANDBY and
\* STARTUP, and closed in READY and beyond.
THEOREM RelayFollows == Spec => []RelayFollowsState
  <1>1. IInv => RelayFollowsState
    <2> SUFFICES ASSUME IInv, Quiet
                 PROVE  /\ state \in {"STANDBY", "STARTUP"} => ~relay
                        /\ state \in {"READY", "CHARGING_START", "CHARGING"} => relay
      BY DEF RelayFollowsState
    <2>1. <<"goTo", "WAIT">> \notin OpsOf(todo["pwm"])
      BY NothingPending DEF IInv, Threads
    <2> QED
      BY <2>1 DEF IInv, RelayOK
  <1> QED
    BY <1>1, Invariant, PTL
=============================================================================
