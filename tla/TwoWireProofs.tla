---------------------------- MODULE TwoWireProofs ----------------------------
(***************************************************************************)
(* Proofs about TwoWire: for every size of the buffer and every length, no *)
(* transfer leaves the buffer, and what the calls return is what happened  *)
(* on the bus.                                                             *)
(***************************************************************************)
EXTENDS TwoWire, TLAPS

-----------------------------------------------------------------------------
(* The parts of the inductive invariant.                                   *)

Value == 0 .. BufferLength + 1          \* what a byte can be
Error == {"none", "SLA_NACK", "DATA_NACK", "ARB_LOST", "BUS_ERROR"}

TwiType == [state : {"READY", "MRX", "MTX"}, sendStop : BOOLEAN, inRepStart : BOOLEAN,
            index : 0 .. BufferLength, length : 0 .. BufferLength, error : Error,
            addressAck : BOOLEAN, buffer : [0 .. BufferLength - 1 -> Value]]
HwType == [inten : BOOLEAN, irq : BOOLEAN, cmd : {"none", "write", "read", "stop", "start"},
           tx : Value, rx : Value, nack : BOOLEAN, al : BOOLEAN]
BusType == [owner : {"nobody", "us", "other"}, addressed : BOOLEAN,
            took : Seq(Value), gave : Nat]
CallType == [op : {"read", "write"}, len : 0 .. BufferLength,
             wait : BOOLEAN, stop : BOOLEAN]

Typed ==
    /\ twi \in TwiType /\ hw \in HwType /\ bus \in BusType /\ call \in CallType
    /\ pc \in {"app", "busy", "enable", "command", "state", "ack", "poll"}
    /\ late \in BOOLEAN

(* The places of a call before twi_state is set, and after.                *)
Before == {"busy", "enable", "command", "state"}
After  == {"ack", "poll"}

(* Where a call is, and what the driver's variables are there.             *)
CallInOrder ==
    /\ pc # "app" => result = NoResult
    /\ pc \in Before => twi.state = "READY"
    /\ pc \in After => twi.state \in {"READY", OpState(call.op)}
    /\ pc = "ack" => call.op = "read"
    /\ call.op = "read" => call.wait
    /\ pc \in (Before \cup After) \ {"busy"} => twi.length = call.len
    /\ pc \in Before \ {"busy"} => twi.index = 0
    /\ pc \in {"enable", "command"} => hw.tx = Address
    /\ twi.state = "MTX" => twi.index <= twi.length
    /\ twi.state = "MRX" => twi.index = 0 \/ twi.index < twi.length

(* Which commands the controller can be at work on.                        *)
CommandsInOrder ==
    /\ hw.cmd = "read" => twi.state = "MRX" /\ ~hw.irq /\ twi.index < twi.length
    /\ hw.cmd = "write" => pc = "state" \/ twi.state # "READY"
    /\ hw.cmd = "write" /\ hw.inten => ~hw.irq
    /\ hw.inten => pc \in {"command", "state"} \/ twi.state # "READY"
    /\ hw.inten /\ pc # "command" => hw.cmd \notin {"stop", "start"}
    /\ hw.al /\ twi.state = "READY" /\ pc # "state" => ~hw.irq /\ hw.cmd = "none"

(* How many bytes the controller has read, also when twi_state and         *)
(* Address_ACK were set too late: at most one more than were stored.       *)
ReadsInBounds ==
    LET more == IF twi.addressAck \/ pc = "ack" THEN 1 ELSE 0 IN
    /\ pc = "state" \/ (twi.state = "MRX" /\ hw.cmd \notin {"read", "none"}) => bus.gave = 0
    /\ hw.cmd = "read" => bus.gave + more <= twi.index + 1
    /\ twi.state = "MRX" /\ hw.irq => bus.gave + more <= twi.index + 2
    /\ hw.cmd = "read" \/ (twi.state = "MRX" /\ bus.gave > 0) =>
            (pc = "ack" => ~twi.addressAck)

(* What happened on the bus while n bytes of the message were handed over  *)
(* and the last one was not acknowledged yet.                              *)
HandedOver(n) == /\ bus.addressed <=> n > 0
                 /\ bus.took = Message(IF n = 0 THEN 0 ELSE n - 1)

(* A write in which the handler still has a say.                           *)
WriteInOrder ==
    /\ pc \in {"enable", "command"} => twi.error = "none"
    /\ call.op = "write" /\ (pc = "state" \/ (pc = "poll" /\ twi.state # "READY")) =>
            twi.error = "none" \/ (twi.error = "ARB_LOST" /\ hw.al)
    /\ pc \in {"state", "ack", "poll"} /\ hw.inten => twi.error = "none"
    /\ pc \in {"enable", "command", "state", "poll"} /\ call.op = "write" =>
            \A n \in 0 .. call.len - 1 : twi.buffer[n] = Byte(n)
    /\ pc \in {"state", "poll"} /\ hw.inten /\ call.op = "write" =>
        /\ hw.cmd = "write" => hw.tx = twi.index /\ HandedOver(twi.index)
        /\ hw.cmd = "none" /\ hw.irq /\ ~hw.al =>
            IF hw.nack THEN HandedOver(twi.index)
                       ELSE bus.addressed /\ bus.took = Message(twi.index)

(* What a write may return, and which results speak of a transfer.         *)
Truth(code, asked) ==
    /\ code = 0 => bus.addressed /\ bus.took = Message(asked)
    /\ code = 2 => ~bus.addressed
    /\ code = 3 => bus.addressed /\ Len(bus.took) < asked
    /\ code = 4 => hw.al

Reported == result.op = "write" \/ (result.op = "unwaited" /\ result.code # 0)

WriteIsTrue ==
    /\ pc = "poll" /\ call.op = "write" /\ twi.state = "READY" =>
            Truth(Code(twi.error), call.len)
    /\ Reported => Truth(result.code, result.asked)

(* A read whose caller set twi_state and Address_ACK in time.              *)
ReadInOrder ==
    call.op = "read" /\ ~late =>
        /\ pc \in {"state", "ack"} => hw.cmd = "write" /\ twi.index = 0
        /\ pc = "ack" => twi.state = "MRX"
        /\ pc = "poll" => \A n \in 0 .. twi.index - 1 : twi.buffer[n] = Byte(n)
        /\ pc = "poll" /\ twi.state = "MRX" /\ hw.inten =>
            /\ twi.addressAck => twi.index = 0 /\ bus.gave = 0 /\ hw.cmd # "read"
            /\ ~twi.addressAck => /\ twi.index < twi.length /\ hw.cmd # "write"
                                  /\ hw.cmd = "read" => bus.gave = twi.index
                                  /\ hw.irq => /\ hw.rx = Byte(twi.index)
                                               /\ bus.gave = twi.index + 1

ReadIsTrue ==
    /\ pc = "poll" /\ call.op = "read" /\ ~late /\ twi.state = "READY" =>
            /\ twi.index <= call.len
            /\ twi.index = call.len \/ hw.nack \/ hw.al
    /\ result.op = "read" /\ ~late =>
            /\ result.data = Message(Len(result.data))
            /\ Len(result.data) = result.asked \/ hw.nack \/ hw.al

(* A result stands until the next call: nothing is under way, or the       *)
(* arbitration was lost before the caller had set twi_state.               *)
ResultStands ==
    Reported \/ result.op = "read" =>
        /\ ~hw.inten
        /\ twi.state = "READY" \/ (Reported /\ result.code = 4)

IInv ==
    /\ Typed /\ CallInOrder /\ CommandsInOrder /\ ReadsInBounds
    /\ WriteInOrder /\ WriteIsTrue /\ ReadInOrder /\ ReadIsTrue /\ ResultStands

-----------------------------------------------------------------------------
(* Messages.                                                               *)

LEMMA MessageIsSeq ==
    ASSUME NEW n \in Nat
    PROVE  Message(n) \in Seq(Nat) /\ Len(Message(n)) = n
BY DEF Message

LEMMA MessageGrows ==
    ASSUME NEW n \in Nat
    PROVE  Append(Message(n), n + 1) = Message(n + 1)
BY DEF Message

LEMMA NoMessage == Message(0) = << >>
BY DEF Message

-----------------------------------------------------------------------------
LEMMA InitIInv == Init => IInv
<1> SUFFICES ASSUME Init PROVE IInv
  OBVIOUS
<1> USE LengthAssumption DEF Init
<1>1. Typed
  <2>1. twi.buffer \in [0 .. BufferLength - 1 -> Value]
    BY DEF Value
  <2>2. twi \in TwiType
    BY <2>1 DEF TwiType, Error
  <2>3. hw \in HwType
    BY DEF HwType, Value, Address
  <2>4. bus \in BusType
    BY DEF BusType
  <2>5. call \in CallType
    BY DEF CallType
  <2>6. pc = "app" /\ late = FALSE
    OBVIOUS
  <2> HIDE DEF Init
  <2> QED
    BY <2>2, <2>3, <2>4, <2>5, <2>6 DEF Typed
<1>2. CallInOrder /\ CommandsInOrder /\ ReadsInBounds
  BY DEF CallInOrder, CommandsInOrder, ReadsInBounds, Before, After
<1>3. WriteInOrder /\ WriteIsTrue /\ ReadInOrder /\ ReadIsTrue /\ ResultStands
  BY DEF WriteInOrder, WriteIsTrue, ReadInOrder, ReadIsTrue, ResultStands, NoResult, Reported
<1> QED
  BY <1>1, <1>2, <1>3 DEF IInv

(* twi_readFrom and twi_writeTo: one lemma for each step of a call, each   *)
(* with the parts of the invariant that the step can disturb.              *)

LEMMA PrepareKeepsIInv == ASSUME IInv, Prepare PROVE IInv'
<1> USE LengthAssumption DEF IInv, Prepare
<1>1. Typed'
  <2>1. twi'.buffer \in [0 .. BufferLength - 1 -> Value]
    <3>1. twi'.buffer = IF call.op = "read" THEN twi.buffer
                        ELSE [n \in 0 .. BufferLength - 1 |->
                                IF n < call.len THEN Byte(n) ELSE twi.buffer[n]]
      BY DEF Typed, TwiType
    <3>2. \A n \in 0 .. BufferLength - 1 : Byte(n) \in Value
      BY DEF Byte, Value
    <3> QED
      BY <3>1, <3>2 DEF Typed, TwiType
  <2>2. twi' \in TwiType
    <3>1. twi' = [state |-> twi.state, sendStop |-> call.stop, inRepStart |-> twi.inRepStart,
                  index |-> 0, length |-> call.len, error |-> "none",
                  addressAck |-> twi.addressAck, buffer |-> twi'.buffer]
      BY DEF Typed, TwiType
    <3> HIDE DEF Prepare
    <3> QED
      BY <2>1, <3>1 DEF Typed, TwiType, CallType, Error
  <2>3. hw' \in HwType
    BY DEF Typed, HwType, Value, Address
  <2> QED
    BY <2>2, <2>3 DEF Typed
<1> USE DEF Typed, TwiType, HwType, BusType, CallType, Before, After
<1>2. CallInOrder' /\ CommandsInOrder'
  BY DEF CallInOrder, CommandsInOrder
<1>3. ReadsInBounds'
  BY DEF CallInOrder, CommandsInOrder, ReadsInBounds
<1>4. WriteInOrder'
  BY DEF CallInOrder, WriteInOrder
<1>5. WriteIsTrue'
  BY DEF CallInOrder, WriteIsTrue, NoResult, Reported
<1>6. ReadInOrder' /\ ReadIsTrue'
  BY DEF CallInOrder, ReadInOrder, ReadIsTrue, NoResult
<1>7. ResultStands'
  BY DEF CallInOrder, ResultStands, NoResult, Reported
<1> QED
  BY <1>1, <1>2, <1>3, <1>4, <1>5, <1>6, <1>7

LEMMA RefuseKeepsIInv ==
    ASSUME IInv, NEW op, NEW len, Refuse(op, len)
    PROVE  IInv'
<1> USE LengthAssumption DEF IInv, Refuse,
        Typed, TwiType, HwType, BusType, CallType, Before, After, OpState
<1>1. Typed'
  <2>1. twi' \in TwiType
    BY DEF Error, Value
  <2>2. /\ hw' = hw /\ bus' = bus /\ call' = call
        /\ late' \in BOOLEAN
        /\ pc' \in {"app", "busy", "enable", "command", "state", "ack", "poll"}
    OBVIOUS
  <2> HIDE DEF Refuse, TwiType, HwType, BusType, CallType
  <2> QED
    BY <2>1, <2>2
<1>2. CallInOrder' /\ CommandsInOrder' /\ ReadsInBounds'
  BY DEF CallInOrder, CommandsInOrder, NoResult, ReadsInBounds
<1>3. WriteInOrder' /\ WriteIsTrue'
  BY DEF CallInOrder, CommandsInOrder, WriteInOrder, HandedOver, Byte, Address,
         WriteIsTrue, ResultStands, Truth, NoResult, Reported
<1>4. ReadInOrder' /\ ReadIsTrue' /\ ResultStands'
  BY DEF CallInOrder, CommandsInOrder, ReadInOrder, Byte, ReadIsTrue, ResultStands,
         NoResult, Reported
<1> QED
  BY <1>1, <1>2, <1>3, <1>4

LEMMA AcceptKeepsIInv ==
    ASSUME IInv, NEW op \in {"read", "write"}, NEW len \in Nat,
           NEW wait \in BOOLEAN, NEW stop \in BOOLEAN, op = "read" => wait,
           Accept(op, len, wait, stop)
    PROVE  IInv'
<1> USE LengthAssumption DEF IInv, Accept,
        Typed, TwiType, HwType, BusType, CallType, Before, After, OpState
<1>1. Typed'
  <2>1. call' \in CallType
    OBVIOUS
  <2>2. /\ twi' = twi /\ hw' = hw /\ bus' = bus
        /\ late' \in BOOLEAN
        /\ pc' \in {"app", "busy", "enable", "command", "state", "ack", "poll"}
    OBVIOUS
  <2> HIDE DEF Accept, TwiType, HwType, BusType, CallType
  <2> QED
    BY <2>1, <2>2
<1>2. CallInOrder' /\ CommandsInOrder' /\ ReadsInBounds'
  BY DEF CallInOrder, CommandsInOrder, NoResult, ReadsInBounds
<1>3. WriteInOrder' /\ WriteIsTrue'
  BY DEF CallInOrder, CommandsInOrder, WriteInOrder, HandedOver, Byte, Address,
         WriteIsTrue, ResultStands, Truth, NoResult, Reported
<1>4. ReadInOrder' /\ ReadIsTrue' /\ ResultStands'
  BY DEF CallInOrder, CommandsInOrder, ReadInOrder, Byte, ReadIsTrue, ResultStands,
         NoResult, Reported
<1> QED
  BY <1>1, <1>2, <1>3, <1>4

LEMMA EnableInterruptKeepsIInv ==
    ASSUME IInv, EnableInterrupt
    PROVE  IInv'
<1> USE LengthAssumption DEF IInv, EnableInterrupt,
        Typed, TwiType, HwType, BusType, CallType, Before, After, OpState
<1>1. Typed'
  <2>1. hw' \in HwType
    BY DEF Value, Address
  <2>2. /\ twi' = twi /\ bus' = bus /\ call' = call
        /\ late' \in BOOLEAN
        /\ pc' \in {"app", "busy", "enable", "command", "state", "ack", "poll"}
    OBVIOUS
  <2> HIDE DEF EnableInterrupt, TwiType, HwType, BusType, CallType
  <2> QED
    BY <2>1, <2>2
<1>2. CallInOrder' /\ CommandsInOrder' /\ ReadsInBounds'
  BY DEF CallInOrder, CommandsInOrder, NoResult, ReadsInBounds
<1>3. WriteInOrder' /\ WriteIsTrue'
  BY DEF CallInOrder, CommandsInOrder, WriteInOrder, HandedOver, Byte, Address,
         WriteIsTrue, ResultStands, Truth, NoResult, Reported
<1>4. ReadInOrder' /\ ReadIsTrue' /\ ResultStands'
  BY DEF CallInOrder, CommandsInOrder, ReadInOrder, Byte, ReadIsTrue, ResultStands,
         NoResult, Reported
<1> QED
  BY <1>1, <1>2, <1>3, <1>4

LEMMA CommandKeepsIInv ==
    ASSUME IInv, Command, ~Pending
    PROVE  IInv'
<1> USE LengthAssumption DEF IInv, Command, Pending,
        Typed, TwiType, HwType, BusType, CallType, Before, After, OpState
<1>1. Typed'
  <2>1. twi' \in TwiType
    BY DEF Error, Value
  <2>2. hw' \in HwType
    BY DEF Value, Address
  <2>3. bus' \in BusType
    BY DEF Value
  <2>4. /\ call' = call
        /\ late' \in BOOLEAN
        /\ pc' \in {"app", "busy", "enable", "command", "state", "ack", "poll"}
    OBVIOUS
  <2> HIDE DEF Command, TwiType, HwType, BusType, CallType
  <2> QED
    BY <2>1, <2>2, <2>3, <2>4
<1>2. CallInOrder' /\ CommandsInOrder' /\ ReadsInBounds'
  BY DEF CallInOrder, CommandsInOrder, NoResult, ReadsInBounds
<1>3. WriteInOrder'
  <2>1. bus'.took = Message(0) /\ ~bus'.addressed
    BY NoMessage
  <2>2. twi'.index = 0 /\ twi'.buffer = twi.buffer /\ twi'.error = twi.error
    BY DEF CallInOrder
  <2>3. hw'.tx = 0 /\ hw'.cmd = "write" /\ (hw'.inten => ~hw'.irq) /\ hw'.inten = hw.inten
    BY DEF CallInOrder, Address
  <2>4. pc = "command" /\ pc' = "state" /\ call' = call
    OBVIOUS
  <2> HIDE DEF Command, TwiType, HwType, BusType, CallType
  <2> QED
    BY <2>1, <2>2, <2>3, <2>4 DEF WriteInOrder, HandedOver
<1>4. WriteIsTrue'
  BY DEF CallInOrder, CommandsInOrder, WriteInOrder, WriteIsTrue, ResultStands,
         Truth, HandedOver, NoResult, Reported
<1>5. ReadInOrder' /\ ReadIsTrue' /\ ResultStands'
  BY DEF CallInOrder, CommandsInOrder, ReadInOrder, Byte, ReadIsTrue, ResultStands,
         NoResult, Reported
<1> QED
  BY <1>1, <1>2, <1>3, <1>4, <1>5

LEMMA SetStateKeepsIInv ==
    ASSUME IInv, SetState, ~Pending
    PROVE  IInv'
<1> USE LengthAssumption DEF IInv, SetState, Pending,
        Typed, TwiType, HwType, BusType, CallType, Before, After, OpState
<1>1. Typed'
  <2>1. twi' \in TwiType
    BY DEF Error, Value
  <2>2. /\ hw' = hw /\ bus' = bus /\ call' = call
        /\ late' \in BOOLEAN
        /\ pc' \in {"app", "busy", "enable", "command", "state", "ack", "poll"}
    OBVIOUS
  <2> HIDE DEF SetState, TwiType, HwType, BusType, CallType
  <2> QED
    BY <2>1, <2>2
<1>2. CallInOrder' /\ CommandsInOrder' /\ ReadsInBounds'
  BY DEF CallInOrder, CommandsInOrder, NoResult, ReadsInBounds
<1>3. WriteInOrder' /\ ReadInOrder'
  <2>1. /\ twi'.index = twi.index /\ twi'.length = twi.length /\ twi'.error = twi.error
        /\ twi'.buffer = twi.buffer /\ twi'.addressAck = twi.addressAck
        /\ twi'.state = OpState(call.op)
    OBVIOUS
  <2>2. hw' = hw /\ bus' = bus /\ call' = call /\ late' = late
    OBVIOUS
  <2>3. pc = "state" /\ pc' \in {"ack", "poll", "app"} /\ (call.op = "read" => pc' = "ack")
    BY DEF CallInOrder
  <2> HIDE DEF SetState, TwiType, HwType, BusType, CallType
  <2> QED
    BY <2>1, <2>2, <2>3
    DEF CallInOrder, CommandsInOrder, ReadsInBounds, WriteInOrder, HandedOver, ReadInOrder
<1>4. WriteIsTrue'
  BY DEF CallInOrder, CommandsInOrder, WriteInOrder, WriteIsTrue, ResultStands,
         Truth, HandedOver, NoResult, Reported
<1>5. ReadIsTrue' /\ ResultStands'
  BY DEF CallInOrder, CommandsInOrder, ReadInOrder, ReadIsTrue, ResultStands,
         NoResult, Reported
<1> QED
  BY <1>1, <1>2, <1>3, <1>4, <1>5

LEMMA SetAddressAckKeepsIInv ==
    ASSUME IInv, SetAddressAck, ~Pending
    PROVE  IInv'
<1> USE LengthAssumption DEF IInv, SetAddressAck, Pending,
        Typed, TwiType, HwType, BusType, CallType, Before, After, OpState
<1>1. Typed'
  <2>1. twi' \in TwiType
    BY DEF Error, Value
  <2>2. /\ hw' = hw /\ bus' = bus /\ call' = call
        /\ late' \in BOOLEAN
        /\ pc' \in {"app", "busy", "enable", "command", "state", "ack", "poll"}
    OBVIOUS
  <2> HIDE DEF SetAddressAck, TwiType, HwType, BusType, CallType
  <2> QED
    BY <2>1, <2>2
<1>2. CallInOrder' /\ CommandsInOrder' /\ ReadsInBounds'
  BY DEF CallInOrder, CommandsInOrder, NoResult, ReadsInBounds
<1>3. WriteInOrder' /\ ReadInOrder'
  <2>1. /\ twi'.index = twi.index /\ twi'.length = twi.length /\ twi'.error = twi.error
        /\ twi'.buffer = twi.buffer /\ twi'.state = twi.state
        /\ twi'.addressAck = TRUE
    OBVIOUS
  <2>2. hw' = hw /\ bus' = bus /\ call' = call /\ late' = late
    OBVIOUS
  <2>3. pc = "ack" /\ pc' = "poll" /\ call.op = "read"
    BY DEF CallInOrder
  <2> HIDE DEF SetAddressAck, TwiType, HwType, BusType, CallType
  <2> QED
    BY <2>1, <2>2, <2>3
    DEF CallInOrder, CommandsInOrder, ReadsInBounds, WriteInOrder, HandedOver, ReadInOrder
<1>4. WriteIsTrue'
  BY DEF CallInOrder, CommandsInOrder, WriteInOrder, WriteIsTrue, ResultStands,
         Truth, HandedOver, NoResult, Reported
<1>5. ReadIsTrue' /\ ResultStands'
  BY DEF CallInOrder, CommandsInOrder, ReadInOrder, ReadIsTrue, ResultStands,
         NoResult, Reported
<1> QED
  BY <1>1, <1>2, <1>3, <1>4, <1>5

(* What the caller returns has been true since the end of the transfer.    *)
LEMMA ReturnKeepsIInv ==
    ASSUME IInv, Return, ~Pending
    PROVE  IInv'
<1> USE LengthAssumption DEF IInv, Return, Pending, Code,
        Typed, TwiType, HwType, BusType, CallType, Before, After, OpState
<1>1. Typed'
  <2>1. /\ twi' = twi /\ hw' = hw /\ bus' = bus /\ call' = call
        /\ late' \in BOOLEAN
        /\ pc' \in {"app", "busy", "enable", "command", "state", "ack", "poll"}
    OBVIOUS
  <2> HIDE DEF Return, TwiType, HwType, BusType, CallType
  <2> QED
    BY <2>1
<1>2. CallInOrder' /\ CommandsInOrder' /\ ReadsInBounds'
  BY DEF CallInOrder, CommandsInOrder, NoResult, ReadsInBounds
<1>3. WriteInOrder' /\ WriteIsTrue'
  BY DEF CallInOrder, CommandsInOrder, WriteInOrder, HandedOver, Byte, Address,
         WriteIsTrue, ResultStands, Truth, NoResult, Reported
<1>4. ReadInOrder'
  BY DEF CallInOrder, CommandsInOrder, ReadInOrder, Byte
<1>5. ReadIsTrue'
  <2> CASE call.op = "write"
    BY DEF ReadIsTrue
  <2> CASE call.op = "read"
    <3> SUFFICES ASSUME ~late
        PROVE  /\ result'.data = Message(Len(result'.data))
               /\ Len(result'.data) = result'.asked \/ hw.nack \/ hw.al
      BY DEF ReadIsTrue
    <3>1. twi.state = "READY" /\ twi.index <= call.len /\ result'.asked = call.len
      BY DEF CallInOrder, ReadIsTrue
    <3>2. \A n \in 0 .. twi.index - 1 : twi.buffer[n] = n + 1
      BY DEF ReadInOrder, Byte
    <3>3. result'.data = [m \in 1 .. twi.index |-> twi.buffer[m - 1]]
      BY <3>1
    <3>4. twi.index \in Nat
      OBVIOUS
    <3>5. result'.data = Message(twi.index)
      <4> HIDE DEF Return, TwiType, HwType, BusType, CallType
      <4> QED
        BY <3>2, <3>3, <3>4 DEF Message
    <3> QED
      BY <3>1, <3>4, <3>5, MessageIsSeq DEF ReadIsTrue
  <2> QED
    OBVIOUS
<1>6. ResultStands'
  <2>1. CASE twi.state = "READY"
    BY <2>1 DEF CallInOrder, CommandsInOrder, ResultStands, NoResult, Reported
  <2>2. CASE twi.state # "READY"
    <3>1. call.op = "write" /\ ~call.wait
      BY <2>2 DEF CallInOrder
    <3>2. result'.op = "unwaited" /\ result'.code = Code(twi.error)
      BY <3>1
    <3>3. twi.error = "none" \/ (twi.error = "ARB_LOST" /\ ~hw.inten)
      BY <2>2, <3>1 DEF WriteInOrder
    <3> QED
      BY <3>2, <3>3 DEF ResultStands, Reported
  <2> QED
    BY <2>1, <2>2
<1> QED
  BY <1>1, <1>2, <1>3, <1>4, <1>5, <1>6

-----------------------------------------------------------------------------
(* The handler.  The end of a transfer, whatever ends it: what the caller  *)
(* will return has to be true already.                                     *)
LEMMA EndKeepsIInv ==
    ASSUME IInv, Pending, UNCHANGED << bus, pc, call, result, late >>,
           twi' \in TwiType, twi'.state = "READY", twi'.length = twi.length,
           hw' = [hw EXCEPT !.cmd = hw'.cmd, !.inten = FALSE, !.irq = FALSE],
           hw'.cmd \in {hw.cmd, "stop", "start"},
           hw.al => hw'.cmd = hw.cmd,
           pc \in Before => twi'.index = twi.index,
           pc \in Before => twi'.error = twi.error \/ (twi'.error = "ARB_LOST" /\ hw.al),
           pc # "app" /\ call.op = "write" => twi'.buffer = twi.buffer,
           pc = "poll" /\ call.op = "write" => Truth(Code(twi'.error), call.len),
           pc = "poll" /\ call.op = "read" /\ ~late =>
                /\ \A n \in 0 .. twi'.index - 1 : twi'.buffer[n] = Byte(n)
                /\ twi'.index <= call.len
                /\ twi'.index = call.len \/ hw.nack \/ hw.al
    PROVE  IInv'
<1> USE LengthAssumption DEF IInv, Pending,
        Typed, TwiType, HwType, BusType, CallType, Before, After, OpState
<1>1. Typed'
  <2>1. hw' \in HwType
    OBVIOUS
  <2> HIDE DEF TwiType, HwType, BusType, CallType
  <2> QED
    BY <2>1
<1>2. CallInOrder' /\ CommandsInOrder' /\ ReadsInBounds'
  <2>1. hw.al => hw.cmd = "none"
    BY DEF CallInOrder, CommandsInOrder
  <2> QED
    BY <2>1 DEF CallInOrder, CommandsInOrder, ReadsInBounds, NoResult
<1>3. WriteInOrder'
  <2>1. ~hw'.inten /\ pc' = pc /\ call' = call /\ pc # "enable" /\ hw'.al = hw.al
    BY DEF CallInOrder, CommandsInOrder
  <2>2. pc = "command" => ~hw.al
    BY DEF CallInOrder, CommandsInOrder
  <2> HIDE DEF TwiType, HwType, BusType, CallType
  <2> QED
    BY <2>1, <2>2 DEF WriteInOrder
<1>4. WriteIsTrue'
  BY DEF WriteIsTrue, ResultStands, Truth, Reported
<1>5. ReadInOrder' /\ ReadIsTrue' /\ ResultStands'
  BY DEF CallInOrder, CommandsInOrder, ReadInOrder, ReadIsTrue, ResultStands, NoResult, Reported
<1> QED
  BY <1>1, <1>2, <1>3, <1>4, <1>5

LEMMA ArbitrationLostKeepsIInv ==
    ASSUME IInv, ArbitrationLost, UNCHANGED << bus, pc, call, result, late >>
    PROVE  IInv'
<1> USE LengthAssumption DEF IInv, ArbitrationLost, ReleaseBus, Pending,
        Typed, TwiType, HwType, BusType, CallType, Before, After, OpState
<1>1. /\ twi' = [twi EXCEPT !.error = "ARB_LOST", !.state = "READY"]
      /\ hw' = [hw EXCEPT !.inten = FALSE, !.irq = FALSE]
  OBVIOUS
<1>2. twi' \in TwiType /\ hw' \in HwType /\ hw'.cmd = hw.cmd
  BY DEF Error
<1>3. pc = "poll" /\ call.op = "write" => Truth(Code(twi'.error), call.len)
  BY <1>1 DEF Truth, Code
<1>4. pc = "poll" /\ call.op = "read" /\ ~late =>
                /\ \A n \in 0 .. twi'.index - 1 : twi'.buffer[n] = Byte(n)
                /\ twi'.index <= call.len
                /\ twi'.index = call.len \/ hw.nack \/ hw.al
  BY <1>1 DEF CallInOrder, ReadInOrder, ReadsInBounds, CommandsInOrder, ReadIsTrue
<1>5. hw' = [hw EXCEPT !.cmd = hw'.cmd, !.inten = FALSE, !.irq = FALSE]
  BY <1>1
<1>6. /\ twi'.state = "READY" /\ twi'.length = twi.length
      /\ twi'.index = twi.index /\ twi'.buffer = twi.buffer
      /\ twi'.error = "ARB_LOST" /\ hw.al
  BY <1>1
<1>7. Pending /\ IInv
  OBVIOUS
<1> HIDE DEF IInv, ArbitrationLost, Pending, TwiType, HwType, BusType, CallType
<1> QED
  BY <1>2, <1>3, <1>4, <1>5, <1>6, <1>7, EndKeepsIInv

(* The byte that was refused is not among those taken.                     *)
LEMMA NotAcknowledgedKeepsIInv ==
    ASSUME IInv, NotAcknowledged, UNCHANGED << bus, pc, call, result, late >>
    PROVE  IInv'
<1> USE LengthAssumption DEF IInv, NotAcknowledged, Stop, Pending,
        Typed, TwiType, HwType, BusType, CallType, Before, After, OpState
<1>1. hw' = [hw EXCEPT !.cmd = "stop", !.inten = FALSE, !.irq = FALSE]
  OBVIOUS
<1>2. twi' \in TwiType /\ hw' \in HwType /\ hw'.cmd = "stop"
  BY DEF Error
<1>3. pc = "poll" /\ call.op = "write" => Truth(Code(twi'.error), call.len)
  <2> SUFFICES ASSUME pc = "poll", call.op = "write" PROVE Truth(Code(twi'.error), call.len)
    OBVIOUS
  <2>1. twi.state = "MTX" /\ twi.index \in Nat /\ twi.index <= call.len /\ call.len \in Nat
    BY DEF CallInOrder, CommandsInOrder
  <2>2. HandedOver(twi.index)
    BY <2>1 DEF WriteInOrder, CommandsInOrder
  <2>3. twi'.error = IF twi.index = 0 THEN "SLA_NACK" ELSE "DATA_NACK"
    BY <2>1
  <2>4. CASE twi.index = 0
    BY <2>2, <2>3, <2>4 DEF Truth, Code, HandedOver
  <2>5. CASE twi.index > 0
    <3>1. twi.index - 1 \in Nat
      BY <2>1, <2>5
    <3>2. Len(Message(twi.index - 1)) = twi.index - 1
      BY <3>1, MessageIsSeq
    <3>3. bus.addressed /\ Len(bus.took) < call.len
      <4> HIDE DEF IInv, NotAcknowledged, Pending, TwiType, HwType, BusType, CallType
      <4> QED
        BY <2>1, <2>2, <2>5, <3>2 DEF HandedOver
    <3>4. Code(twi'.error) = 3
      BY <2>3, <2>5 DEF Code
    <3> QED
      BY <3>3, <3>4 DEF Truth
  <2> QED
    BY <2>1, <2>4, <2>5
<1>4. pc = "poll" /\ call.op = "read" /\ ~late =>
                /\ \A n \in 0 .. twi'.index - 1 : twi'.buffer[n] = Byte(n)
                /\ twi'.index <= call.len
                /\ twi'.index = call.len \/ hw.nack \/ hw.al
  BY DEF CallInOrder, ReadInOrder, ReadIsTrue
<1>5. hw' = [hw EXCEPT !.cmd = hw'.cmd, !.inten = FALSE, !.irq = FALSE]
  BY <1>1
<1>6. /\ twi'.state = "READY" /\ twi'.length = twi.length
      /\ twi'.index = twi.index /\ twi'.buffer = twi.buffer
      /\ ~hw.al /\ (pc \in Before => twi'.error = twi.error)
  BY DEF CallInOrder
<1>7. Pending /\ IInv
  OBVIOUS
<1> HIDE DEF IInv, NotAcknowledged, Pending, TwiType, HwType, BusType, CallType
<1> QED
  BY <1>2, <1>3, <1>4, <1>5, <1>6, <1>7, EndKeepsIInv

(* The next byte of the message, or the end: it was all taken.             *)
LEMMA TransmittedKeepsIInv ==
    ASSUME IInv, Transmitted, UNCHANGED << bus, pc, call, result, late >>
    PROVE  IInv'
<1> USE LengthAssumption DEF IInv, Transmitted, Pending,
        Typed, TwiType, HwType, BusType, CallType, Before, After, OpState
<1>1. /\ twi.state = "MTX" /\ twi.index \in Nat /\ twi.length \in Nat /\ twi.index <= twi.length
      /\ hw.inten /\ hw.irq /\ ~hw.al /\ ~hw.nack
      /\ pc \notin Before \cup {"ack"} /\ ~Reported /\ result.op # "read"
      /\ pc = "poll" => call.op = "write" /\ hw.cmd = "none" /\ twi.length = call.len
  BY DEF CallInOrder, CommandsInOrder, ResultStands
<1>2. pc = "poll" => bus.addressed /\ bus.took = Message(twi.index) /\ twi.error = "none"
  BY <1>1 DEF WriteInOrder
<1>3. CASE twi.index < twi.length
  <2>1. twi' = [twi EXCEPT !.index = twi.index + 1]
    BY <1>3
  <2>2. hw' = [hw EXCEPT !.tx = twi.buffer[twi.index], !.cmd = "write", !.irq = FALSE]
    BY <1>3
  <2>3. twi' \in TwiType
    <3>1. twi.index + 1 \in 0 .. BufferLength
      BY <1>3
    <3> HIDE DEF Transmitted
    <3> QED
      BY <2>1, <3>1
  <2>4. hw' \in HwType
    <3>1. twi.buffer[twi.index] \in Value
      BY <1>3
    <3> HIDE DEF Transmitted
    <3> QED
      BY <2>2, <3>1
  <2> HIDE DEF Transmitted
  <2>5. Typed'
    <3> HIDE DEF TwiType, HwType
    <3> QED
      BY <2>3, <2>4
  <2>6. CallInOrder'
    BY <1>1, <1>3, <2>1, <2>2 DEF CallInOrder
  <2>7. CommandsInOrder'
    BY <1>1, <1>3, <2>1, <2>2 DEF CommandsInOrder
  <2>8. ReadsInBounds'
    BY <1>1, <1>3, <2>1, <2>2 DEF ReadsInBounds
  <2>9. WriteInOrder'
    <3>1. pc = "poll" => twi.buffer[twi.index] = twi.index + 1
      <4>1. pc = "poll" => \A n \in 0 .. call.len - 1 : twi.buffer[n] = Byte(n)
        BY <1>1 DEF WriteInOrder
      <4> HIDE DEF IInv, Pending, TwiType, HwType, BusType, CallType
      <4> QED
        BY <1>1, <1>3, <4>1 DEF Byte
    <3>2. /\ twi'.index = twi.index + 1 /\ twi'.buffer = twi.buffer /\ twi'.error = twi.error
          /\ hw'.tx = twi.buffer[twi.index] /\ hw'.cmd = "write"
      BY <2>1, <2>2
    <3>3. pc = "poll" => HandedOver(twi.index + 1)
      BY <1>1, <1>2 DEF HandedOver
    <3>4. twi.index + 1 > 0 /\ (twi.index + 1) - 1 = twi.index
      BY <1>1
    <3>5. twi.index + 1 # 0
      BY <3>4
    <3> HIDE DEF TwiType, HwType, BusType, CallType
    <3> QED
      BY <1>1, <1>2, <3>1, <3>2, <3>4, <3>5 DEF WriteInOrder, HandedOver
  <2>10. WriteIsTrue' /\ ReadIsTrue' /\ ResultStands'
    BY <1>1, <2>1, <2>2 DEF WriteIsTrue, ReadIsTrue, ResultStands, Reported
  <2>11. ReadInOrder'
    BY <1>1, <2>1, <2>2 DEF ReadInOrder
  <2> QED
    BY <2>5, <2>6, <2>7, <2>8, <2>9, <2>10, <2>11
<1>4. CASE ~(twi.index < twi.length)
  <2>1. /\ twi'.state = "READY" /\ twi'.length = twi.length /\ twi'.index = twi.index
        /\ twi'.buffer = twi.buffer /\ twi'.error = twi.error /\ twi' \in TwiType
    <3>1. \/ twi' = [twi EXCEPT !.state = "READY"]
          \/ twi' = [twi EXCEPT !.inRepStart = TRUE, !.state = "READY"]
      BY <1>4 DEF Finish, Stop
    <3>2. twi \in TwiType
      OBVIOUS
    <3> HIDE DEF IInv, Transmitted, Pending
    <3> QED
      BY <3>1, <3>2
  <2>2. /\ hw' = [hw EXCEPT !.cmd = hw'.cmd, !.inten = FALSE, !.irq = FALSE]
        /\ hw'.cmd \in {hw.cmd, "stop", "start"}
    BY <1>4 DEF Finish, Stop
  <2>3. pc = "poll" /\ call.op = "write" => Truth(Code(twi'.error), call.len)
    <3>1. twi.index = twi.length
      BY <1>1, <1>4
    <3> HIDE DEF IInv, Transmitted, Pending, TwiType, HwType, BusType, CallType
    <3> QED
      BY <1>1, <1>2, <2>1, <3>1 DEF Truth, Code
  <2>4. Pending /\ IInv
    OBVIOUS
  <2> HIDE DEF IInv, Transmitted, Pending, TwiType, HwType, BusType, CallType
  <2> QED
    BY <1>1, <2>1, <2>2, <2>3, <2>4, EndKeepsIInv
<1> QED
  BY <1>3, <1>4

(* The next byte of the device, or the end: t is the driver with the byte  *)
(* that has come.                                                          *)
LEMMA ReceivedKeepsIInv ==
    ASSUME IInv, Received, UNCHANGED << bus, pc, call, result, late >>
    PROVE  IInv'
<1> USE LengthAssumption DEF IInv, Received, Pending,
        Typed, TwiType, HwType, BusType, CallType, Before, After, OpState
<1> DEFINE t == IF twi.addressAck THEN [twi EXCEPT !.addressAck = FALSE]
                ELSE [twi EXCEPT !.buffer[twi.index] = hw.rx, !.index = @ + 1]
<1>1. /\ twi.state = "MRX" /\ twi.index \in Nat /\ twi.length \in Nat
      /\ twi.index = 0 \/ twi.index < twi.length
      /\ hw.inten /\ hw.irq /\ ~hw.al /\ ~hw.nack
      /\ pc \notin Before /\ ~Reported /\ result.op # "read"
      /\ pc \in {"ack", "poll"} => call.op = "read" /\ hw.cmd = "none" /\ twi.length = call.len
  BY DEF CallInOrder, CommandsInOrder, ResultStands
<1>2. t \in TwiType
  <2>1. CASE twi.addressAck
    BY <2>1
  <2>2. CASE ~twi.addressAck
    <3>1. twi.index \in 0 .. BufferLength - 1 /\ hw.rx \in Value
      BY <1>1
    <3>2. [twi.buffer EXCEPT ![twi.index] = hw.rx] \in [0 .. BufferLength - 1 -> Value]
      BY <3>1
    <3>3. t = [twi EXCEPT !.buffer = [twi.buffer EXCEPT ![twi.index] = hw.rx],
                          !.index = twi.index + 1]
      BY <2>2
    <3>4. twi.index + 1 \in 0 .. BufferLength
      BY <3>1
    <3> HIDE DEF Received, t
    <3> QED
      BY <3>2, <3>3, <3>4
  <2> QED
    BY <2>1, <2>2
<1>3. /\ t.state = "MRX" /\ t.length = twi.length /\ t.error = twi.error /\ ~t.addressAck
      /\ twi.addressAck => t.index = twi.index /\ t.buffer = twi.buffer
      /\ ~twi.addressAck => /\ t.index = twi.index + 1
                            /\ t.buffer = [twi.buffer EXCEPT ![twi.index] = hw.rx]
  OBVIOUS
<1>4. pc \in {"poll"} /\ ~late => /\ \A n \in 0 .. t.index - 1 : t.buffer[n] = Byte(n)
                                  /\ t.index <= call.len
  <2> SUFFICES ASSUME pc = "poll", ~late
      PROVE  (\A n \in 0 .. t.index - 1 : t.buffer[n] = Byte(n)) /\ t.index <= call.len
    OBVIOUS
  <2>1. \A n \in 0 .. twi.index - 1 : twi.buffer[n] = Byte(n)
    BY <1>1 DEF ReadInOrder
  <2>2. CASE twi.addressAck
    <3> HIDE DEF t
    <3> QED
      BY <1>1, <1>3, <2>2 DEF ReadInOrder
  <2>3. CASE ~twi.addressAck
    <3>1. hw.rx = Byte(twi.index) /\ twi.index < twi.length
      BY <1>1, <2>3 DEF ReadInOrder
    <3>2. DOMAIN twi.buffer = 0 .. BufferLength - 1 /\ twi.length <= BufferLength
      OBVIOUS
    <3> HIDE DEF t, IInv, Received, TwiType, HwType, BusType, CallType
    <3> QED
      BY <1>1, <1>3, <2>1, <2>3, <3>1, <3>2
  <2> QED
    BY <2>2, <2>3
<1>5. CASE t.index < t.length
  <2>1. twi' = t /\ hw' = [hw EXCEPT !.cmd = "read", !.irq = FALSE]
    BY <1>5
  <2>2. hw' \in HwType
    BY <2>1
  <2> HIDE DEF Received, t
  <2>3. Typed'
    <3> HIDE DEF TwiType, HwType
    <3> QED
      BY <1>2, <2>1, <2>2
  <2>4. CallInOrder'
    BY <1>1, <1>3, <1>5, <2>1 DEF CallInOrder
  <2>5. CommandsInOrder'
    BY <1>1, <1>3, <1>5, <2>1 DEF CommandsInOrder
  <2>6. ReadsInBounds'
    BY <1>1, <1>3, <1>5, <2>1 DEF ReadsInBounds
  <2>7. WriteInOrder'
    BY <1>1, <1>3, <2>1 DEF WriteInOrder
  <2>8. WriteIsTrue' /\ ReadIsTrue' /\ ResultStands'
    BY <1>1, <1>3, <2>1 DEF WriteIsTrue, ReadIsTrue, ResultStands, Reported
  <2>9. ReadInOrder'
    <3>1. /\ twi'.index = t.index /\ twi'.buffer = t.buffer /\ twi'.length = t.length
          /\ ~twi'.addressAck /\ hw'.cmd = "read" /\ ~hw'.irq
      BY <1>3, <2>1
    <3>2. ~late => pc # "ack"
      BY <1>1 DEF ReadInOrder
    <3>3. pc = "poll" /\ ~late => bus.gave = t.index
      BY <1>1, <1>3 DEF ReadInOrder
    <3> HIDE DEF t, IInv, Pending, TwiType, HwType, BusType, CallType
    <3> QED
      BY <1>1, <1>4, <1>5, <3>1, <3>2, <3>3 DEF ReadInOrder
  <2> QED
    BY <2>3, <2>4, <2>5, <2>6, <2>7, <2>8, <2>9
<1>6. CASE ~(t.index < t.length)
  <2>1. /\ twi'.state = "READY" /\ twi'.length = twi.length /\ twi'.index = t.index
        /\ twi'.buffer = t.buffer /\ twi' \in TwiType
    <3>1. Finish(t)
      BY <1>6
    <3>2. \/ twi' = [t EXCEPT !.state = "READY"]
          \/ twi' = [t EXCEPT !.inRepStart = TRUE, !.state = "READY"]
      <4> HIDE DEF t, Received
      <4> QED
        BY <3>1 DEF Finish, Stop
    <3> HIDE DEF t, IInv, Received, Pending
    <3> QED
      BY <1>2, <1>3, <3>2
  <2>2. /\ hw' = [hw EXCEPT !.cmd = hw'.cmd, !.inten = FALSE, !.irq = FALSE]
        /\ hw'.cmd \in {hw.cmd, "stop", "start"}
    BY <1>6 DEF Finish, Stop
  <2>3. pc = "poll" /\ ~late => t.index = call.len
    <3> HIDE DEF t, Received
    <3> QED
      BY <1>1, <1>3, <1>4, <1>6, <1>2
  <2>4. Pending /\ IInv
    OBVIOUS
  <2>5. pc \notin Before /\ (pc # "app" => call.op = "read")
    BY <1>1
  <2> HIDE DEF t, IInv, Received, Pending, TwiType, HwType, BusType, CallType, Before
  <2> QED
    BY <1>1, <1>4, <2>1, <2>2, <2>3, <2>4, <2>5, EndKeepsIInv
<1> QED
  BY <1>5, <1>6

LEMMA IgnoredKeepsIInv ==
    ASSUME IInv, Ignored, UNCHANGED << bus, pc, call, result, late >>
    PROVE  IInv'
<1> USE LengthAssumption DEF IInv, Ignored, Pending,
        Typed, TwiType, HwType, BusType, CallType, Before, After, OpState
<1>1. Typed'
  <2>1. hw' \in HwType
    BY DEF Value, Address
  <2>2. /\ twi' = twi /\ bus' = bus /\ call' = call
        /\ late' \in BOOLEAN
        /\ pc' \in {"app", "busy", "enable", "command", "state", "ack", "poll"}
    OBVIOUS
  <2> HIDE DEF Ignored, TwiType, HwType, BusType, CallType
  <2> QED
    BY <2>1, <2>2
<1>2. CallInOrder' /\ CommandsInOrder' /\ ReadsInBounds'
  BY DEF CallInOrder, CommandsInOrder, NoResult, ReadsInBounds
<1>3. WriteInOrder'
  <2>1. /\ hw'.cmd = hw.cmd /\ hw'.inten = hw.inten /\ hw'.irq = FALSE /\ hw'.al = hw.al
        /\ twi' = twi /\ pc' = pc /\ call' = call
    OBVIOUS
  <2>2. pc # "poll" /\ hw.cmd # "write"
    BY DEF CallInOrder, CommandsInOrder
  <2> HIDE DEF Ignored, TwiType, HwType, BusType, CallType
  <2> QED
    BY <2>1, <2>2 DEF WriteInOrder
<1>4. WriteIsTrue'
  BY DEF CallInOrder, CommandsInOrder, WriteInOrder, WriteIsTrue, ResultStands,
         Truth, HandedOver, NoResult, Reported
<1>5. ReadInOrder' /\ ReadIsTrue' /\ ResultStands'
  BY DEF CallInOrder, CommandsInOrder, ReadInOrder, Byte, ReadIsTrue, ResultStands,
         NoResult, Reported
<1> QED
  BY <1>1, <1>2, <1>3, <1>4, <1>5

-----------------------------------------------------------------------------
(* The controller and the other masters.  The device takes the address or  *)
(* the next byte of the message, or it refuses it.                         *)
LEMMA WriteOverKeepsIInv ==
    ASSUME IInv, NEW nack \in BOOLEAN, WriteOver(nack)
    PROVE  IInv'
<1> USE LengthAssumption DEF IInv, WriteOver, Over,
        Typed, TwiType, HwType, BusType, CallType, Before, After, OpState
<1>1. Typed'
  <2>1. hw' \in HwType
    OBVIOUS
  <2>2. bus' \in BusType
    <3>1. \/ bus' = bus
          \/ bus' = [bus EXCEPT !.addressed = TRUE]
          \/ bus' = [bus EXCEPT !.took = Append(bus.took, hw.tx)]
      OBVIOUS
    <3>2. Append(bus.took, hw.tx) \in Seq(Value)
      OBVIOUS
    <3>3. CASE bus' = bus
      BY <3>3
    <3>4. CASE bus' = [bus EXCEPT !.addressed = TRUE]
      <4> HIDE DEF WriteOver
      <4> QED
        BY <3>4
    <3>5. CASE bus' = [bus EXCEPT !.took = Append(bus.took, hw.tx)]
      <4> HIDE DEF WriteOver
      <4> QED
        BY <3>2, <3>5
    <3> QED
      BY <3>1, <3>3, <3>4, <3>5
  <2>3. twi' = twi /\ pc' = pc /\ call' = call /\ late' \in BOOLEAN
    OBVIOUS
  <2> HIDE DEF WriteOver, TwiType, HwType, BusType, CallType
  <2> QED
    BY <2>1, <2>2, <2>3
<1>2. CallInOrder' /\ CommandsInOrder' /\ ReadsInBounds'
  BY DEF CallInOrder, CommandsInOrder, NoResult, ReadsInBounds
<1>3. WriteInOrder'
  <2>1. twi' = twi /\ pc' = pc /\ call' = call /\ hw'.inten = hw.inten /\ hw'.cmd = "none"
        /\ hw'.al = hw.al /\ hw'.nack = nack
    OBVIOUS
  <2> SUFFICES ASSUME pc \in {"state", "poll"}, hw.inten, call.op = "write"
      PROVE  IF nack THEN HandedOver(twi.index)'
             ELSE bus'.addressed /\ bus'.took = Message(twi.index)
    <3> HIDE DEF WriteOver, TwiType, HwType, BusType, CallType
    <3> QED
      BY <2>1 DEF WriteInOrder
  <2>2. hw.tx = twi.index /\ HandedOver(twi.index)
    BY DEF WriteInOrder
  <2>3. twi.index \in Nat
    OBVIOUS
  <2>4. CASE nack
    <3>1. bus' = bus
      BY <2>4
    <3> HIDE DEF WriteOver, TwiType, HwType, BusType, CallType
    <3> QED
      BY <2>1, <2>2, <2>4, <3>1 DEF HandedOver
  <2>5. CASE ~nack /\ twi.index = 0
    <3>1. bus' = [bus EXCEPT !.addressed = TRUE]
      BY <2>2, <2>5 DEF Address
    <3>2. bus'.addressed /\ bus'.took = bus.took
      BY <3>1
    <3> HIDE DEF WriteOver, TwiType, HwType, BusType, CallType
    <3> QED
      BY <2>2, <2>5, <3>2 DEF HandedOver
  <2>6. CASE ~nack /\ twi.index > 0
    <3>1. bus' = [bus EXCEPT !.took = Append(bus.took, hw.tx)]
      BY <2>2, <2>6 DEF Address
    <3>2. bus'.addressed = bus.addressed /\ bus'.took = Append(bus.took, twi.index)
      BY <2>2, <3>1
    <3>3. Append(Message(twi.index - 1), twi.index) = Message(twi.index)
      <4>1. twi.index - 1 \in Nat /\ (twi.index - 1) + 1 = twi.index
        BY <2>3, <2>6
      <4> HIDE DEF WriteOver, TwiType, HwType, BusType, CallType
      <4> QED
        BY <4>1, MessageGrows
    <3> HIDE DEF WriteOver, TwiType, HwType, BusType, CallType
    <3> QED
      BY <2>2, <2>3, <2>6, <3>2, <3>3 DEF HandedOver
  <2> QED
    BY <2>3, <2>4, <2>5, <2>6
<1>4. WriteIsTrue'
  BY DEF CallInOrder, CommandsInOrder, WriteInOrder, WriteIsTrue, ResultStands,
         Truth, HandedOver, NoResult, Reported
<1>5. ReadInOrder' /\ ReadIsTrue' /\ ResultStands'
  BY DEF CallInOrder, CommandsInOrder, ReadInOrder, Byte, ReadIsTrue, ResultStands,
         NoResult, Reported
<1> QED
  BY <1>1, <1>2, <1>3, <1>4, <1>5

(* The byte read is one the buffer has room for: ReadsInBounds.            *)
LEMMA ReadOverKeepsIInv ==
    ASSUME IInv, ReadOver
    PROVE  IInv'
<1> USE LengthAssumption DEF IInv, ReadOver, Over, Byte,
        Typed, TwiType, HwType, BusType, CallType, Before, After, OpState
<1>1. Typed'
  <2>1. bus.gave \in 0 .. BufferLength
    BY DEF CommandsInOrder, ReadsInBounds
  <2>2. hw' \in HwType
    <3>1. bus.gave + 1 \in Value
      BY <2>1 DEF Value
    <3>2. hw' = [hw EXCEPT !.cmd = "none", !.irq = TRUE, !.nack = FALSE,
                          !.rx = bus.gave + 1]
      OBVIOUS
    <3> HIDE DEF ReadOver
    <3> QED
      BY <3>1, <3>2
  <2>3. bus' \in BusType
    <3>1. bus' = [owner |-> bus.owner, addressed |-> bus.addressed, took |-> bus.took,
                  gave |-> bus.gave + 1]
      OBVIOUS
    <3> HIDE DEF ReadOver, TwiType, HwType, CallType
    <3> QED
      BY <2>1, <3>1
  <2>4. twi' = twi /\ pc' = pc /\ call' = call /\ late' \in BOOLEAN
    OBVIOUS
  <2> HIDE DEF ReadOver, TwiType, HwType, BusType, CallType
  <2> QED
    BY <2>2, <2>3, <2>4
<1>2. CallInOrder' /\ CommandsInOrder' /\ ReadsInBounds'
  BY DEF CallInOrder, CommandsInOrder, NoResult, ReadsInBounds
<1>3. WriteInOrder' /\ WriteIsTrue'
  BY DEF CallInOrder, CommandsInOrder, WriteInOrder, HandedOver, Byte, Address,
         WriteIsTrue, ResultStands, Truth, NoResult, Reported
<1>4. ReadInOrder' /\ ReadIsTrue' /\ ResultStands'
  BY DEF CallInOrder, CommandsInOrder, ReadInOrder, Byte, ReadIsTrue, ResultStands,
         NoResult, Reported
<1> QED
  BY <1>1, <1>2, <1>3, <1>4

LEMMA StopOverKeepsIInv ==
    ASSUME IInv, StopOver
    PROVE  IInv'
<1> USE LengthAssumption DEF IInv, StopOver, Over,
        Typed, TwiType, HwType, BusType, CallType, Before, After, OpState
<1>1. Typed'
  <2>1. hw' \in HwType
    BY DEF Value, Address
  <2>2. bus' \in BusType
    BY DEF Value
  <2>3. /\ twi' = twi /\ call' = call
        /\ late' \in BOOLEAN
        /\ pc' \in {"app", "busy", "enable", "command", "state", "ack", "poll"}
    OBVIOUS
  <2> HIDE DEF StopOver, TwiType, HwType, BusType, CallType
  <2> QED
    BY <2>1, <2>2, <2>3
<1>2. CallInOrder' /\ CommandsInOrder' /\ ReadsInBounds'
  BY DEF CallInOrder, CommandsInOrder, NoResult, ReadsInBounds
<1>3. WriteInOrder' /\ WriteIsTrue'
  BY DEF CallInOrder, CommandsInOrder, WriteInOrder, HandedOver, Byte, Address,
         WriteIsTrue, ResultStands, Truth, NoResult, Reported
<1>4. ReadInOrder' /\ ReadIsTrue' /\ ResultStands'
  BY DEF CallInOrder, CommandsInOrder, ReadInOrder, Byte, ReadIsTrue, ResultStands,
         NoResult, Reported
<1> QED
  BY <1>1, <1>2, <1>3, <1>4

LEMMA StartOverKeepsIInv ==
    ASSUME IInv, StartOver
    PROVE  IInv'
<1> USE LengthAssumption DEF IInv, StartOver, Over,
        Typed, TwiType, HwType, BusType, CallType, Before, After, OpState
<1>1. Typed'
  <2>1. hw' \in HwType
    BY DEF Value, Address
  <2>2. /\ twi' = twi /\ bus' = bus /\ call' = call
        /\ late' \in BOOLEAN
        /\ pc' \in {"app", "busy", "enable", "command", "state", "ack", "poll"}
    OBVIOUS
  <2> HIDE DEF StartOver, TwiType, HwType, BusType, CallType
  <2> QED
    BY <2>1, <2>2
<1>2. CallInOrder' /\ CommandsInOrder' /\ ReadsInBounds'
  BY DEF CallInOrder, CommandsInOrder, NoResult, ReadsInBounds
<1>3. WriteInOrder' /\ WriteIsTrue'
  BY DEF CallInOrder, CommandsInOrder, WriteInOrder, HandedOver, Byte, Address,
         WriteIsTrue, ResultStands, Truth, NoResult, Reported
<1>4. ReadInOrder' /\ ReadIsTrue' /\ ResultStands'
  BY DEF CallInOrder, CommandsInOrder, ReadInOrder, Byte, ReadIsTrue, ResultStands,
         NoResult, Reported
<1> QED
  BY <1>1, <1>2, <1>3, <1>4

LEMMA LoseArbitrationKeepsIInv ==
    ASSUME IInv, LoseArbitration
    PROVE  IInv'
<1> USE LengthAssumption DEF IInv, LoseArbitration, Over,
        Typed, TwiType, HwType, BusType, CallType, Before, After, OpState
<1>1. Typed'
  <2>1. hw' \in HwType
    BY DEF Value, Address
  <2>2. bus' \in BusType
    BY DEF Value
  <2>3. /\ twi' = twi /\ call' = call
        /\ late' \in BOOLEAN
        /\ pc' \in {"app", "busy", "enable", "command", "state", "ack", "poll"}
    OBVIOUS
  <2> HIDE DEF LoseArbitration, TwiType, HwType, BusType, CallType
  <2> QED
    BY <2>1, <2>2, <2>3
<1>2. CallInOrder' /\ CommandsInOrder' /\ ReadsInBounds'
  BY DEF CallInOrder, CommandsInOrder, NoResult, ReadsInBounds
<1>3. WriteInOrder' /\ WriteIsTrue'
  BY DEF CallInOrder, CommandsInOrder, WriteInOrder, HandedOver, Byte, Address,
         WriteIsTrue, ResultStands, Truth, NoResult, Reported
<1>4. ReadInOrder' /\ ReadIsTrue' /\ ResultStands'
  BY DEF CallInOrder, CommandsInOrder, ReadInOrder, Byte, ReadIsTrue, ResultStands,
         NoResult, Reported
<1> QED
  BY <1>1, <1>2, <1>3, <1>4

LEMMA OtherMastersKeepIInv ==
    ASSUME IInv, OtherTakesBus \/ OtherLeavesBus
    PROVE  IInv'
<1>1. /\ UNCHANGED << twi, hw, pc, call, result, late >> /\ bus'.owner \in {"other", "nobody"}
      /\ bus' = [bus EXCEPT !.owner = bus'.owner]
  BY DEF OtherTakesBus, OtherLeavesBus, Bus, IInv, Typed, BusType
<1>2. bus' \in BusType
  BY <1>1 DEF IInv, Typed, BusType
<1>3. bus'.addressed = bus.addressed /\ bus'.took = bus.took /\ bus'.gave = bus.gave
  BY <1>1 DEF IInv, Typed, BusType
<1> QED
  BY <1>1, <1>2, <1>3
  DEF IInv, Typed, CallInOrder, CommandsInOrder, ReadsInBounds, WriteInOrder,
      WriteIsTrue, ReadInOrder, ReadIsTrue, ResultStands, HandedOver, Truth, Reported

-----------------------------------------------------------------------------
LEMMA NextKeepsIInv ==
    ASSUME IInv, [Next]_vars PROVE IInv'
<1>1. CASE App
  <2>1. ASSUME NEW op \in {"read", "write"}, NEW len \in Lengths, Refuse(op, len)
        PROVE  IInv'
    BY <2>1, RefuseKeepsIInv
  <2>2. ASSUME NEW op \in {"read", "write"}, NEW len \in Lengths,
               NEW wait \in BOOLEAN, NEW stop \in BOOLEAN, op = "read" => wait,
               Accept(op, len, wait, stop)
        PROVE  IInv'
    BY <2>2, AcceptKeepsIInv, LengthAssumption
  <2> QED
    BY <1>1, <2>1, <2>2 DEF App
<1>2. CASE Caller
  BY <1>2, PrepareKeepsIInv, EnableInterruptKeepsIInv, CommandKeepsIInv,
     SetStateKeepsIInv, SetAddressAckKeepsIInv, ReturnKeepsIInv DEF Caller
<1>3. CASE ISR_I2C
  BY <1>3, ArbitrationLostKeepsIInv, TransmittedKeepsIInv, ReceivedKeepsIInv,
     IgnoredKeepsIInv, NotAcknowledgedKeepsIInv DEF ISR_I2C
<1>4. CASE Controller
  BY <1>4, WriteOverKeepsIInv, ReadOverKeepsIInv, StopOverKeepsIInv,
     StartOverKeepsIInv, LoseArbitrationKeepsIInv DEF Controller
<1>5. CASE OtherTakesBus \/ OtherLeavesBus
  BY <1>5, OtherMastersKeepIInv
<1>6. CASE UNCHANGED vars
  BY <1>6 DEF vars, IInv, Typed, CallInOrder, CommandsInOrder, ReadsInBounds, WriteInOrder,
              WriteIsTrue, ReadInOrder, ReadIsTrue, ResultStands, HandedOver, Truth, Reported
<1> QED
  BY <1>1, <1>2, <1>3, <1>4, <1>5, <1>6 DEF Next

LEMMA IInvAlways == Spec => []IInv
<1>1. IInv /\ [Next]_vars => IInv'
  BY NextKeepsIInv
<1> QED
  BY <1>1, InitIInv, PTL DEF Spec

-----------------------------------------------------------------------------
(* No transfer runs past twi_masterBuffer (twi.c), for every size of it    *)
(* and every length a caller asks for, in whatever order the interrupts    *)
(* come.                                                                   *)
THEOREM BufferBoundsThm == Spec => []TypeOK
<1>1. IInv => TypeOK
  BY DEF IInv, Typed, TwiType, HwType, BusType, Value, TypeOK
<1> QED
  BY <1>1, IInvAlways, PTL

(* twi_writeTo returns what happened on the bus, for every message: also   *)
(* when the interrupt of the transfer before is still pending.             *)
THEOREM WritesReportTheTruthThm == Spec => []WritesReportTheTruth
<1>1. IInv => WritesReportTheTruth
  BY DEF IInv, WriteIsTrue, Truth, Reported, WritesReportTheTruth
<1> QED
  BY <1>1, IInvAlways, PTL

(* twi_readFrom returns what the device sent, in order and for every       *)
(* length, when the caller was in time.                                    *)
THEOREM ReadsReturnWhatWasSentThm == Spec => []ReadsReturnWhatWasSent
<1>1. IInv => ReadsReturnWhatWasSent
  BY DEF IInv, ReadIsTrue, ReadsReturnWhatWasSent
<1> QED
  BY <1>1, IInvAlways, PTL
=============================================================================
