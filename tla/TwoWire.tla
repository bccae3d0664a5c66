------------------------------- MODULE TwoWire -------------------------------
(***************************************************************************)
(* The interrupt-driven I2C master of the Arduino library (twi.c).  A call *)
(* prepares a transfer, gives the first command to the controller and      *)
(* polls twi_state until the handler ISR_I2C has led the transfer to its   *)
(* end, byte by byte.                                                      *)
(*                                                                         *)
(* A step of the caller is a statement on what it shares with the handler  *)
(* or the controller.  The handler runs with interrupts off, so it is one  *)
(* step, and a pending interrupt is taken before the caller's next step.   *)
(* The controller is outside the sources: it is what its registers in the  *)
(* datasheet say, and it raises its interrupt flag whenever a command is   *)
(* over.  Bytes are their numbers in the message.                          *)
(***************************************************************************)
EXTENDS Naturals, SequencesExt

CONSTANTS
    BufferLength,   \* TWI_BUFFER_LENGTH
    Lengths         \* the lengths callers ask for

ASSUME LengthAssumption ==
    BufferLength \in Nat \ {0} /\ Lengths \subseteq Nat

VARIABLES
    twi,    \* the static variables of twi.c
    hw,     \* the registers of the controller, the command it works on
    bus,    \* who holds the bus, and what the device took and gave
    pc,     \* where the caller is
    call,   \* the arguments of its call
    result, \* what the last call returned
    late    \* history: a command was over before the caller had set twi_state

vars == << twi, hw, bus, pc, call, result, late >>

Address == 0                    \* in the TX register
Byte(n) == n + 1                \* what the caller puts in data[n]
Message(n) == [m \in 1 .. n |-> m]

OpState(op) == IF op = "read" THEN "MRX" ELSE "MTX"

\* A result's op is that of the call, or "refused", or "unwaited" for a write
\* that returns without waiting for its end.
NoResult == [op |-> "none", code |-> 0, data |-> << >>, asked |-> 0]

-----------------------------------------------------------------------------
(* twi_readFrom and twi_writeTo.                                           *)

\* A length the buffer has no room for is refused, and so is a call that
\* finds another under way.  Reads return the same two numbers as writes,
\* though the caller takes what a read returns for a number of bytes.
Refuse(op, len) ==
    /\ pc = "app"
    /\ BufferLength < len \/ twi.state # "READY"
    /\ twi' = IF BufferLength < len THEN twi ELSE [twi EXCEPT !.error = "BUS_ERROR"]
    /\ result' = [op |-> "refused", code |-> IF BufferLength < len THEN 1 ELSE 4,
                  asked |-> len, data |-> << >>]
    /\ UNCHANGED << hw, bus, pc, call, late >>

\* Mutant: the length is not compared with the buffer.
AcceptAnyLength(op, len, wait, stop) ==
    /\ pc = "app"
    /\ twi.state = "READY"
    /\ pc' = "busy"
    /\ call' = [op |-> op, len |-> len, wait |-> wait, stop |-> stop]
    /\ result' = NoResult
    /\ UNCHANGED << twi, hw, bus, late >>

Accept(op, len, wait, stop) ==
    /\ pc = "app"
    /\ len <= BufferLength /\ twi.state = "READY"
    /\ pc' = "busy"
    /\ call' = [op |-> op, len |-> len, wait |-> wait, stop |-> stop]
    /\ result' = NoResult
    /\ UNCHANGED << twi, hw, bus, late >>

\* The bus is free: set up the transfer.
Prepare ==
    /\ pc = "busy" /\ bus.owner = "nobody"
    /\ twi' = [twi EXCEPT !.sendStop = call.stop, !.error = "none",
                          !.index = 0, !.length = call.len,
                          !.buffer = IF call.op = "read" THEN @
                                     ELSE [n \in DOMAIN @ |->
                                            IF n < call.len THEN Byte(n) ELSE @[n]]]
    /\ hw' = [hw EXCEPT !.tx = Address]
    /\ pc' = "enable"
    /\ UNCHANGED << bus, call, result, late >>

EnableInterrupt ==
    /\ pc = "enable"
    /\ hw' = [hw EXCEPT !.inten = TRUE]
    /\ pc' = "command"
    /\ UNCHANGED << twi, bus, call, result, late >>

\* A START takes a free bus, and clears the status of a lost arbitration.
Command ==
    /\ pc = "command"
    /\ twi' = [twi EXCEPT !.inRepStart = FALSE]
    /\ hw'  = [hw EXCEPT !.cmd = "write", !.al = @ /\ twi.inRepStart]
    /\ bus' = [owner |-> IF bus.owner = "nobody" THEN "us" ELSE bus.owner,
               addressed |-> FALSE, took |-> << >>, gave |-> 0]
    /\ late' = FALSE
    /\ pc' = "state"
    /\ UNCHANGED << call, result >>

Code(error) == CASE error = "none"      -> 0
                 [] error = "SLA_NACK"  -> 2
                 [] error = "DATA_NACK" -> 3
                 [] OTHER               -> 4

SetState ==
    /\ pc = "state"
    /\ twi' = [twi EXCEPT !.state = OpState(call.op)]
    /\ pc' = IF call.op = "read" THEN "ack" ELSE "poll"
    /\ UNCHANGED << hw, bus, call, result, late >>

SetAddressAck ==
    /\ pc = "ack"
    /\ twi' = [twi EXCEPT !.addressAck = TRUE]
    /\ pc' = "poll"
    /\ UNCHANGED << hw, bus, call, result, late >>

\* The transfer is over, or the call does not wait for that: a write returns
\* its error, a read the bytes it has.
Return ==
    LET n == IF twi.index < call.len THEN twi.index ELSE call.len IN
    /\ pc = "poll" /\ (call.wait => twi.state # OpState(call.op))
    /\ result' = IF call.op = "read"
                 THEN [op |-> "read", code |-> 0, asked |-> call.len,
                       data |-> [m \in 1 .. n |-> twi.buffer[m - 1]]]
                 ELSE [op |-> IF call.wait THEN "write" ELSE "unwaited",
                       code |-> Code(twi.error), asked |-> call.len, data |-> << >>]
    /\ pc' = "app"
    /\ UNCHANGED << twi, hw, bus, call, late >>

-----------------------------------------------------------------------------
(* The interrupt handler.                                                  *)

Pending == hw.irq /\ hw.inten

\* Mutant: the state stays that of the transfer.
StopKeepsState(t) == /\ twi' = t
                     /\ hw'  = [hw EXCEPT !.cmd = "stop", !.inten = FALSE, !.irq = FALSE]

\* twi_stop, twi_releaseBus
Stop(t)       == /\ twi' = [t EXCEPT !.state = "READY"]
                 /\ hw'  = [hw EXCEPT !.cmd = "stop", !.inten = FALSE, !.irq = FALSE]
ReleaseBus(t) == /\ twi' = [t EXCEPT !.state = "READY"]
                 /\ hw'  = [hw EXCEPT !.inten = FALSE, !.irq = FALSE]

\* After the last byte: a STOP, or a START for the next transfer.
Finish(t) ==
    IF twi.sendStop THEN Stop(t)
    ELSE /\ twi' = [t EXCEPT !.inRepStart = TRUE, !.state = "READY"]
         /\ hw'  = [hw EXCEPT !.cmd = "start", !.inten = FALSE, !.irq = FALSE]

ArbitrationLost ==
    /\ Pending /\ hw.al
    /\ ReleaseBus([twi EXCEPT !.error = "ARB_LOST"])

Transmitted ==
    /\ Pending /\ ~hw.al /\ ~hw.nack /\ twi.state = "MTX"
    /\ IF twi.index < twi.length
       THEN /\ twi' = [twi EXCEPT !.index = @ + 1]
            /\ hw'  = [hw EXCEPT !.tx = twi.buffer[twi.index], !.cmd = "write", !.irq = FALSE]
       ELSE Finish(twi)

\* Mutant: the acknowledge of the address is taken for a byte.
ReceivedAddressToo ==
    LET t == [twi EXCEPT !.buffer[twi.index] = hw.rx, !.index = @ + 1]
    IN /\ Pending /\ ~hw.al /\ ~hw.nack /\ twi.state = "MRX"
       /\ IF t.index < t.length
          THEN twi' = t /\ hw' = [hw EXCEPT !.cmd = "read", !.irq = FALSE]
          ELSE Finish(t)

Received ==
    LET t == IF twi.addressAck THEN [twi EXCEPT !.addressAck = FALSE]
             ELSE [twi EXCEPT !.buffer[twi.index] = hw.rx, !.index = @ + 1]
    IN /\ Pending /\ ~hw.al /\ ~hw.nack /\ twi.state = "MRX"
       /\ IF t.index < t.length
          THEN twi' = t /\ hw' = [hw EXCEPT !.cmd = "read", !.irq = FALSE]
          ELSE Finish(t)

\* Between two transfers the handler only takes the interrupt back.
Ignored ==
    /\ Pending /\ ~hw.al /\ ~hw.nack /\ twi.state = "READY"
    /\ hw' = [hw EXCEPT !.irq = FALSE]
    /\ UNCHANGED twi

\* Mutant: the two errors are mixed up.
NotAcknowledgedSwapped ==
    /\ Pending /\ ~hw.al /\ hw.nack
    /\ Stop(IF twi.state # "MTX" THEN twi
            ELSE [twi EXCEPT !.error = IF twi.index = 0 THEN "DATA_NACK" ELSE "SLA_NACK"])

\* Only a transmitter notes the error.
NotAcknowledged ==
    /\ Pending /\ ~hw.al /\ hw.nack
    /\ Stop(IF twi.state # "MTX" THEN twi
            ELSE [twi EXCEPT !.error = IF twi.index = 0 THEN "SLA_NACK" ELSE "DATA_NACK"])

ISR_I2C ==
    /\ ArbitrationLost \/ Transmitted \/ Received \/ Ignored \/ NotAcknowledged
    /\ UNCHANGED << bus, pc, call, result, late >>

-----------------------------------------------------------------------------
(* The controller, the device and the other masters of the bus.            *)

Over == /\ hw.cmd # "none"
        /\ late' = (late \/ pc \in {"state", "ack"})
        /\ UNCHANGED << twi, pc, call, result >>

\* The device acknowledges the address or a byte, or it does not.
WriteOver(nack) ==
    /\ hw.cmd = "write" /\ bus.owner = "us" /\ Over
    /\ hw' = [hw EXCEPT !.cmd = "none", !.irq = TRUE, !.nack = nack]
    /\ bus' = IF nack THEN bus
              ELSE IF hw.tx = Address THEN [bus EXCEPT !.addressed = TRUE]
              ELSE [bus EXCEPT !.took = Append(@, hw.tx)]

\* The controller acknowledges what it reads.
ReadOver ==
    /\ hw.cmd = "read" /\ Over
    /\ hw' = [hw EXCEPT !.cmd = "none", !.irq = TRUE, !.nack = FALSE,
                        !.rx = Byte(bus.gave)]
    /\ bus' = [bus EXCEPT !.gave = @ + 1]

StopOver ==
    /\ hw.cmd = "stop" /\ Over
    /\ hw'  = [hw EXCEPT !.cmd = "none", !.irq = TRUE]
    /\ bus' = [bus EXCEPT !.owner = IF @ = "us" THEN "nobody" ELSE @]

StartOver ==
    /\ hw.cmd = "start" /\ Over
    /\ hw' = [hw EXCEPT !.cmd = "none", !.irq = TRUE]
    /\ UNCHANGED bus

LoseArbitration ==
    /\ hw.cmd = "write" /\ Over
    /\ hw'  = [hw EXCEPT !.cmd = "none", !.irq = TRUE, !.al = TRUE]
    /\ bus' = [bus EXCEPT !.owner = "other"]

Bus == hw' = hw /\ UNCHANGED << twi, pc, call, result, late >>
OtherTakesBus == bus.owner = "nobody" /\ bus' = [bus EXCEPT !.owner = "other"] /\ Bus
OtherLeavesBus ==
    bus.owner = "other" /\ hw.cmd = "none" /\ bus' = [bus EXCEPT !.owner = "nobody"] /\ Bus

Controller ==
    \/ \E nack \in BOOLEAN : WriteOver(nack)
    \/ ReadOver \/ StopOver \/ StartOver \/ LoseArbitration

-----------------------------------------------------------------------------
Init ==
    /\ twi = [state |-> "READY", sendStop |-> TRUE, inRepStart |-> FALSE,
              index |-> 0, length |-> 0, error |-> "none", addressAck |-> FALSE,
              buffer |-> [n \in 0 .. BufferLength - 1 |-> 0]]
    /\ hw = [inten |-> FALSE, irq |-> FALSE, cmd |-> "none", tx |-> Address,
             rx |-> 0, nack |-> FALSE, al |-> FALSE]
    /\ bus = [owner |-> "nobody", addressed |-> FALSE, took |-> << >>, gave |-> 0]
    /\ pc = "app"
    /\ call = [op |-> "read", len |-> 0, wait |-> TRUE, stop |-> TRUE]
    /\ result = NoResult
    /\ late = FALSE

Caller == ~Pending /\ (Prepare \/ EnableInterrupt \/ Command \/ SetState
                       \/ SetAddressAck \/ Return)

App ==
    /\ ~Pending
    /\ \E op \in {"read", "write"}, len \in Lengths :
        \/ Refuse(op, len)
        \/ \E wait, stop \in BOOLEAN :
            (op = "read" => wait) /\ Accept(op, len, wait, stop)

Next == App \/ Caller \/ ISR_I2C \/ Controller \/ OtherTakesBus \/ OtherLeavesBus

Spec == Init /\ [][Next]_vars

\* The caller and the controller get on, and other masters leave the bus.
FairSpec ==
    /\ Spec
    /\ WF_vars(Caller) /\ WF_vars(ISR_I2C) /\ WF_vars(Controller)
    /\ WF_vars(OtherLeavesBus) /\ SF_vars(Prepare)

-----------------------------------------------------------------------------
(* Properties.                                                             *)

\* The variables keep their types: no transfer runs past twi_masterBuffer.
TypeOK ==
    /\ twi.state \in {"READY", "MRX", "MTX"}
    /\ twi.index \in 0 .. BufferLength /\ twi.length \in 0 .. BufferLength
    /\ twi.buffer \in [0 .. BufferLength - 1 -> 0 .. BufferLength + 1]
    /\ hw.cmd \in {"none", "write", "read", "stop", "start"}
    /\ bus.owner \in {"nobody", "us", "other"}

\* What twi_writeTo returns is what happened on the bus: 0 only when the
\* device took the address and every byte in order, 2 only when it refused
\* the address, 3 only when it refused a byte, 4 only after a lost
\* arbitration; stale interrupts of the transfer before change nothing.  A
\* call that does not wait and returns 0 says nothing of the transfer.
WritesReportTheTruth ==
    result.op = "write" \/ (result.op = "unwaited" /\ result.code # 0) =>
        /\ result.code = 0 => bus.addressed /\ bus.took = Message(result.asked)
        /\ result.code = 2 => ~bus.addressed
        /\ result.code = 3 => bus.addressed /\ Len(bus.took) < result.asked
        /\ result.code = 4 => hw.al

\* twi_readFrom returns the device's bytes in order, and all of them unless
\* the device was absent or the arbitration lost, provided that the caller
\* sets twi_state and Address_ACK before the address byte is over.
ReadsReturnWhatWasSent ==
    result.op = "read" /\ ~late =>
        /\ result.data = Message(Len(result.data))
        /\ Len(result.data) = result.asked \/ hw.nack \/ hw.al

\* A caller that polls twi_state returns, whatever the device answers and the
\* other masters do, provided that the interrupt is on and came no earlier
\* than the caller had set twi_state: the loops have no timeout.
WaitingCallsReturn == (pc = "poll" /\ hw.inten /\ ~late) ~> pc = "app"

\* The next call gets on after a transfer without a STOP ("Calling
\* endTransmission(false) allows a sketch to perform a repeated start").
RepeatedStartGoesOn == (pc = "busy" /\ twi.inRepStart) ~> pc # "busy"
=============================================================================
