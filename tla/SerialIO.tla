------------------------------ MODULE SerialIO ------------------------------
(***************************************************************************)
(* SerialPosix (serial_posix.cpp) and SerialBase (serial_base.cpp): moving *)
(* bytes through a port, with one thread that reads and one that writes.   *)
(* Bytes are numbered in the order in which they arrive, and in the order  *)
(* in which they are given to write(), so that a byte lost, repeated or    *)
(* moved shows.                                                            *)
(***************************************************************************)
EXTENDS Naturals, Sequences, SequencesExt

CONSTANTS
    MaxIn,       \* bound: bytes that arrive
    MaxOut,      \* bound: bytes given to write()
    Room,        \* bytes the output queue of the terminal takes
    Endings      \* the sequences that read_until looks for

ASSUME IOAssumption ==
    MaxIn \in Nat /\ MaxOut \in Nat /\ Room \in Nat /\ Endings \subseteq Seq(Nat)

VARIABLES
    ready,       \* is_open_
    vmin,        \* VMIN: 1 with an inter-byte timeout
    arrived,     \* bytes that arrived
    rx,          \* the input queue of the terminal
    handed,      \* history: bytes that left rx for a caller, in order
    dropped,     \* history: bytes that reset_input_buffer() threw away
    reader,      \* the call that reads, or the last that did
    offered,     \* bytes that were given to write()
    put,         \* history: bytes that the output queue took, in order
    queued,      \* bytes in the output queue
    writer       \* the call that writes, or the last that did

input == <<arrived, rx, handed, dropped>>
output == <<offered, put, queued>>
ioVars == <<ready, vmin, input, reader, output, writer>>

\* The timeouts: milliseconds::max(), milliseconds::zero(), any other.
Waits == {"infinite", "non_blocking", "timed"}

NoRead == [op |-> "read", state |-> "returned", n |-> 0, b |-> <<>>, temp |-> <<>>,
           expected |-> <<>>, wait |-> "non_blocking", late |-> TRUE, due |-> TRUE]
NoWrite == [op |-> "write", state |-> "returned", d |-> <<>>, n |-> 0, first |-> 1,
            wait |-> "non_blocking", late |-> TRUE]

IOInit ==
    /\ ready \in BOOLEAN
    /\ vmin \in 0 .. 1
    /\ arrived = 0 /\ rx = <<>> /\ handed = <<>> /\ dropped = {}
    /\ reader = NoRead
    /\ offered = 0 /\ put = <<>> /\ queued = 0
    /\ writer = NoWrite

-----------------------------------------------------------------------------
(* The terminal.                                                           *)

Arrive ==
    /\ ready /\ arrived < MaxIn
    /\ arrived' = arrived + 1
    /\ rx' = Append(rx, arrived + 1)
    /\ UNCHANGED <<ready, vmin, handed, dropped, reader, output, writer>>

Transmit ==
    /\ queued > 0
    /\ queued' = queued - 1
    /\ UNCHANGED <<ready, vmin, input, reader, offered, put, writer>>

-----------------------------------------------------------------------------
(* Reading.  In `temp` is the vector of read(), in `b` that of the caller. *)

Busy(call) == call.state = "busy"

\* Timeout::Timeout: without blocking it has expired at once.
Expired(wait) == wait = "non_blocking"

\* How read() and read_all() begin, with timeout_ as it is now; read_all asks
\* the terminal for n first.
ReadBegin(op, n, wait) ==
    /\ ~Busy(reader)
    /\ op = "read_all" => n = Len(rx)
    /\ reader' = [NoRead EXCEPT !.op = op, !.n = n, !.wait = wait, !.late = Expired(wait),
                     !.state = IF ~ready THEN "threw" ELSE IF n = 0 THEN "returned" ELSE "busy"]
    /\ UNCHANGED <<ready, vmin, input, output, writer>>

UntilBegin(expected, len, wait) ==
    /\ ~Busy(reader)
    /\ reader' = [NoRead EXCEPT !.op = "read_until", !.expected = expected, !.n = len, !.wait = wait,
                     !.late = Expired(wait), !.due = Expired(wait),
                     !.state = IF ready THEN "busy" ELSE "threw"]
    /\ UNCHANGED <<ready, vmin, input, output, writer>>

\* What the read() in this call asks for.
Wanted(call) == IF call.op = "read_until" THEN 1 ELSE call.n

\* Fault: one byte more before the ending is looked for.
Ends_Later(b, expected) == Len(b) > Len(expected) /\ IsSuffix(expected, b)

Ends(b, expected) == Len(b) >= Len(expected) /\ IsSuffix(expected, b)

\* The end of a pass of the loop of read(), with the bytes `temp`, and when it
\* is the last, of the loop of read_until(), which starts another read().
Passed(call, temp) ==
    LET b == call.b \o temp
        over == temp = <<>> \/ Ends(b, call.expected) \/ (call.n # 0 /\ Len(b) >= call.n) \/ call.due
    IN  IF Len(temp) < Wanted(call) /\ ~call.late THEN [call EXCEPT !.temp = temp]
        ELSE IF call.op # "read_until" \/ over
        THEN [call EXCEPT !.b = b, !.temp = <<>>, !.state = "returned"]
        ELSE [call EXCEPT !.b = b, !.temp = <<>>, !.late = Expired(call.wait)]

\* select() finds bytes, or a signal ends it, and ::read takes some.
ReadSome ==
    /\ Busy(reader)
    /\ \E k \in 1 .. Len(rx) :
          /\ k <= Wanted(reader) - Len(reader.temp)
          /\ rx' = SubSeq(rx, k + 1, Len(rx))
          /\ handed' = handed \o SubSeq(rx, 1, k)
          /\ reader' = Passed(reader, reader.temp \o SubSeq(rx, 1, k))
    /\ UNCHANGED <<ready, vmin, arrived, dropped, output, writer>>

\* select() is at the end of its time, or a signal ends it and with VMIN the
\* terminal says EAGAIN: errors that read() goes on after.
ReadNone ==
    /\ Busy(reader) /\ rx = <<>>
    /\ reader.late \/ vmin = 1
    /\ reader' = Passed(reader, reader.temp)
    /\ UNCHANGED <<ready, vmin, input, output, writer>>

\* The device fails or is gone; or a signal ends select(), or another thread
\* took what it had found, and without VMIN ::read returns 0.  What was read
\* is in the caller's vector.
ReadThrow ==
    /\ Busy(reader)
    /\ reader' = [reader EXCEPT !.state = "threw", !.b = @ \o reader.temp, !.temp = <<>>]
    /\ UNCHANGED <<ready, vmin, input, output, writer>>

\* The clock: the deadline of read_until is never after that of its read().
Elapse ==
    /\ \/ /\ Busy(reader) /\ reader.wait = "timed"
          /\ \/ ~reader.due /\ reader' = [reader EXCEPT !.due = TRUE]
             \/ reader.due /\ ~reader.late /\ reader' = [reader EXCEPT !.late = TRUE]
             \/ /\ reader.op # "read_until" /\ ~reader.late
                /\ reader' = [reader EXCEPT !.late = TRUE]
          /\ UNCHANGED writer
       \/ /\ Busy(writer) /\ writer.wait = "timed" /\ ~writer.late
          /\ writer' = [writer EXCEPT !.late = TRUE]
          /\ UNCHANGED reader
    /\ UNCHANGED <<ready, vmin, input, output>>

ResetInput ==
    /\ ready /\ rx # <<>>
    /\ rx' = <<>>
    /\ dropped' = dropped \cup ToSet(rx)
    /\ UNCHANGED <<ready, vmin, arrived, handed, reader, output, writer>>

-----------------------------------------------------------------------------
(* Writing.  d is what is left, n what ::write took in this pass.          *)

WriteBegin(len, wait) ==
    /\ ~Busy(writer) /\ offered + len <= MaxOut
    /\ offered' = offered + len
    /\ writer' = [NoWrite EXCEPT !.d = [i \in 1 .. len |-> offered + i],
                     !.first = offered + 1, !.wait = wait, !.late = Expired(wait),
                     !.state = IF ~ready THEN "threw" ELSE IF len = 0 THEN "returned" ELSE "busy"]
    /\ UNCHANGED <<ready, vmin, input, reader, put, queued>>

\* write_port, which takes what there is room for, or nothing with an error
\* that write() goes on after.
WriteSome ==
    /\ Busy(writer) /\ writer.op = "write"
    /\ \E n \in 0 .. Len(writer.d) :
          /\ queued + n <= Room
          /\ queued' = queued + n
          /\ put' = put \o SubSeq(writer.d, 1, n)
          /\ writer' = [writer EXCEPT !.n = n, !.op = "wait_write",
                           !.state = IF writer.wait = "non_blocking" THEN "returned" ELSE @]
    /\ UNCHANGED <<ready, vmin, input, reader, offered>>

\* Fault: nothing is erased after a pass.
Erased_Nothing(call) == call.d

Erased(call) == SubSeq(call.d, call.n + 1, Len(call.d))

\* The terminal has room, or a signal came, which only the wait without an end
\* goes on after.
WaitWrite ==
    /\ Busy(writer) /\ writer.op = "wait_write"
    /\ ~writer.late
    /\ queued < Room \/ writer.wait = "infinite"
    /\ writer' = [writer EXCEPT !.op = "write", !.d = Erased(writer),
                     !.state = IF writer.n = Len(writer.d) THEN "returned" ELSE @]
    /\ UNCHANGED <<ready, vmin, input, reader, output>>

\* An error of ::write, select() that fails or is interrupted or at the end of
\* its time, also when every byte was taken.
WriteThrow ==
    /\ Busy(writer)
    /\ writer' = [writer EXCEPT !.state = "threw"]
    /\ UNCHANGED <<ready, vmin, input, reader, output>>

\* flush() comes back when the output queue is empty.
FlushBegin ==
    /\ ~Busy(writer)
    /\ writer' = [NoWrite EXCEPT !.op = "flush", !.first = offered + 1,
                     !.state = IF ready THEN "busy" ELSE "threw"]
    /\ UNCHANGED <<ready, vmin, input, reader, output>>

FlushReturn ==
    /\ Busy(writer) /\ writer.op = "flush" /\ queued = 0
    /\ writer' = [writer EXCEPT !.state = "returned"]
    /\ UNCHANGED <<ready, vmin, input, reader, output>>

ResetOutput ==
    /\ ready /\ queued > 0
    /\ queued' = 0
    /\ UNCHANGED <<ready, vmin, input, reader, offered, put, writer>>

-----------------------------------------------------------------------------
IONext ==
    \/ Arrive \/ Transmit \/ Elapse
    \/ \E wait \in Waits :
          \/ \E n \in 0 .. MaxIn : ReadBegin("read", n, wait) \/ ReadBegin("read_all", n, wait)
          \/ \E expected \in Endings, len \in 0 .. MaxIn : UntilBegin(expected, len, wait)
          \/ \E len \in 0 .. MaxOut : WriteBegin(len, wait)
    \/ ReadSome \/ ReadNone \/ ReadThrow \/ ResetInput
    \/ WriteSome \/ WaitWrite \/ WriteThrow
    \/ FlushBegin \/ FlushReturn \/ ResetOutput

IOSpec == IOInit /\ [][IONext]_ioVars

-----------------------------------------------------------------------------
(* Correctness.                                                            *)

Before(seq) == \A i, j \in 1 .. Len(seq) : i < j => seq[i] < seq[j]

\* Every byte that arrived is with a caller, waiting or was thrown away by a
\* reset, once and in its order; and the terminal was given the bytes of the
\* writes in their order, none twice and of each write a beginning.
BytesInOrder ==
    /\ Before(handed \o rx)
    /\ ToSet(handed \o rx) \cup dropped = 1 .. arrived
    /\ IsSuffix(reader.b \o reader.temp, handed)
    /\ Before(put)
    /\ \A x \in ToSet(put) : \A y \in writer.first .. offered :
          x >= writer.first /\ y < x => y \in ToSet(put)

\* What callers may rely on.  read() returns fewer bytes than it was asked for
\* only when its time is over; read_until() takes no byte after the ending, and
\* stops before the ending only at its length or its time.  write() that
\* returns has written everything, or as many bytes as it says.
CallsDeliver ==
    /\ reader.state = "returned" =>
          IF reader.op # "read_until" THEN Len(reader.b) = reader.n \/ reader.late
          ELSE \/ reader.due \/ Ends(reader.b, reader.expected)
               \/ reader.n # 0 /\ Len(reader.b) = reader.n
    /\ reader.op = "read_until" =>
          \A k \in 1 .. Len(reader.b) - 1 : ~IsSuffix(reader.expected, SubSeq(reader.b, 1, k))
    /\ writer.state = "returned" /\ writer.op # "flush" =>
          LET told == IF writer.wait = "non_blocking" THEN writer.n ELSE offered + 1 - writer.first
          IN  ToSet(put) \cap (writer.first .. offered) = writer.first .. writer.first + told - 1
=============================================================================
