------------------------------ MODULE TunDevice -----------------------------
(***************************************************************************)
(* The packet device of Linux: openLinuxTun of src/vpn/linux-tun.ts, the   *)
(* helper process it runs (src/vpn/native/tun.c), which owns the           *)
(* interface, and the frames on the two pipes between them                 *)
(* (PacketFraming of src/vpn/framing.ts and the loop of the helper).       *)
(*                                                                         *)
(* A pipe is a sequence of bytes, and a byte is a pair: the packet it      *)
(* belongs to and its place in that packet's frame, whose first two bytes  *)
(* say its length.  A pipe holds what its writer has buffered and what the *)
(* kernel has of it.  The helper may be killed, and may fail, at any time; *)
(* so may the host's process.                                              *)
(***************************************************************************)
EXTENDS Naturals, Sequences

CONSTANTS
  Sizes,      \* the lengths of the packets that are sent, in their order: 20 .. 1400 each
  Pipe,       \* bytes of a pipe that the kernel takes
  HighWater,  \* bytes at which the host's writer asks for a pause
  Commands    \* calls of ip: the address, the link, one route for each peer

ASSUME TunSizes  == Sizes \in Seq(Nat \ {0}) /\ Sizes # <<>>
ASSUME TunBounds == /\ Pipe \in Nat \ {0} /\ HighWater \in Nat /\ HighWater > Pipe
                    /\ Commands \in Nat /\ Commands >= 2

VARIABLES
  host,      \* where the host is between openLinuxTun and the end of close()
  named,     \* the helper has written the interface's name
  done,      \* calls of ip in effect on the interface
  exited,    \* the promise `closed` is resolved
  writable,  \* child.stdin is not destroyed
  stdin,     \* bytes on their way to the helper
  stdout,    \* bytes on their way to the host
  sending,   \* send() waits for "drain"
  sent,      \* packets handed to send()
  helper,    \* "none", "starting", "created", "running" or "exited"
  input,     \* the helper's input buffer: in_have and in_need
  output,    \* what it has still to write of a frame
  taken,     \* packets it has read from the interface
  injected,  \* packets it has written to the interface
  reader,    \* receive(): the chunk, the header and the packet it has of it
  delivered  \* packets it has delivered

tunVars == <<host, named, done, exited, writable, stdin, stdout, sending, sent, helper, input,
            output, taken, injected, reader, delivered>>
opening == <<named, done>>
sender  == <<sending, sent>>
buffers == <<input, output, taken, injected>>
receipt == <<reader, delivered>>

Packets  == DOMAIN Sizes
Frame(n) == [i \in 1 .. Sizes[n] + 2 |-> <<n, i>>]
Fewer(m, n) == IF m < n THEN m ELSE n

\* The length a header stands for; 0 if it is none.
PacketLength(header) ==
  IF \E n \in Packets : header = SubSeq(Frame(n), 1, 2) THEN Sizes[header[1][1]] ELSE 0

Alive == helper \in {"starting", "created", "running"}

-----------------------------------------------------------------------------
(* Opening and closing *)

\* The addresses are free and the helper is spawned, or cannot be; or they are not free.
Open ==
  /\ host = "idle"
  /\ \/ host' = "waiting" /\ helper' \in {"starting", "exited"}
     \/ host' = "failed" /\ UNCHANGED helper
  /\ UNCHANGED <<opening, exited, writable, stdin, stdout, sender, buffers, receipt>>

Ready ==
  /\ host = "waiting" /\ named
  /\ host' = "configuring"
  /\ UNCHANGED <<opening, exited, writable, stdin, stdout, sender, helper, buffers, receipt>>

\* One call of ip, which needs the interface; after the last the device is open.
Configures ==
  /\ host = "configuring" /\ helper = "running"
  /\ done' = done + 1
  /\ host' = IF done' = Commands THEN "open" ELSE host
  /\ UNCHANGED <<named, exited, writable, stdin, stdout, sender, helper, buffers, receipt>>

\* Fault: an open that fails leaves the helper to its garbage.
FailsAtOnce ==
  /\ host = "configuring" \/ (host = "waiting" /\ ~Alive)
  /\ host' = "failed"
  /\ UNCHANGED <<opening, exited, writable, stdin, stdout, sender, helper, buffers, receipt>>

\* The helper ended before it was ready, an address is routed elsewhere or a call of ip
\* fails: close() before the error.
Fails ==
  /\ host = "configuring" \/ (host = "waiting" /\ ~Alive)
  /\ host' = "giving up"
  /\ writable' = FALSE
  /\ UNCHANGED <<opening, exited, stdin, stdout, sender, helper, buffers, receipt>>

\* close(): stdin is destroyed, the helper gets SIGTERM, its end is awaited.
Close ==
  /\ host = "open"
  /\ host' = "closing"
  /\ writable' = FALSE
  /\ UNCHANGED <<opening, exited, stdin, stdout, sender, helper, buffers, receipt>>

Closed ==
  /\ exited
  /\ \/ host = "closing" /\ host' = "closed"
     \/ host = "giving up" /\ host' = "failed"
  /\ UNCHANGED <<opening, exited, writable, stdin, stdout, sender, helper, buffers, receipt>>

\* The "exit" event: node destroys stdin, what is left in stdout can still be read.
ExitEvent ==
  /\ helper = "exited" /\ ~exited /\ host # "dead"
  /\ exited' = TRUE
  /\ writable' = FALSE
  /\ UNCHANGED <<host, opening, stdin, stdout, sender, helper, buffers, receipt>>

\* The host's process ends, and its ends of the pipes with it.
HostDies ==
  /\ host # "dead"
  /\ host' = "dead"
  /\ writable' = FALSE /\ sending' = FALSE
  /\ stdout' = <<>>
  /\ reader' = [reader EXCEPT !.at = "failed", !.chunk = <<>>]
  /\ UNCHANGED <<opening, exited, stdin, sent, helper, buffers, delivered>>

-----------------------------------------------------------------------------
(* The host sends *)

\* Fault: a packet is written while the one before waits.
SendAnyway ==
  /\ host = "open" /\ writable
  /\ sent < Len(Sizes)
  /\ sent' = sent + 1
  /\ stdin' = stdin \o Frame(sent')
  /\ sending' = (Len(stdin') >= HighWater)
  /\ UNCHANGED <<host, opening, exited, writable, stdout, helper, buffers, receipt>>

\* One at a time; when the writer asks for a pause, send waits.
Send ==
  /\ host = "open" /\ writable
  /\ ~sending
  /\ sent < Len(Sizes)
  /\ sent' = sent + 1
  /\ stdin' = stdin \o Frame(sent')
  /\ sending' = (Len(stdin') >= HighWater)
  /\ UNCHANGED <<host, opening, exited, writable, stdout, helper, buffers, receipt>>

\* "drain": the kernel has it all; or "close", also when it came before send looked.
SendSettles ==
  /\ sending
  /\ Len(stdin) <= Pipe \/ ~writable
  /\ sending' = FALSE
  /\ UNCHANGED <<host, opening, exited, writable, stdin, stdout, sent, helper, buffers, receipt>>

-----------------------------------------------------------------------------
(* The host receives *)

\* The reader fails and destroys both streams.
Destroys ==
  /\ reader' = [reader EXCEPT !.at = "failed", !.chunk = <<>>]
  /\ writable' = FALSE
  /\ stdout' = <<>>

\* The next chunk, cut anywhere.
Chunk ==
  /\ reader.at = "reading" /\ reader.chunk = <<>>
  /\ host \in {"open", "closing", "closed"}
  /\ \E n \in 1 .. Len(stdout) :
       /\ reader' = [reader EXCEPT !.chunk = SubSeq(stdout, 1, n)]
       /\ stdout' = SubSeq(stdout, n + 1, Len(stdout))
  /\ UNCHANGED <<host, opening, exited, writable, stdin, sender, helper, buffers, delivered>>

\* Fault: what a chunk has behind the end of a packet is forgotten.
RestForgotten(n) == IF n = reader.length - Len(reader.body) THEN <<>>
                    ELSE SubSeq(reader.chunk, n + 1, Len(reader.chunk))

\* What is left of the chunk when n bytes have been copied.
Rest(n) == SubSeq(reader.chunk, n + 1, Len(reader.chunk))

\* Up to two bytes of it are a header's; a whole one says how long the packet is.
TakesHeader ==
  /\ reader.at = "reading" /\ reader.chunk # <<>> /\ reader.length = 0
  /\ LET n == Fewer(2 - Len(reader.header), Len(reader.chunk))
         header == reader.header \o SubSeq(reader.chunk, 1, n) IN
       IF Len(header) < 2
       THEN reader' = [reader EXCEPT !.chunk = Rest(n), !.header = header] /\ UNCHANGED <<writable, stdout>>
       ELSE IF PacketLength(header) = 0 THEN Destroys
       ELSE /\ reader' = [reader EXCEPT !.chunk = Rest(n), !.header = <<>>, !.length = PacketLength(header)]
            /\ UNCHANGED <<writable, stdout>>
  /\ UNCHANGED <<host, opening, exited, stdin, sender, helper, buffers, delivered>>

\* The others are the packet's; a whole one is delivered before more is taken.
TakesBody ==
  /\ reader.at = "reading" /\ reader.chunk # <<>> /\ reader.length > 0
  /\ LET n == Fewer(reader.length - Len(reader.body), Len(reader.chunk))
         body == reader.body \o SubSeq(reader.chunk, 1, n) IN
       reader' = [reader EXCEPT !.chunk = Rest(n), !.body = body,
                                !.at = IF Len(body) = reader.length THEN "delivering" ELSE @]
  /\ UNCHANGED <<host, opening, exited, writable, stdin, stdout, sender, helper, buffers, delivered>>

Delivers ==
  /\ reader.at = "delivering"
  /\ delivered' = Append(delivered, reader.body)
  /\ reader' = [reader EXCEPT !.at = "reading", !.body = <<>>, !.length = 0]
  /\ UNCHANGED <<host, opening, exited, writable, stdin, stdout, sender, helper, buffers>>

\* deliver throws.
DeliveryFails ==
  /\ reader.at = "delivering"
  /\ Destroys
  /\ UNCHANGED <<host, opening, exited, stdin, sender, helper, buffers, delivered>>

\* The helper has ended and all of stdout is read; in the middle of a frame that is an error.
StreamEnds ==
  /\ reader.at = "reading" /\ reader.chunk = <<>>
  /\ host \in {"open", "closing", "closed"}
  /\ helper = "exited" /\ stdout = <<>>
  /\ IF reader.header # <<>> \/ reader.length > 0 THEN Destroys
     ELSE reader' = [reader EXCEPT !.at = "ended"] /\ UNCHANGED <<writable, stdout>>
  /\ UNCHANGED <<host, opening, exited, stdin, sender, helper, buffers, delivered>>

-----------------------------------------------------------------------------
(* The helper *)

CreatesTun ==
  /\ helper = "starting" /\ helper' = "created"
  /\ UNCHANGED <<host, opening, exited, writable, stdin, stdout, sender, buffers, receipt>>

\* The name is written to descriptor 3, and the loop begins.
Reports ==
  /\ helper = "created" /\ helper' = "running"
  /\ named' = TRUE
  /\ UNCHANGED <<host, done, exited, writable, stdin, stdout, sender, buffers, receipt>>

\* It is killed, finds its host gone or fails: the interface goes, its address and routes.
Exits ==
  /\ Alive
  /\ helper' = "exited"
  /\ done' = 0
  /\ UNCHANGED <<host, named, exited, writable, stdin, stdout, sender, buffers, receipt>>

\* Up to in_need bytes are read; a header says how many more are needed.
ReadsByte ==
  /\ helper = "running"
  /\ stdin # <<>> /\ Len(input.have) < input.need
  /\ stdin' = Tail(stdin)
  /\ LET have == Append(input.have, Head(stdin)) IN
       IF Len(have) = 2 /\ input.need = 2
       THEN IF PacketLength(have) = 0
            THEN helper' = "exited" /\ done' = 0 /\ UNCHANGED input
            ELSE input' = [have |-> have, need |-> PacketLength(have) + 2] /\ UNCHANGED <<helper, done>>
       ELSE input' = [input EXCEPT !.have = have] /\ UNCHANGED <<helper, done>>
  /\ UNCHANGED <<host, named, exited, writable, stdout, sender, output, taken, injected, receipt>>

\* The interface takes the packet.
Injects ==
  /\ helper = "running"
  /\ input.need > 2 /\ Len(input.have) = input.need
  /\ injected' = Append(injected, SubSeq(input.have, 3, input.need))
  /\ input' = [have |-> <<>>, need |-> 2]
  /\ UNCHANGED <<host, opening, exited, writable, stdin, stdout, sender, helper, output, taken, receipt>>

\* The interface has packets once the second call of ip has set it up; the next one is
\* read when the one before is written.
ReadsPacket ==
  /\ helper = "running" /\ done >= 2 /\ output = <<>>
  /\ taken < Len(Sizes)
  /\ taken' = taken + 1
  /\ output' = Frame(taken')
  /\ UNCHANGED <<host, opening, exited, writable, stdin, stdout, sender, helper, input, injected, receipt>>

\* A write is cut anywhere: byte by byte, as far as there is room and somebody reads.
WritesByte ==
  /\ helper = "running" /\ output # <<>>
  /\ Len(stdout) < Pipe
  /\ reader.at # "failed"
  /\ stdout' = Append(stdout, Head(output))
  /\ output' = Tail(output)
  /\ UNCHANGED <<host, opening, exited, writable, stdin, sender, helper, input, taken, injected, receipt>>

-----------------------------------------------------------------------------
TunInit ==
  /\ host = "idle" /\ named = FALSE /\ done = 0 /\ exited = FALSE
  /\ writable = TRUE /\ stdin = <<>> /\ stdout = <<>>
  /\ sending = FALSE /\ sent = 0
  /\ helper = "none" /\ input = [have |-> <<>>, need |-> 2] /\ output = <<>>
  /\ taken = 0 /\ injected = <<>>
  /\ reader = [at |-> "reading", chunk |-> <<>>, header |-> <<>>, body |-> <<>>, length |-> 0]
  /\ delivered = <<>>

Receives == Chunk \/ TakesHeader \/ TakesBody \/ Delivers \/ DeliveryFails \/ StreamEnds
Helper   == CreatesTun \/ Reports \/ ReadsByte \/ Injects \/ ReadsPacket \/ WritesByte

TunNext ==
  \/ Open \/ Ready \/ Configures \/ Fails \/ Close \/ Closed \/ ExitEvent \/ HostDies
  \/ Send \/ SendSettles
  \/ Receives
  \/ Helper \/ Exits

TunSpec == TunInit /\ [][TunNext]_tunVars

\* The helper notices SIGTERM and a pipe without its other end; the system reports its
\* end; ip, send and close go on.  An open device need not do anything.
Fairness ==
  /\ WF_tunVars(CreatesTun) /\ WF_tunVars(Reports)
  /\ WF_tunVars(~writable /\ Exits) /\ WF_tunVars(ExitEvent)
  /\ WF_tunVars(Ready) /\ WF_tunVars(Configures \/ Fails) /\ WF_tunVars(Closed)
  /\ WF_tunVars(SendSettles)

TunFairSpec == TunSpec /\ Fairness

-----------------------------------------------------------------------------
(* Properties *)

Body(n) == SubSeq(Frame(n), 3, Sizes[n] + 2)
LongestFrame == CHOOSE n \in {Sizes[i] + 2 : i \in Packets} : \A i \in Packets : Sizes[i] + 2 <= n

\* The buffers are bounded, whatever the other side does: send() never has more than one
\* frame beyond the mark, the helper one packet each way.
TypeOK ==
  /\ host \in {"idle", "waiting", "configuring", "open", "closing", "giving up", "failed", "closed", "dead"}
  /\ helper \in {"none", "starting", "created", "running", "exited"}
  /\ {named, exited, writable, sending} \subseteq BOOLEAN
  /\ done \in 0 .. Commands /\ (done > 0 => helper = "running")
  /\ {sent, taken} \subseteq 0 .. Len(Sizes)
  /\ Len(stdin) < HighWater + LongestFrame /\ Len(stdout) <= Pipe
  /\ Len(input.have) <= input.need /\ input.need <= LongestFrame /\ Len(output) <= LongestFrame
  /\ reader.at \in {"reading", "delivering", "ended", "failed"}
  /\ Len(reader.header) < 2 /\ Len(reader.body) <= reader.length

\* However the bytes are cut and whoever ends when, packets come out whole, in order and
\* once: those injected are the first ones sent, those delivered the first ones taken; and a
\* stream that ends without an error has lost nothing that was written to it.
PacketsArriveWhole ==
  /\ Len(injected) <= sent /\ \A i \in DOMAIN injected : injected[i] = Body(i)
  /\ Len(delivered) <= taken /\ \A i \in DOMAIN delivered : delivered[i] = Body(i)
  /\ reader.at = "ended" => \/ output = <<>> /\ Len(delivered) = taken
                            \/ output # <<>> /\ output = Frame(taken) /\ Len(delivered) = taken - 1

\* "Closing it removes the interface and its routes, including on startup failure or process
\* termination" (docs/peer-vpn.md): when an open has failed or a close has returned there is
\* no interface, both do come to an end, no send waits for ever after that, and an
\* interface does not outlive the process of its host for long.
ClosingRemovesIt ==
  /\ [](host \in {"failed", "closed"} => ~Alive)
  /\ host \in {"waiting", "configuring", "giving up", "closing"} ~> host \in {"open", "failed", "closed", "dead"}
  /\ host = "closing" ~> ~sending
  /\ host = "dead" ~> ~Alive

=============================================================================
