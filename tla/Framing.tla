------------------------------ MODULE Framing ------------------------------
(***************************************************************************)
(* How bcaster cuts the byte stream of one client into packets             *)
(* (repeat_receiving_function of main.c): recv appends what there is to    *)
(* the client's buffer, a loop processes the complete packets at the front *)
(* of it, and what is left is moved to the front.  A packet is a header of *)
(* HEADER_BYTES, of which the first LEN_BYTES are the length of the rest,  *)
(* and the rest.  A byte is its number in the stream; packet m is the      *)
(* bytes after number Starts[m], up to number Starts[m + 1].               *)
(***************************************************************************)
EXTENDS Naturals, SequencesExt

CONSTANTS
  LEN_BYTES, HEADER_BYTES,  \* 4 and 20 in the code
  MAX_SIZE,                 \* of a client's buffer
  StartChoices              \* where the packets may start, and the last one end

ASSUME FramingAssumption ==
  /\ LEN_BYTES \in Nat \ {0} /\ HEADER_BYTES \in Nat /\ HEADER_BYTES > LEN_BYTES
  /\ MAX_SIZE \in Nat
  /\ \A starts \in StartChoices :
       /\ starts \in Seq(Nat) /\ Len(starts) > 0 /\ starts[1] = 0
       /\ \A j, k \in DOMAIN starts : j < k => starts[j] + HEADER_BYTES <= starts[k]

VARIABLES
  Starts,          \* of the packets this client sends
  pos,             \* how much of the stream recv has returned
  buffer,          \* CLIENT.buffer, as far as it is filled
  next_pkt,        \* where CLIENT.next_pkt points into it
  bytes_expected,
  looping,         \* in the loop, not in recv
  processed,       \* what process_pkt was given
  mixed            \* history: a packet of another size was behind a complete one

framingVars == <<Starts, pos, buffer, next_pkt, bytes_expected, looping, processed, mixed>>

PacketNumbers == 1..(Len(Starts) - 1)
Total   == Starts[Len(Starts)]
Size(m) == Starts[m + 1] - Starts[m] - HEADER_BYTES   \* without the header
Bytes(from, n) == [k \in 1..n |-> from + k]
Packet(m) == Bytes(Starts[m], HEADER_BYTES + Size(m))

bytes_received == Len(buffer) - next_pkt + 1

\* the length in the header at byte b, which can be any where no packet starts
pkt_get_length(b) ==
  IF \E m \in PacketNumbers : b = Starts[m] + 1
  THEN {Size(m) : m \in {k \in PacketNumbers : b = Starts[k] + 1}}
  ELSE 0..MAX_SIZE

FramingInit ==
  /\ Starts \in StartChoices
  /\ pos = 0 /\ buffer = <<>> /\ next_pkt = 1 /\ bytes_expected = 0
  /\ looping = FALSE /\ processed = <<>> /\ mixed = FALSE

\* lisa_recv_part2 returns n bytes
Recv(n) ==
  /\ ~looping
  /\ Len(buffer) + n <= MAX_SIZE /\ pos + n <= Total
  /\ buffer' = buffer \o Bytes(pos, n)
  /\ pos' = pos + n
  /\ looping' = TRUE
  /\ UNCHANGED <<Starts, next_pkt, bytes_expected, processed, mixed>>

LoopGoesOn == bytes_received >= LEN_BYTES /\ bytes_expected <= bytes_received

\* The length is read where the buffer begins, not where the packet does.
Expect ==
  IF bytes_expected = 0 THEN {HEADER_BYTES + size : size \in pkt_get_length(buffer[1])}
                        ELSE {bytes_expected}

Process ==
  /\ looping /\ LoopGoesOn
  /\ \E expected \in Expect :
       IF expected <= bytes_received
       THEN /\ processed' = Append(processed, SubSeq(buffer, next_pkt, next_pkt + expected - 1))
            /\ next_pkt' = next_pkt + expected /\ bytes_expected' = 0
       ELSE bytes_expected' = expected /\ UNCHANGED <<processed, next_pkt>>
  /\ mixed' = (mixed \/ (/\ bytes_expected = 0
                         /\ pkt_get_length(buffer[next_pkt]) # pkt_get_length(buffer[1])))
  /\ UNCHANGED <<Starts, pos, buffer, looping>>

\* Mutant: the rest is not moved.
LeavesRest ==
  /\ looping /\ ~LoopGoesOn
  /\ buffer' = SubSeq(buffer, 1, bytes_received) /\ next_pkt' = 1
  /\ looping' = FALSE
  /\ UNCHANGED <<Starts, pos, bytes_expected, processed, mixed>>

Relocate ==
  /\ looping /\ ~LoopGoesOn
  /\ buffer' = SubSeq(buffer, next_pkt, Len(buffer)) /\ next_pkt' = 1
  /\ looping' = FALSE
  /\ UNCHANGED <<Starts, pos, bytes_expected, processed, mixed>>

FramingNext == Process \/ Relocate \/ \E n \in 1..MAX_SIZE : Recv(n)

FramingSpec == FramingInit /\ [][FramingNext]_framingVars

-----------------------------------------------------------------------------
(* Properties.                                                             *)

\* "if received length and received entire packet then process"
\* (main.c:147-148): what is processed is the packets of the client, one by
\* one, however recv cuts the stream.
PacketsWhole ==
  Len(processed) \in 0..(Len(Starts) - 1) /\ \A m \in DOMAIN processed : processed[m] = Packet(m)

\* It is so as long as no packet is read together with a complete packet of
\* another size before it.
WholeUnlessMixed == ~mixed => PacketsWhole

\* Then no byte is lost between the packets processed and the rest in the
\* buffer, and no complete packet waits there for the next read.
NothingLostOrHeldBack ==
  ~mixed /\ ~looping =>
    LET done == Len(processed) IN
    /\ buffer = Bytes(Starts[done + 1], pos - Starts[done + 1])
    /\ buffer # <<>> => Len(buffer) < Len(Packet(done + 1))
=============================================================================
