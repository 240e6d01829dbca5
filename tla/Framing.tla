------------------------------ MODULE Framing ------------------------------
(***************************************************************************)
(* A command on the serial line: common/zm_protocol.c turns it into bytes  *)
(* and back, common/protocol.c puts the bytes into a frame with escapes    *)
(* and a checksum and takes frames out of the byte stream.  Between the    *)
(* two ends the line may lose or change a byte.                            *)
(*                                                                         *)
(* Both ends are this code: a byte of the line is a record of the byte and *)
(* of the number of the frame it was sent in.                              *)
(***************************************************************************)
EXTENDS Integers, Sequences, FiniteSets, FiniteSetsExt

CONSTANTS Layout,      \* Type_table: command id -> Null, Dyn or how many chars
          Ack,         \* ZM_CMD_ACK
          StatusCmd,   \* ZM_CMD_STATUS
          Cmds,        \* the commands sent: [cmd, seq, status, data]
          MaxData,     \* ZM_MAX_BUFFER_LEN
          BufferLen,   \* the size of PROT_RxBuffer
          Noise,       \* the bytes a byte may change into
          MaxFrames, MaxFrameFaults   \* bounds: frames sent, bytes lost or changed

\* A layout that is no number of chars: not implemented, one "D" field.
Null == -1
Dyn  == -2

FR_END   == 192
FR_ESC   == 219
T_FR_END == 220
T_FR_ESC == 221

Byte == 0 .. 255

\* Commands are of the table, no ACK is among them, and the struct of one has the
\* chars of its layout; an older firmware leaves the last ones of a status out.
\* A message and its checksum fit the buffer.
ASSUME FramingAssumption ==
  /\ MaxData \in Nat /\ BufferLen \in Nat /\ MaxFrames \in Nat /\ MaxFrameFaults \in Nat
  /\ BufferLen <= 65535 /\ MaxData + 9 <= BufferLen
  /\ Noise \subseteq Byte
  /\ Layout \in [DOMAIN Layout -> Nat \cup {Null, Dyn}]
  /\ Cmds \subseteq [cmd : Byte, seq : Byte, status : Byte, data : Seq(Byte)]
  /\ \A c \in Cmds :
       /\ c.cmd \in DOMAIN Layout /\ c.cmd # Ack
       /\ Layout[c.cmd] \in Nat => /\ Layout[c.cmd] + 7 <= BufferLen
                                  /\ \/ Len(c.data) = Layout[c.cmd]
                                     \/ c.cmd = StatusCmd /\ Len(c.data) < Layout[c.cmd]

VARIABLES line,          \* the bytes on the way
          escaped, buffer,   \* u8Escaped & ASC_FLAG, pBuffer up to u16BufferPos
          sentCmds,      \* the commands sent
          taken,         \* the commands the receiver got, in order
          hit, frameFaults   \* history: the frames with a lost or changed byte; bound

frameVars == <<line, escaped, buffer, sentCmds, taken, hit, frameFaults>>

Lo(n) == n % 256
Hi(n) == (n \div 256) % 256

----------------------------------------------------------------------------
(* zm_protocol.c                                                           *)

\* Mutant: the stored length does not count itself.
command2bufferShort(c) ==
  LET body == IF Layout[c.cmd] = Dyn THEN <<Lo(Len(c.data)), Hi(Len(c.data))>> \o c.data
              ELSE c.data
      len  == Len(body) + 3
  IN  <<c.cmd, c.seq, c.status, Lo(len), Hi(len)>> \o body
\* zm_protocol_command2buffer; the empty sequence is its return value 0.
command2buffer(c) ==
  LET head == <<c.cmd, c.seq, c.status>>
      body == IF Layout[c.cmd] = Dyn THEN <<Lo(Len(c.data)), Hi(Len(c.data))>> \o c.data
              ELSE c.data
      len  == Len(body) + 5
  IN  IF c.cmd = Ack THEN head
      ELSE IF Layout[c.cmd] = Null \/ (Layout[c.cmd] = Dyn /\ Len(c.data) > MaxData) THEN <<>>
      ELSE head \o <<Lo(len), Hi(len)>> \o body

NotACommand == [cmd |-> -1, seq |-> 0, status |-> 0, data |-> <<>>]

\* get_u16 at position i
U16(d, i) == d[i] + 256 * d[i + 1]

\* zm_protocol_buffer2command: NotACommand stands for its error codes.  A status
\* of an older firmware has a byte less than its layout and is filled up.
buffer2command(d) ==
  LET known  == Len(d) >= 5 /\ d[1] \in DOMAIN Layout
      layout == Layout[d[1]]
      rest   == SubSeq(d, 6, Len(d))
      cmd(x) == [cmd |-> d[1], seq |-> d[2], status |-> d[3], data |-> x]
  IN  IF ~known THEN NotACommand
      ELSE IF U16(d, 4) # Len(d) \/ layout = Null THEN NotACommand
      ELSE IF layout = Dyn THEN
        IF Len(rest) < 2 THEN NotACommand
        ELSE IF U16(rest, 1) > Min({MaxData, Len(rest) - 2}) THEN NotACommand
        ELSE cmd(SubSeq(rest, 3, 2 + U16(rest, 1)))
      ELSE IF Len(rest) >= layout THEN cmd(SubSeq(rest, 1, layout))
      ELSE IF d[1] = StatusCmd THEN cmd(rest \o [i \in 1 .. layout - Len(rest) |-> 0])
      ELSE NotACommand

----------------------------------------------------------------------------
(* protocol.c                                                              *)

\* The checksum: the negated sum, which the loop keeps up to date.
Negated(d) ==
  LET sum[i \in 0 .. Len(d)] == IF i = 0 THEN 0 ELSE sum[i - 1] + d[i]
  IN  (65536 - sum[Len(d)]) % 65536

Escape(b) == CASE b = FR_ESC -> <<FR_ESC, T_FR_ESC>>
               [] b = FR_END -> <<FR_ESC, T_FR_END>>
               [] OTHER      -> <<b>>

\* What has been put on the line for the first bytes of x.
Escapes(x) ==
  LET out[i \in 0 .. Len(x)] == IF i = 0 THEN <<>> ELSE out[i - 1] \o Escape(x[i])
  IN  out

\* The data and its checksum, as they go between the two ends of a frame.
Payload(d) == d \o <<Lo(Negated(d)), Hi(Negated(d))>>

\* protocol_send_flagged
send_flagged(d) ==
  <<FR_END>> \o Escapes(Payload(d))[Len(Payload(d))] \o <<FR_END>>

\* The frame in the buffer is whole: its last two bytes are its checksum.
CrcMatches == /\ Len(buffer) >= 2
              /\ U16(buffer, Len(buffer) - 1) = Negated(SubSeq(buffer, 1, Len(buffer) - 2))

\* SER_Packet: an empty packet and one that is no command are dropped.
Packet(d) == LET c == buffer2command(d)
             IN  IF d = <<>> \/ c = NotACommand THEN taken ELSE Append(taken, c)

\* What an escaped byte stands for.
Unescape(b) == IF b = T_FR_ESC THEN FR_ESC ELSE FR_END

\* A byte for the buffer; one that does not fit is dropped.
Store(b) == buffer' = IF Len(buffer) < BufferLen THEN Append(buffer, b) ELSE buffer

----------------------------------------------------------------------------
FrameInit ==
  /\ line = <<>> /\ escaped = FALSE /\ buffer = <<>>
  /\ sentCmds = <<>> /\ taken = <<>> /\ hit = {} /\ frameFaults = 0

\* SerialComPrivate::tx and protocol_send: a command that has no bytes sends none.
Transmit(c) ==
  /\ Len(sentCmds) < MaxFrames
  /\ sentCmds' = Append(sentCmds, c)
  /\ LET bytes == send_flagged(command2buffer(c))
     IN  line' = IF command2buffer(c) = <<>> THEN line
                 ELSE line \o [i \in DOMAIN bytes |-> [byte |-> bytes[i], frame |-> Len(sentCmds')]]
  /\ UNCHANGED <<escaped, buffer, taken, hit, frameFaults>>

\* One byte of protocol_receive_flagged: its loop ends at a frame end and at an
\* escape, and rx() calls it again.
ReceiveByte ==
  /\ line # <<>>
  /\ line' = Tail(line)
  /\ LET b == Head(line).byte
     IN  \/ /\ b = FR_END /\ escaped
            /\ escaped' = FALSE /\ buffer' = <<>> /\ UNCHANGED taken
         \/ /\ b = FR_END /\ ~escaped
            /\ taken' = (IF CrcMatches THEN Packet(SubSeq(buffer, 1, Len(buffer) - 2)) ELSE taken)
            /\ buffer' = <<>> /\ UNCHANGED escaped
         \/ /\ b = FR_ESC
            /\ escaped' = TRUE /\ UNCHANGED <<buffer, taken>>
         \/ /\ b \notin {FR_END, FR_ESC} /\ escaped
            /\ escaped' = FALSE /\ UNCHANGED taken
            /\ IF b \in {T_FR_ESC, T_FR_END} THEN Store(Unescape(b)) ELSE UNCHANGED buffer
         \/ /\ b \notin {FR_END, FR_ESC} /\ ~escaped
            /\ Store(b) /\ UNCHANGED <<escaped, taken>>
  /\ UNCHANGED <<sentCmds, hit, frameFaults>>

\* The line loses the next byte, or another comes in its place.
Fault ==
  /\ line # <<>> /\ frameFaults < MaxFrameFaults
  /\ frameFaults' = frameFaults + 1 /\ hit' = hit \cup {Head(line).frame}
  /\ \/ line' = Tail(line)
     \/ \E b \in Noise : line' = <<[Head(line) EXCEPT !.byte = b]>> \o Tail(line)
  /\ UNCHANGED <<escaped, buffer, sentCmds, taken>>

FrameNext == \/ \E c \in Cmds : Transmit(c)
             \/ ReceiveByte
             \/ Fault
FrameSpec == FrameInit /\ [][FrameNext]_frameVars

----------------------------------------------------------------------------
\* What a receiver makes of a command that arrives whole.
Received(c) == IF Layout[c.cmd] = Dyn \/ Len(c.data) = Layout[c.cmd] THEN c
               ELSE [c EXCEPT !.data = c.data \o [i \in 1 .. Layout[c.cmd] - Len(c.data) |-> 0]]

\* The commands that must have come through: those with bytes, no byte of which
\* was hit and none of which is on the way.
Whole == {i \in DOMAIN sentCmds : /\ command2buffer(sentCmds[i]) # <<>>
                                  /\ i \notin hit
                                  /\ \A j \in DOMAIN line : line[j].frame # i}

(* However the frames before and after it are mangled, a frame none of     *)
(* whose bytes is hit is received, as the command that was sent, and the   *)
(* commands arrive in the order they were sent.                            *)
WholeFramesArrive ==
  \E f \in [Whole -> DOMAIN taken] :
    /\ \A i \in Whole : taken[f[i]] = Received(sentCmds[i])
    /\ \A i, j \in Whole : i < j => f[i] < f[j]
=============================================================================
