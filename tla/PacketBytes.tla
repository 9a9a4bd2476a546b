----------------------------- MODULE PacketBytes -----------------------------
(***************************************************************************)
(* The bytes of a packet: how packet.c puts it together, what the getters  *)
(* of its receiver read from it, and what is left of it when errorFlipBits *)
(* inverts a byte.  Module Packets has packets without bytes; this one     *)
(* shows that they may be had so.                                          *)
(*                                                                         *)
(* A uint32_t is the sequence of its four bytes in memory, the low one     *)
(* first as on x86.                                                        *)
(***************************************************************************)
EXTENDS Checksum, SequencesExt

CONSTANTS
  Numbers,    \* values of a uint32_t: sequence numbers, sizes
  Payloads,   \* what a data packet carries
  Names       \* file names: sequences of bytes

MAXBUF     == 1407   \* the buffers packets are put together in
MAXFILE    == 100    \* the buffer get_filename writes a name and a zero to
SEQ_LEN    == 4
CHK_LEN    == 2
HEADER_LEN == 7
WINDOW_LEN == 4
BUFFER_LEN == 4
FILE_LEN   == 1

ASSUME PacketBytesAssumption ==
  /\ \A n \in Numbers : n \in [1 .. 4 -> Byte]
  /\ Payloads \subseteq Seq(Byte)
  /\ Names \subseteq Seq(Byte)

(* The lengths below are conditions of this module, not what the programs  *)
(* see to: rcopy takes the buffer size and the names from its arguments as *)
(* they are.  A longer payload is copied past the end of create_packet's   *)
(* buffer, a longer name past the end of get_filename's, with effects that *)
(* are not modelled.                                                       *)
PayloadFits(s) == HEADER_LEN + Len(s) <= MAXBUF
NameFits(s)    == Len(s) < MAXFILE

FlagByte == [DATA_PACKET |-> 3, RR |-> 5, SREJ |-> 6, SEND_FILE |-> 7,
             OK_FILENAME |-> 8, BAD_FILENAME |-> 9, EOF_FLAG |-> 10]

Zero == <<0, 0, 0, 0>>

\* htonl and ntohl.
Swapped(n) == Reverse(n)

-----------------------------------------------------------------------------
(* Putting a packet together *)

(* The checksum is taken with its field at zero and copied into the field. *)
WithChecksum(p) ==
  LET sum == in_cksum(p) IN
  [p EXCEPT ![SEQ_LEN + 1] = sum % 256, ![SEQ_LEN + 2] = sum \div 256]

(* create_packet; create_header is the same without data, create_RR_packet *)
(* with the RR or SREJ number for data.                                    *)
create_packet(seq_num, flag, data) ==
  WithChecksum(Swapped(seq_num) \o <<0, 0>> \o <<FlagByte[flag]>> \o data)

\* The length of the name is a uint8_t.
name_len(filename) == Len(filename) % 256

\* What create_file_data copies of the name; all of up to 255 bytes.
SentName(filename) == SubSeq(filename, 1, name_len(filename))

\* Variant: the buffer size stays as it is in memory.
create_file_data_host(filename, window_size, buffer_size) ==
  Swapped(window_size) \o buffer_size \o <<name_len(filename)>>
    \o SentName(filename)

create_file_data(filename, window_size, buffer_size) ==
  Swapped(window_size) \o Swapped(buffer_size) \o <<name_len(filename)>>
    \o SentName(filename)

(* What the two programs send, payloads that do not fit apart; own is a    *)
(* sequence number in the header that no receiver reads.                   *)
Content ==
  [flag : {"DATA_PACKET"}, num : Numbers, data : {s \in Payloads : PayloadFits(s)}]
    \union [flag : {"RR", "SREJ"}, own : Numbers, num : Numbers]
    \union [flag : {"EOF_FLAG"}, own : Numbers]
    \union [flag : {"OK_FILENAME", "BAD_FILENAME"}]
    \union [flag : {"SEND_FILE"}, name : Names, window : Numbers, buffer : Numbers]

\* send_EOF_pkt takes its sequence number as a uint8_t.
LowByte(n) == <<n[1], 0, 0, 0>>

Encoded(c) ==
  CASE c.flag = "DATA_PACKET" -> create_packet(c.num, c.flag, c.data)
    [] c.flag \in {"RR", "SREJ"} -> create_packet(c.own, c.flag, Swapped(c.num))
    [] c.flag = "SEND_FILE" ->
         create_packet(Zero, c.flag, create_file_data(c.name, c.window, c.buffer))
    [] c.flag = "EOF_FLAG" -> create_packet(LowByte(c.own), c.flag, <<>>)
    [] OTHER -> create_packet(Zero, c.flag, <<>>)

-----------------------------------------------------------------------------
(* Taking it apart *)

\* The bytes that memcpy takes from a packet, after its first k.
Bytes(p, k, len) == SubSeq(p, k + 1, k + len)

get_seqnum(p) == Swapped(Bytes(p, 0, SEQ_LEN))
get_flag(p)   == p[SEQ_LEN + CHK_LEN + 1]

\* get_RR and get_SREJ.
get_RR(p) == Swapped(Bytes(p, HEADER_LEN, 4))

get_windowSize(p) == Swapped(Bytes(p, HEADER_LEN, WINDOW_LEN))
get_bufferSize(p) == Swapped(Bytes(p, HEADER_LEN + WINDOW_LEN, BUFFER_LEN))
get_fileLen(p)    == p[HEADER_LEN + WINDOW_LEN + BUFFER_LEN + 1]
get_filename(p)   ==
  Bytes(p, HEADER_LEN + WINDOW_LEN + BUFFER_LEN + FILE_LEN, get_fileLen(p))

Flag(p) ==
  LET known == { f \in DOMAIN FlagByte : FlagByte[f] = get_flag(p) } IN
  IF known = {} THEN "GARBLED" ELSE CHOOSE f \in known : TRUE

(* Does a receiver read from packet p what c says?                         *)
ReadsAs(p, c) ==
  /\ Flag(p) = c.flag
  /\ CASE c.flag = "DATA_PACKET" ->
            get_seqnum(p) = c.num /\ Bytes(p, HEADER_LEN, Len(p) - HEADER_LEN) = c.data
       [] c.flag \in {"RR", "SREJ"} -> get_RR(p) = c.num
       [] c.flag = "SEND_FILE" ->
            /\ get_windowSize(p) = c.window
            /\ get_bufferSize(p) = c.buffer
            /\ NameFits(c.name) => get_filename(p) = c.name
       [] OTHER -> TRUE

(* errorFlipBits: one byte XOR 0xFF.                                       *)
FlipBits(p, i) == [p EXCEPT ![i] = 255 - @]

-----------------------------------------------------------------------------
VARIABLES
  content,  \* what the sender wants to say
  packet,   \* the packet
  stage     \* CREATED, FLIPPED

vars == <<content, packet, stage>>

Init ==
  /\ content \in Content
  /\ packet = Encoded(content)
  /\ stage = "CREATED"

FlipByte ==
  /\ stage = "CREATED"
  /\ \E i \in DOMAIN packet : packet' = FlipBits(packet, i)
  /\ stage' = "FLIPPED"
  /\ UNCHANGED content

Next == FlipByte

Spec == Init /\ [][Next]_vars

-----------------------------------------------------------------------------
P == INSTANCE Packets WITH WindowSize <- 1, Blocks <- 1, BufferSize <- 1, LastLen <- 1

(* Sender and receiver agree on every field of every packet: offsets,      *)
(* lengths, byte order; and the receiver's checksum test passes.  That is  *)
(* said of payloads that fit create_packet's buffer, and of the name if it *)
(* fits get_filename's: the programs ensure neither.                       *)
ReadAsSent ==
  stage = "CREATED" => in_cksum(packet) = 0 /\ ReadsAs(packet, content)

(* Whichever byte is inverted (of the data, the header, the checksum       *)
(* itself, or the odd one at the end), the checksum test fails, and the    *)
(* flag is what it was or none that either program knows: what module      *)
(* Packets makes of a corrupted packet.                                    *)
FlippedAsModelled ==
  stage = "FLIPPED" =>
    [flag |-> Flag(packet), num |-> 0, len |-> 0, ok |-> in_cksum(packet) = 0]
      \in P!Flipped(content)

(* Adding the carries in two goes at the end loses none of them.           *)
SumsLikeReference == in_cksum(packet) = Words - 1 - OnesComplementSum(packet)
=============================================================================
