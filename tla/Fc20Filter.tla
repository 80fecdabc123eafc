----------------------------- MODULE Fc20Filter -----------------------------
(***************************************************************************)
(* The filter that _install_fc20_filter (client.py) puts before pymodbus'  *)
(* data_received: it drops the FC20 broadcasts that gateways forward       *)
(* between the responses, seeing only the chunks that TCP makes of them.   *)
(*                                                                         *)
(* The stream is kept whole; bytes are named by their places in it.  Where *)
(* a frame begins and ends is known to the properties, not to the filter.  *)
(***************************************************************************)
EXTENDS Naturals, Sequences

CONSTANTS
    Bytes,
    UnitId, Code, Zero,   \* the bytes the filter looks for: unit id, 0x20, 0
    Framings,             \* of "socket" and "rtu"
    Responses,            \* Responses[g]: response frames in framing g
    Broadcasts,           \* FC20 frames, the same bytes in both framings
    MaxFrames,            \* bound: frames of one behaviour
    MaxReconnects         \* bound: connections lost

Frames(g) == Responses[g] \cup Broadcasts

ASSUME FramingAssumption == Framings \subseteq {"socket", "rtu"}
ASSUME ByteAssumption == UnitId \in Bytes /\ Code \in Bytes /\ Zero \in Bytes
ASSUME LengthAssumption ==
    \A g \in Framings : \A f \in Frames(g) : f \in Seq(Bytes) /\ Len(f) >= 4
(* The Protocol Identifier of a Modbus TCP frame; the function code of an  *)
(* RTU frame, which is never 0x20 in an answer to this client.             *)
ASSUME ResponseAssumption ==
    \A g \in Framings : \A f \in Responses[g] :
        IF g = "socket" THEN f[3] = Zero /\ f[4] = Zero ELSE f[2] # Code
ASSUME BroadcastAssumption ==
    \A f \in Broadcasts : f[1] = UnitId /\ f[2] = Code /\ (f[3] # Zero \/ f[4] # Zero)

VARIABLES
    framing,     \* self._framer
    stream,      \* the bytes sent to the client: [frame, broadcast, at]
    taken,       \* how many of them have arrived
    socketBuf,   \* _socket_buf, as places in the stream
    passed,      \* the places whose bytes pymodbus was given, in that order
    troubled,    \* the places that arrived in a chunk no filter could judge,
                 \* or were lost with a filter
    frames, reconnects

countVars == <<frames, reconnects>>
fcVars == <<framing, stream, taken, socketBuf, passed, troubled, countVars>>

Places(d) == {d[i] : i \in 1..Len(d)}

FcInit ==
    /\ framing \in Framings
    /\ stream = <<>>
    /\ taken = 0
    /\ socketBuf = <<>>
    /\ passed = <<>>
    /\ troubled = {}
    /\ frames = 0 /\ reconnects = 0

-----------------------------------------------------------------------------
(* The gateway and the network                                             *)

(* A frame is forwarded: an answer, or a broadcast of its own accord.      *)
Send(f, isBroadcast) ==
    /\ frames < MaxFrames
    /\ frames' = frames + 1
    /\ stream' = stream \o [i \in 1..Len(f) |-> [frame |-> f, broadcast |-> isBroadcast, at |-> i]]
    /\ UNCHANGED <<framing, taken, socketBuf, passed, troubled, reconnects>>

(* The connection is lost with what was on its way.                        *)
ConnectionLost ==
    /\ reconnects < MaxReconnects
    /\ reconnects' = reconnects + 1
    /\ stream' = SubSeq(stream, 1, taken)
    /\ UNCHANGED <<framing, taken, passed, frames>>

(* pymodbus reconnects the same client, whose filter keeps its buffer.     *)
PymodbusReconnects ==
    /\ ConnectionLost
    /\ UNCHANGED <<socketBuf, troubled>>

(* get_client makes a new client, with a new filter; what the old one held *)
(* back is lost too.                                                       *)
NewClient ==
    /\ ConnectionLost
    /\ socketBuf' = <<>>
    /\ troubled' = troubled \cup Places(socketBuf)

-----------------------------------------------------------------------------
(* filtered_data_received: d are the places of the bytes it looks at.      *)

(* A chunk of n bytes, behind the prefix that is being held.               *)
Data(n) == socketBuf \o [i \in 1..n |-> taken + i]

ByteAt(i) == stream[i].frame[stream[i].at]

Fc20Head(d) == Len(d) >= 2 /\ ByteAt(d[1]) = UnitId /\ ByteAt(d[2]) = Code

(* Mutant: short chunks are held back in both framings.                    *)
TooShortAnyFraming(d) == Fc20Head(d) /\ Len(d) < 4

TooShort(d) == framing = "socket" /\ Fc20Head(d) /\ Len(d) < 4

(* Mutant: the Protocol Identifier is not looked at.                       *)
IsFc20Headed(d) == Fc20Head(d)

IsFc20(d) ==
    /\ Fc20Head(d)
    /\ framing = "socket" =>
        Len(d) >= 4 /\ (ByteAt(d[3]) # Zero \/ ByteAt(d[4]) # Zero)

Mixed(d) == \E i, j \in 1..Len(d) : stream[d[i]].broadcast /\ ~stream[d[j]].broadcast

(* What no filter of chunks could judge: a chunk joined to a prefix from a *)
(* lost connection, one with both a response and a broadcast in it, one    *)
(* that begins inside a broadcast, or inside a response with bytes that    *)
(* look like one, and the first byte of a broadcast all alone.  The end of *)
(* a response whose last two or three bytes look like one is among them:   *)
(* in a chunk of its own it is held back until something else comes, and   *)
(* shares the fate of that.                                                *)
Unclear(d) ==
    \/ \E i \in 1..(Len(d) - 1) :
        stream[d[i + 1]].at = 1 /\ stream[d[i]].at < Len(stream[d[i]].frame)
    \/ Mixed(d)
    \/ /\ stream[d[1]].at > 1
       /\ stream[d[1]].broadcast \/ Fc20Head(d)
    \/ Len(d) = 1 /\ stream[d[1]].broadcast

Arrive(n) ==
    /\ taken + n <= Len(stream)
    /\ taken' = taken + n
    /\ troubled' = IF Unclear(Data(n)) THEN troubled \cup Places(Data(n)) ELSE troubled
    /\ UNCHANGED <<framing, stream, countVars>>

Buffer(n) ==
    /\ Arrive(n)
    /\ TooShort(Data(n))
    /\ socketBuf' = Data(n)
    /\ UNCHANGED passed

Drop(n) ==
    /\ Arrive(n)
    /\ ~TooShort(Data(n)) /\ IsFc20(Data(n))
    /\ socketBuf' = <<>>
    /\ UNCHANGED passed

(* Mutant: what was buffered stays in the buffer.                          *)
ForwardKeeping(n) ==
    /\ Arrive(n)
    /\ ~TooShort(Data(n)) /\ ~IsFc20(Data(n))
    /\ passed' = passed \o Data(n)
    /\ UNCHANGED socketBuf

Forward(n) ==
    /\ Arrive(n)
    /\ ~TooShort(Data(n)) /\ ~IsFc20(Data(n))
    /\ passed' = passed \o Data(n)
    /\ socketBuf' = <<>>

FcNext ==
    \/ \E f \in Responses[framing] : Send(f, FALSE)
    \/ \E f \in Broadcasts : Send(f, TRUE)
    \/ PymodbusReconnects \/ NewClient
    \/ \E n \in 1..(Len(stream) - taken) : Buffer(n) \/ Drop(n) \/ Forward(n)

FcSpec == FcInit /\ [][FcNext]_fcVars

-----------------------------------------------------------------------------
(* Properties                                                              *)

(* The prefix that is held back has two or three bytes, and only in SOCKET *)
(* framing.                                                                *)
FcTypeOK ==
    /\ framing \in Framings
    /\ stream \in Seq([frame : Frames(framing), broadcast : BOOLEAN, at : Nat \ {0}])
    /\ taken \in 0..Len(stream)
    /\ socketBuf \in Seq(1..taken) /\ Len(socketBuf) < 4
    /\ framing = "rtu" => socketBuf = <<>>
    /\ passed \in Seq(1..taken)
    /\ troubled \subseteq 1..taken
    /\ frames \in Nat /\ reconnects \in Nat

(* pymodbus is given the bytes in the order in which they came, none of    *)
(* them twice, however prefixes are held back and joined, and whatever     *)
(* connections are lost meanwhile.                                         *)
InOrder == \A i, j \in 1..Len(passed) : i < j => passed[i] < passed[j]

(* The filter is exact wherever one can be: of the bytes that came in      *)
(* chunks with nothing unclear about them, pymodbus has been given those   *)
(* of the responses, also of a response whose Transaction Identifier looks *)
(* like a broadcast and is cut in two, and none of the broadcasts.         *)
Exact ==
    \A i \in (1..taken) \ (troubled \cup Places(socketBuf)) :
        i \in Places(passed) <=> ~stream[i].broadcast

(* The docstring of _install_fc20_filter: "Drops FC20 (0x20) broadcast     *)
(* frames before pymodbus processes them."  So no byte of one gets through.*)
BroadcastsDropped == \A i \in Places(passed) : ~stream[i].broadcast

=============================================================================
