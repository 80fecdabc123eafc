-------------------------- MODULE Fc20FilterProofs --------------------------
(***************************************************************************)
(* Theorems about Fc20Filter, for any bytes, frames of any length, and any *)
(* number of frames, chunks and lost connections.  The argument: what the  *)
(* filter looks at is a piece of the stream without a gap, and if that     *)
(* piece is clear and begins with a frame, its first four bytes are the    *)
(* first four of the frame.                                                *)
(***************************************************************************)
EXTENDS Fc20Filter, TLAPS

(* The stream is one of frames, of which some were cut off at their end.   *)
StreamInv ==
    /\ \A i \in 1..Len(stream) :
        /\ stream[i].at <= Len(stream[i].frame)
        /\ stream[i].broadcast => stream[i].frame \in Broadcasts
        /\ ~stream[i].broadcast => stream[i].frame \in Responses[framing]
    /\ \A i \in 1..(Len(stream) - 1) :
        \/ stream[i + 1].at = 1
        \/ /\ stream[i + 1].at = stream[i].at + 1
           /\ stream[i + 1].frame = stream[i].frame

(* The buffer holds the last of the bytes that have arrived.               *)
BufferInv ==
    /\ Len(socketBuf) <= taken
    /\ \A i \in 1..Len(socketBuf) : socketBuf[i] = (taken - Len(socketBuf)) + i

OrderInv ==
    /\ InOrder
    /\ \A i \in 1..Len(passed) : passed[i] <= taken - Len(socketBuf)

IInv == FcTypeOK /\ StreamInv /\ BufferInv /\ OrderInv /\ Exact

-----------------------------------------------------------------------------
(* What the filter looks at                                                *)

LEMMA Chunk ==
    ASSUME NEW n \in Nat, NEW t \in Nat
    PROVE  /\ [i \in 1..n |-> t + i] \in Seq(Nat)
           /\ Len([i \in 1..n |-> t + i]) = n
           /\ \A i \in 1..n : [j \in 1..n |-> t + j][i] = t + i
OBVIOUS

LEMMA Elements ==
    ASSUME NEW S, NEW s \in Seq(S)
    PROVE  Len(s) \in Nat /\ \A i \in 1..Len(s) : s[i] \in S
OBVIOUS

LEMMA WiderSeq ==
    ASSUME NEW S, NEW T, S \subseteq T, NEW s \in Seq(S)
    PROVE  s \in Seq(T)
OBVIOUS

LEMMA NarrowerSeq ==
    ASSUME NEW S, NEW T, NEW s \in Seq(S), \A i \in 1..Len(s) : s[i] \in T
    PROVE  s \in Seq(T)
OBVIOUS

LEMMA Types ==
    ASSUME FcTypeOK
    PROVE  /\ taken \in Nat /\ Len(stream) \in Nat /\ taken <= Len(stream)
           /\ socketBuf \in Seq(Nat) /\ Len(socketBuf) \in Nat
           /\ passed \in Seq(Nat) /\ Len(passed) \in Nat
           /\ framing \in Framings
           /\ \A i \in 1..Len(stream) : /\ stream[i].frame \in Frames(framing)
                                        /\ stream[i].broadcast \in BOOLEAN
                                        /\ stream[i].at \in Nat /\ stream[i].at > 0
<1> DEFINE S == [frame : Frames(framing), broadcast : BOOLEAN, at : Nat \ {0}]
<1>1. /\ stream \in Seq(S) /\ taken \in 0..Len(stream) /\ framing \in Framings
      /\ socketBuf \in Seq(1..taken) /\ passed \in Seq(1..taken)
  BY DEF FcTypeOK
<1>2. Len(stream) \in Nat /\ \A i \in 1..Len(stream) : stream[i] \in S
  <2> HIDE DEF S
  <2>1. QED
    BY <1>1, Elements
<1>3. taken \in Nat /\ taken <= Len(stream)
  BY <1>1, <1>2
<1>4. 1..taken \subseteq Nat
  BY <1>3
<1>5. /\ socketBuf \in Seq(Nat) /\ Len(socketBuf) \in Nat
      /\ passed \in Seq(Nat) /\ Len(passed) \in Nat
  BY <1>1, <1>4, WiderSeq, Elements
<1>6. QED
  BY <1>1, <1>2, <1>3, <1>5

LEMMA Joined ==
    ASSUME NEW s \in Seq(Nat), NEW t \in Seq(Nat)
    PROVE  /\ s \o t \in Seq(Nat) /\ Len(s \o t) = Len(s) + Len(t)
           /\ \A i \in 1..(Len(s) + Len(t)) :
                (s \o t)[i] = IF i <= Len(s) THEN s[i] ELSE t[i - Len(s)]
OBVIOUS

LEMMA DataShape ==
    ASSUME FcTypeOK, BufferInv, NEW n \in Nat
    PROVE  /\ Data(n) \in Seq(Nat)
           /\ Len(Data(n)) = Len(socketBuf) + n
           /\ \A i \in 1..Len(Data(n)) : Data(n)[i] = (taken - Len(socketBuf)) + i
           /\ taken \in Nat /\ Len(socketBuf) \in Nat
<1> DEFINE chunk == [i \in 1..n |-> taken + i]
<1>1. taken \in Nat /\ socketBuf \in Seq(Nat)
  BY Types
<1>2. chunk \in Seq(Nat) /\ Len(chunk) = n /\ \A i \in 1..n : chunk[i] = taken + i
  BY <1>1, Chunk
<1> HIDE DEF chunk
<1>3. Data(n) = socketBuf \o chunk
  BY DEF Data, chunk
<1>4. /\ socketBuf \o chunk \in Seq(Nat)
      /\ Len(socketBuf \o chunk) = Len(socketBuf) + Len(chunk)
      /\ \A i \in 1..(Len(socketBuf) + Len(chunk)) : (socketBuf \o chunk)[i] =
           IF i <= Len(socketBuf) THEN socketBuf[i] ELSE chunk[i - Len(socketBuf)]
  BY <1>1, <1>2, Joined
<1>5. Data(n) \in Seq(Nat) /\ Len(Data(n)) = Len(socketBuf) + n /\ Len(socketBuf) \in Nat
  BY <1>2, <1>3, <1>4, Types
<1>6. ASSUME NEW i \in 1..(Len(socketBuf) + n)
      PROVE  Data(n)[i] = (taken - Len(socketBuf)) + i
  <2>1. Data(n)[i] = IF i <= Len(socketBuf) THEN socketBuf[i] ELSE chunk[i - Len(socketBuf)]
    BY <1>2, <1>3, <1>4
  <2>2. i <= Len(socketBuf) => i \in 1..Len(socketBuf)
    BY <1>5
  <2>3. ~(i <= Len(socketBuf)) => i - Len(socketBuf) \in 1..n
    BY <1>5
  <2>4. QED
    BY <1>1, <1>2, <1>5, <2>1, <2>2, <2>3 DEF BufferInv
<1>7. QED
  BY <1>1, <1>5, <1>6

LEMMA DataBounds ==
    ASSUME FcTypeOK, BufferInv, NEW n \in Nat
    PROVE  /\ \A i \in 1..Len(Data(n)) : /\ Data(n)[i] \in 1..(taken + n)
                                        /\ Data(n)[i] > taken - Len(socketBuf)
           /\ \A i \in 1..(Len(Data(n)) - 1) : Data(n)[i + 1] = Data(n)[i] + 1
           /\ Len(Data(n)) \in Nat
<1> DEFINE b == taken - Len(socketBuf)
<1>1. /\ Len(Data(n)) = Len(socketBuf) + n /\ taken \in Nat /\ Len(socketBuf) \in Nat
      /\ \A i \in 1..Len(Data(n)) : Data(n)[i] = b + i
  BY DataShape
<1>2. b \in Nat /\ b + Len(socketBuf) = taken
  BY <1>1 DEF BufferInv
<1> HIDE DEF b
<1>3. \A i \in 1..Len(Data(n)) : Data(n)[i] \in 1..(taken + n) /\ Data(n)[i] > b
  BY <1>1, <1>2
<1>4. \A i \in 1..(Len(Data(n)) - 1) : Data(n)[i + 1] = Data(n)[i] + 1
  BY <1>1, <1>2
<1>5. Len(Data(n)) \in Nat
  BY <1>1
<1>6. QED
  BY <1>3, <1>4, <1>5 DEF b

LEMMA DataInStream ==
    ASSUME FcTypeOK, BufferInv, NEW n \in Nat, n > 0, taken + n <= Len(stream)
    PROVE  /\ Len(Data(n)) \in Nat /\ 1 \in 1..Len(Data(n))
           /\ \A i \in 1..Len(Data(n)) : Data(n)[i] \in 1..Len(stream)
<1>1. Len(Data(n)) = Len(socketBuf) + n /\ Len(socketBuf) \in Nat
  BY DataShape
<1>2. Len(Data(n)) \in Nat /\ 1 \in 1..Len(Data(n))
  BY <1>1
<1>3. taken + n \in Nat /\ Len(stream) \in Nat /\ 1..(taken + n) \subseteq 1..Len(stream)
  BY Types
<1>4. QED
  BY <1>2, <1>3, DataBounds

LEMMA DataPlaces ==
    ASSUME FcTypeOK, BufferInv, NEW n \in Nat
    PROVE  Places(Data(n)) = {i \in 1..(taken + n) : i > taken - Len(socketBuf)}
<1> DEFINE b == taken - Len(socketBuf)
<1>1. /\ Len(Data(n)) = Len(socketBuf) + n /\ taken \in Nat /\ Len(socketBuf) \in Nat
      /\ \A i \in 1..Len(Data(n)) : Data(n)[i] = b + i
  BY DataShape
<1>2. b \in Nat /\ b + Len(socketBuf) = taken
  BY <1>1 DEF BufferInv
<1> HIDE DEF b
<1>3. \A p \in 1..(taken + n) : p > b => p - b \in 1..Len(Data(n)) /\ Data(n)[p - b] = p
  BY <1>1, <1>2
<1>4. \A i \in 1..Len(Data(n)) : Data(n)[i] \in 1..(taken + n) /\ Data(n)[i] > b
  BY <1>1, <1>2
<1>5. Places(Data(n)) = {i \in 1..(taken + n) : i > b}
  BY <1>3, <1>4 DEF Places
<1>6. QED
  BY <1>5 DEF b

LEMMA BufferPlaces ==
    ASSUME FcTypeOK, BufferInv
    PROVE  Places(socketBuf) = {i \in 1..taken : i > taken - Len(socketBuf)}
<1> DEFINE b == taken - Len(socketBuf)
<1>1. taken \in Nat /\ Len(socketBuf) \in Nat
  BY Types
<1>2. b \in Nat /\ b + Len(socketBuf) = taken
  BY <1>1 DEF BufferInv
<1>3. \A i \in 1..Len(socketBuf) : socketBuf[i] = b + i
  BY DEF BufferInv
<1> HIDE DEF b
<1>4. \A p \in 1..taken : p > b => p - b \in 1..Len(socketBuf) /\ socketBuf[p - b] = p
  BY <1>1, <1>2, <1>3
<1>5. \A i \in 1..Len(socketBuf) : socketBuf[i] \in 1..taken /\ socketBuf[i] > b
  BY <1>1, <1>2, <1>3
<1>6. Places(socketBuf) = {i \in 1..taken : i > b}
  BY <1>4, <1>5 DEF Places
<1>7. QED
  BY <1>6 DEF b

-----------------------------------------------------------------------------
(* What is clear                                                           *)

(* Next to each other in the stream.                                       *)
LEMMA NextByte ==
    ASSUME FcTypeOK, StreamInv, BufferInv, NEW n \in Nat, taken + n <= Len(stream),
           ~Unclear(Data(n)), NEW i \in 1..(Len(Data(n)) - 1),
           stream[Data(n)[i]].at < Len(stream[Data(n)[i]].frame)
    PROVE  /\ stream[Data(n)[i + 1]].at = stream[Data(n)[i]].at + 1
           /\ stream[Data(n)[i + 1]].frame = stream[Data(n)[i]].frame
<1> DEFINE p == Data(n)[i]
<1>1. Data(n)[i + 1] = p + 1 /\ p \in 1..(Len(stream) - 1)
  <2>1. i \in 1..Len(Data(n)) /\ i + 1 \in 1..Len(Data(n))
    BY DataBounds
  <2>2. p + 1 \in 1..(taken + n) /\ p \in 1..(taken + n) /\ Data(n)[i + 1] = p + 1
    BY <2>1, DataBounds
  <2>3. QED
    BY <2>2, Types
<1>2. stream[Data(n)[i + 1]].at # 1
  BY DEF Unclear
<1> HIDE DEF p
<1>3. stream[p + 1].at # 1
  BY <1>1, <1>2
<1>4. stream[p + 1].at = stream[p].at + 1 /\ stream[p + 1].frame = stream[p].frame
  BY <1>1, <1>3 DEF StreamInv
<1>5. QED
  BY <1>1, <1>4 DEF p

(* The frame that begins where the filter looks.                           *)
LEMMA FirstFour ==
    ASSUME FcTypeOK, StreamInv, BufferInv, NEW n \in Nat, n > 0, taken + n <= Len(stream),
           ~Unclear(Data(n)), stream[Data(n)[1]].at = 1
    PROVE  LET d == Data(n)
               f == stream[d[1]].frame
           IN
           /\ f \in Frames(framing) /\ Len(f) >= 4
           /\ \A i \in 1..4 : i <= Len(d) =>
                stream[d[i]].at = i /\ stream[d[i]].frame = f /\ ByteAt(d[i]) = f[i]
<1> DEFINE d == Data(n)
           f == stream[d[1]].frame
           here(i) == stream[d[i]].at = i /\ stream[d[i]].frame = f
<1>1. d[1] \in 1..Len(stream) /\ Len(d) \in Nat /\ Len(d) >= 1
  <2>1. Len(d) \in Nat /\ Len(d) >= 1
    <3>1. Len(d) = Len(socketBuf) + n /\ Len(socketBuf) \in Nat
      BY DataShape
    <3> HIDE DEF d
    <3>2. QED
      BY <3>1
  <2>2. d[1] \in 1..(taken + n)
    BY <2>1, DataBounds
  <2>3. QED
    BY <2>1, <2>2, Types
<1>2. f \in Frames(framing) /\ framing \in Framings
  BY <1>1, Types
<1>3. Len(f) >= 4 /\ Len(f) \in Nat
  BY <1>2, LengthAssumption
<1> HIDE DEF d, f
<1>4. ASSUME NEW i \in 1..3, here(i), i + 1 <= Len(d) PROVE here(i + 1)
  <2>1. stream[d[i]].at < Len(stream[d[i]].frame) /\ i \in 1..(Len(d) - 1)
    BY <1>1, <1>3, <1>4
  <2>2. stream[d[i + 1]].at = stream[d[i]].at + 1 /\ stream[d[i + 1]].frame = stream[d[i]].frame
    BY <2>1, NextByte DEF d
  <2>3. QED
    BY <1>4, <2>2
<1>5. here(1)
  BY DEF d, f
<1>6. 2 <= Len(d) => here(2)
  BY <1>4, <1>5
<1>7. 3 <= Len(d) => here(3)
  BY <1>1, <1>4, <1>6
<1>8. 4 <= Len(d) => here(4)
  BY <1>1, <1>4, <1>7
<1>9. \A i \in 1..4 : i <= Len(d) => here(i)
  BY <1>5, <1>6, <1>7, <1>8
<1>10. QED
  BY <1>2, <1>3, <1>9 DEF ByteAt, d, f

LEMMA Heads ==
    ASSUME NEW d, Len(d) \in Nat
    PROVE  /\ Fc20Head(d) => Len(d) >= 2 /\ ByteAt(d[2]) = Code
           /\ TooShort(d) => Fc20Head(d) /\ Len(d) \in 2..3
           /\ IsFc20(d) => Fc20Head(d)
<1>1. Fc20Head(d) => Len(d) >= 2 /\ ByteAt(d[2]) = Code
  BY DEF Fc20Head
<1>2. IsFc20(d) => Fc20Head(d)
  BY DEF IsFc20
<1>3. TooShort(d) => Fc20Head(d) /\ Len(d) < 4
  BY DEF TooShort
<1>4. \A k \in Nat : k >= 2 /\ k < 4 => k \in 2..3
  OBVIOUS
<1>5. QED
  BY <1>1, <1>2, <1>3, <1>4

(* The bytes of a clear chunk are all of broadcasts, or none is.           *)
LEMMA OneKind ==
    ASSUME NEW d, ~Mixed(d), NEW i \in 1..Len(d), NEW j \in 1..Len(d),
           stream[d[i]].broadcast
    PROVE  stream[d[j]].broadcast
BY DEF Mixed

LEMMA DroppedIsBroadcast ==
    ASSUME FcTypeOK, StreamInv, BufferInv, NEW n \in Nat, n > 0, taken + n <= Len(stream),
           ~Unclear(Data(n)), IsFc20(Data(n))
    PROVE  \A i \in 1..Len(Data(n)) : stream[Data(n)[i]].broadcast
<1> DEFINE d == Data(n)
           f == stream[d[1]].frame
<1>1. SUFFICES ASSUME ~stream[d[1]].broadcast PROVE FALSE
  <2>1. 1 \in 1..Len(d) /\ ~Mixed(d)
    BY DataInStream DEF Unclear
  <2> HIDE DEF d
  <2>2. SUFFICES stream[d[1]].broadcast
    BY <2>1, OneKind DEF d
  <2>3. QED
    BY <1>1
<1>2. Fc20Head(d) /\ Len(d) >= 2 /\ Len(d) \in Nat
  BY DataInStream, Heads
<1>3. d[1] \in 1..Len(stream)
  BY DataInStream
<1>4. stream[d[1]].at = 1
  BY <1>2, <1>3, Types DEF Unclear
<1>5. f \in Responses[framing]
  BY <1>1, <1>3 DEF StreamInv
<1>6. \A i \in 1..4 : i <= Len(d) => ByteAt(d[i]) = f[i]
  BY <1>4, FirstFour
<1>7. framing \in Framings
  BY Types
<1>8. IF framing = "socket" THEN f[3] = Zero /\ f[4] = Zero ELSE f[2] # Code
  BY <1>5, <1>7, ResponseAssumption
<1>9. framing = "socket" => Len(d) >= 4 /\ (ByteAt(d[3]) # Zero \/ ByteAt(d[4]) # Zero)
  BY DEF IsFc20
<1> HIDE DEF d, f
<1>10. ByteAt(d[2]) = f[2] /\ (Len(d) >= 4 => ByteAt(d[3]) = f[3] /\ ByteAt(d[4]) = f[4])
  BY <1>2, <1>6
<1>11. ByteAt(d[2]) = Code
  BY <1>2 DEF Fc20Head
<1>12. QED
  BY <1>8, <1>9, <1>10, <1>11

LEMMA ForwardedIsResponse ==
    ASSUME FcTypeOK, StreamInv, BufferInv, NEW n \in Nat, n > 0, taken + n <= Len(stream),
           ~Unclear(Data(n)), ~IsFc20(Data(n)), ~TooShort(Data(n))
    PROVE  \A i \in 1..Len(Data(n)) : ~stream[Data(n)[i]].broadcast
<1> DEFINE d == Data(n)
           f == stream[d[1]].frame
<1>0. 1 \in 1..Len(d) /\ Len(d) \in Nat
  BY DataInStream
<1>1. SUFFICES ASSUME stream[d[1]].broadcast PROVE FALSE
  <2>1. ~Mixed(d)
    BY DEF Unclear
  <2>2. SUFFICES ~stream[d[1]].broadcast
    BY <1>0, <2>1, OneKind
  <2>3. QED
    BY <1>1
<1>2. Len(d) # 1 /\ stream[d[1]].at = 1
  <2>1. d[1] \in 1..Len(stream)
    BY DataInStream
  <2>2. QED
    BY <1>1, <2>1, Types DEF Unclear
<1>3. \A i \in 1..4 : i <= Len(d) => ByteAt(d[i]) = f[i]
  BY <1>2, FirstFour
<1>4. f[1] = UnitId /\ f[2] = Code /\ (f[3] # Zero \/ f[4] # Zero)
  <2>1. d[1] \in 1..Len(stream)
    BY DataInStream
  <2>2. f \in Broadcasts
    BY <1>1, <2>1 DEF StreamInv
  <2>3. QED
    BY <2>2, BroadcastAssumption
<1> HIDE DEF d, f
<1>5. Len(d) >= 2
  <2>1. \A k \in Nat : k # 1 /\ 1 \in 1..k => k >= 2
    OBVIOUS
  <2>2. QED
    BY <1>0, <1>2, <2>1
<1>6. Fc20Head(d)
  BY <1>3, <1>4, <1>5 DEF Fc20Head
<1>7. framing = "socket" => Len(d) >= 4
  BY <1>0, <1>6 DEF TooShort, d
<1>8. framing = "socket" => ByteAt(d[3]) # Zero \/ ByteAt(d[4]) # Zero
  BY <1>3, <1>4, <1>7
<1>9. QED
  BY <1>6, <1>7, <1>8 DEF IsFc20, d

-----------------------------------------------------------------------------
(* The gateway and the network                                             *)

StreamByte(g) == [frame : Frames(g), broadcast : BOOLEAN, at : Nat \ {0}]

(* What has arrived stays what it was.                                     *)
LEMMA ArrivedKept ==
    ASSUME IInv, FcTypeOK', StreamInv', UNCHANGED <<framing, taken, passed>>,
           \A i \in 1..taken : stream'[i] = stream[i],
           \/ UNCHANGED <<socketBuf, troubled>>
           \/ socketBuf' = <<>> /\ troubled' = troubled \cup Places(socketBuf)
    PROVE  IInv'
<1> USE DEF IInv
<1>1. taken \in Nat /\ Len(socketBuf) \in Nat /\ Len(passed) \in Nat /\ passed \in Seq(Nat)
  BY Types
<1>2. Places(passed)' = Places(passed)
  BY DEF Places
<1>3. CASE UNCHANGED <<socketBuf, troubled>>
  <2>1. BufferInv'
    BY <1>3 DEF BufferInv
  <2>2. OrderInv'
    BY <1>3 DEF OrderInv, InOrder
  <2>3. Places(socketBuf)' = Places(socketBuf)
    BY <1>3 DEF Places
  <2>4. Exact'
    BY <1>2, <1>3, <2>3 DEF Exact
  <2>5. QED
    BY <2>1, <2>2, <2>4
<1>4. CASE socketBuf' = <<>> /\ troubled' = troubled \cup Places(socketBuf)
  <2>1. Len(socketBuf)' = 0 /\ Places(socketBuf)' = {}
    BY <1>4 DEF Places
  <2>2. BufferInv'
    BY <1>1, <2>1 DEF BufferInv
  <2>3. OrderInv'
    <3>1. InOrder'
      BY DEF OrderInv, InOrder
    <3>2. \A i \in 1..Len(passed) : passed[i] \in Nat /\ passed[i] <= taken - Len(socketBuf)
      BY <1>1 DEF OrderInv
    <3>3. QED
      BY <1>1, <2>1, <3>1, <3>2 DEF OrderInv
  <2>4. Exact'
    BY <1>2, <1>4, <2>1 DEF Exact
  <2>5. QED
    BY <2>2, <2>3, <2>4
<1>5. QED
  BY <1>3, <1>4

LEMMA SentBytes ==
    ASSUME NEW S, NEW f, NEW b, Len(f) \in Nat,
           \A i \in 1..Len(f) : [frame |-> f, broadcast |-> b, at |-> i] \in S
    PROVE  LET bytes == [i \in 1..Len(f) |-> [frame |-> f, broadcast |-> b, at |-> i]] IN
           /\ bytes \in Seq(S) /\ Len(bytes) = Len(f)
           /\ \A i \in 1..Len(f) : bytes[i] = [frame |-> f, broadcast |-> b, at |-> i]
OBVIOUS

LEMMA JoinedIn ==
    ASSUME NEW S, NEW s \in Seq(S), NEW t \in Seq(S)
    PROVE  /\ s \o t \in Seq(S) /\ Len(s \o t) = Len(s) + Len(t)
           /\ Len(s) \in Nat /\ Len(t) \in Nat
           /\ \A i \in 1..Len(s) : (s \o t)[i] = s[i]
           /\ \A i \in 1..Len(t) : (s \o t)[Len(s) + i] = t[i]
OBVIOUS

LEMMA SendStep ==
    ASSUME IInv, NEW b \in BOOLEAN, NEW f,
           f \in IF b THEN Broadcasts ELSE Responses[framing], Send(f, b)
    PROVE  IInv'
<1> DEFINE S == StreamByte(framing)
           bytes == [i \in 1..Len(f) |-> [frame |-> f, broadcast |-> b, at |-> i]]
           n == Len(stream)
<1>1. f \in Frames(framing) /\ framing \in Framings
  BY Types DEF Frames, IInv
<1>2. Len(f) \in Nat /\ Len(f) >= 4
  BY <1>1, LengthAssumption
<1>3. stream \in Seq(S)
  BY DEF IInv, FcTypeOK, StreamByte
<1>4. /\ bytes \in Seq(S) /\ Len(bytes) = Len(f)
      /\ \A i \in 1..Len(f) : bytes[i] = [frame |-> f, broadcast |-> b, at |-> i]
  <2>1. \A i \in 1..Len(f) : [frame |-> f, broadcast |-> b, at |-> i] \in S
    BY <1>1, <1>2 DEF StreamByte
  <2> HIDE DEF S
  <2>2. QED
    BY <1>2, <2>1, SentBytes
<1>5. stream' = stream \o bytes
  BY DEF Send
<1> HIDE DEF S, bytes
<1>6. /\ stream' \in Seq(S) /\ Len(stream') = n + Len(f) /\ n \in Nat
      /\ \A i \in 1..n : stream'[i] = stream[i]
      /\ \A i \in 1..Len(f) : stream'[n + i] = bytes[i]
  <2>1. /\ stream \o bytes \in Seq(S) /\ Len(stream \o bytes) = n + Len(bytes) /\ n \in Nat
        /\ \A i \in 1..n : (stream \o bytes)[i] = stream[i]
        /\ \A i \in 1..Len(bytes) : (stream \o bytes)[n + i] = bytes[i]
    BY <1>3, <1>4, JoinedIn
  <2>2. QED
    BY <1>4, <1>5, <2>1
<1> HIDE DEF n
<1>7. \A i \in 1..Len(f) : stream'[n + i] = [frame |-> f, broadcast |-> b, at |-> i]
  BY <1>4, <1>6
<1>8. \A i \in 1..(n + Len(f)) : i \in 1..n \/ (i - n \in 1..Len(f) /\ i = n + (i - n))
  BY <1>2, <1>6
<1>9. FcTypeOK'
  <2>1. taken \in 0..Len(stream')
    BY <1>2, <1>6, Types DEF IInv, n
  <2>2. framing' = framing /\ UNCHANGED <<taken, socketBuf, passed, troubled, reconnects>>
        /\ frames' = frames + 1
    BY DEF Send
  <2>3. stream' \in Seq([frame : Frames(framing'), broadcast : BOOLEAN, at : Nat \ {0}])
    BY <1>6, <2>2 DEF S, StreamByte
  <2>4. QED
    BY <2>1, <2>2, <2>3 DEF IInv, FcTypeOK
<1>10. StreamInv'
  <2>1. framing' = framing
    BY DEF Send
  <2>2. ASSUME NEW i \in 1..Len(stream')
        PROVE  /\ stream'[i].at <= Len(stream'[i].frame)
               /\ stream'[i].broadcast => stream'[i].frame \in Broadcasts
               /\ ~stream'[i].broadcast => stream'[i].frame \in Responses[framing]
    <3>1. CASE i \in 1..n
      BY <1>6, <3>1 DEF IInv, StreamInv, n
    <3>2. CASE i - n \in 1..Len(f) /\ i = n + (i - n)
      <4>1. PICK j \in 1..Len(f) : i = n + j
        BY <3>2
      <4>2. stream'[i] = [frame |-> f, broadcast |-> b, at |-> j]
        BY <1>7, <4>1
      <4>3. QED
        BY <1>2, <4>2
    <3>3. QED
      BY <1>6, <1>8, <3>1, <3>2
  <2>3. ASSUME NEW i \in 1..(Len(stream') - 1)
        PROVE  \/ stream'[i + 1].at = 1
               \/ /\ stream'[i + 1].at = stream'[i].at + 1
                  /\ stream'[i + 1].frame = stream'[i].frame
    <3>1. CASE i + 1 \in 1..n
      <4>1. i \in 1..n /\ i \in 1..(n - 1)
        BY <1>6, <3>1
      <4>2. stream'[i] = stream[i] /\ stream'[i + 1] = stream[i + 1]
        BY <1>6, <3>1, <4>1
      <4>3. QED
        BY <4>1, <4>2 DEF IInv, StreamInv, n
    <3>2. CASE i = n
      <4>1. stream'[i + 1] = [frame |-> f, broadcast |-> b, at |-> 1]
        BY <1>2, <1>7, <3>2
      <4>2. QED
        BY <4>1
    <3>3. CASE i > n
      <4>1. PICK j \in 1..Len(f) : i = n + j /\ j + 1 \in 1..Len(f)
        <5>1. i - n \in 1..Len(f) /\ i = n + (i - n) /\ (i - n) + 1 \in 1..Len(f)
          BY <1>2, <1>6, <3>3
        <5>2. QED
          BY <5>1
      <4>2. /\ stream'[n + j] = [frame |-> f, broadcast |-> b, at |-> j]
            /\ stream'[n + (j + 1)] = [frame |-> f, broadcast |-> b, at |-> j + 1]
        BY <1>7, <4>1
      <4>3. n + (j + 1) = i + 1
        BY <1>6, <4>1
      <4>4. QED
        BY <4>1, <4>2, <4>3
    <3>4. QED
      BY <1>2, <1>6, <3>1, <3>2, <3>3
  <2>4. QED
    BY <2>1, <2>2, <2>3 DEF StreamInv
<1>11. \A i \in 1..taken : stream'[i] = stream[i]
  <2>1. taken \in Nat /\ taken <= n
    BY Types DEF IInv, n
  <2>2. QED
    BY <1>6, <2>1
<1>12. UNCHANGED <<framing, taken, passed, socketBuf, troubled>>
  BY DEF Send
<1>13. QED
  BY <1>9, <1>10, <1>11, <1>12, ArrivedKept

LEMMA Prefix ==
    ASSUME NEW S, NEW s \in Seq(S), NEW t \in 0..Len(s)
    PROVE  /\ SubSeq(s, 1, t) \in Seq(S) /\ Len(SubSeq(s, 1, t)) = t
           /\ \A i \in 1..t : SubSeq(s, 1, t)[i] = s[i]
OBVIOUS

LEMMA LostStep ==
    ASSUME IInv, PymodbusReconnects \/ NewClient
    PROVE  IInv'
<1> DEFINE S == StreamByte(framing)
<1>1. stream' = SubSeq(stream, 1, taken) /\ UNCHANGED <<framing, taken, passed, frames>>
      /\ reconnects' = reconnects + 1
  BY DEF PymodbusReconnects, NewClient, ConnectionLost
<1>2. stream \in Seq(S) /\ taken \in 0..Len(stream)
  BY DEF IInv, FcTypeOK, StreamByte
<1> HIDE DEF S
<1>3. /\ stream' \in Seq(S) /\ Len(stream') = taken
      /\ \A i \in 1..taken : stream'[i] = stream[i]
  BY <1>1, <1>2, Prefix
<1>4. taken \in Nat /\ Len(stream) \in Nat /\ taken <= Len(stream)
  BY Types DEF IInv
<1>5. StreamInv'
  <2>1. \A i \in 1..taken : i \in 1..Len(stream)
    BY <1>4
  <2>2. \A i \in 1..(taken - 1) :
          i \in 1..(Len(stream) - 1) /\ i \in 1..taken /\ i + 1 \in 1..taken
    BY <1>4
  <2>3. QED
    BY <1>1, <1>3, <2>1, <2>2 DEF IInv, StreamInv
<1>6. \/ UNCHANGED <<socketBuf, troubled>>
      \/ socketBuf' = <<>> /\ troubled' = troubled \cup Places(socketBuf)
  BY DEF PymodbusReconnects, NewClient
<1>7. socketBuf' \in Seq(1..taken) /\ Len(socketBuf') < 4 /\ troubled' \subseteq 1..taken
      /\ (framing = "rtu" => socketBuf' = <<>>)
  <2>1. CASE UNCHANGED <<socketBuf, troubled>>
    BY <2>1 DEF IInv, FcTypeOK
  <2>2. CASE socketBuf' = <<>> /\ troubled' = troubled \cup Places(socketBuf)
    <3>1. Places(socketBuf) \subseteq 1..taken
      BY BufferPlaces DEF IInv
    <3>2. <<>> \in Seq(1..taken) /\ Len(<<>>) = 0
      OBVIOUS
    <3>3. troubled \subseteq 1..taken
      BY DEF IInv, FcTypeOK
    <3>4. socketBuf' \in Seq(1..taken) /\ Len(socketBuf') = 0
      BY <2>2, <3>2
    <3>5. troubled' \subseteq 1..taken
      BY <2>2, <3>1, <3>3
    <3>6. Len(socketBuf') < 4
      BY <3>4
    <3>7. QED
      BY <2>2, <3>4, <3>5, <3>6, Zenon
  <2>3. QED
    BY <1>6, <2>1, <2>2
<1>8. FcTypeOK'
  BY <1>1, <1>3, <1>4, <1>7 DEF IInv, FcTypeOK, S, StreamByte
<1>9. QED
  BY <1>1, <1>3, <1>5, <1>6, <1>8, ArrivedKept

-----------------------------------------------------------------------------
(* The filter                                                              *)

LEMMA PlacesJoined ==
    ASSUME NEW S, NEW s \in Seq(S), NEW t \in Seq(S)
    PROVE  Places(s \o t) = Places(s) \cup Places(t)
<1>1. /\ Len(s \o t) = Len(s) + Len(t) /\ Len(s) \in Nat /\ Len(t) \in Nat
      /\ \A i \in 1..Len(s) : (s \o t)[i] = s[i]
      /\ \A i \in 1..Len(t) : (s \o t)[Len(s) + i] = t[i]
  BY JoinedIn
<1>2. ASSUME NEW i \in 1..Len(s \o t)
      PROVE  (s \o t)[i] \in Places(s) \cup Places(t)
  <2>1. i \in 1..Len(s) \/ \E j \in 1..Len(t) : i = Len(s) + j
    <3>1. i \in 1..Len(s) \/ (i - Len(s) \in 1..Len(t) /\ i = Len(s) + (i - Len(s)))
      BY <1>1
    <3>2. QED
      BY <3>1
  <2>2. QED
    BY <1>1, <2>1 DEF Places
<1>3. \A i \in 1..Len(s) : i \in 1..Len(s \o t)
  BY <1>1
<1>4. \A i \in 1..Len(t) : Len(s) + i \in 1..Len(s \o t)
  BY <1>1
<1>5. Places(s \o t) \subseteq Places(s) \cup Places(t)
  BY <1>2 DEF Places
<1>6. \A i \in 1..Len(s) : s[i] \in Places(s \o t)
  BY <1>1, <1>3 DEF Places
<1>7. \A i \in 1..Len(t) : t[i] \in Places(s \o t)
  BY <1>1, <1>4 DEF Places
<1>8. Places(s) \subseteq Places(s \o t)
  BY <1>6 DEF Places
<1>9. Places(t) \subseteq Places(s \o t)
  BY <1>7 DEF Places
<1>10. QED
  BY <1>5, <1>8, <1>9

(* What every chunk brings about.                                          *)
LEMMA Arrived ==
    ASSUME IInv, NEW n \in 1..(Len(stream) - taken), Arrive(n)
    PROVE  /\ n \in Nat /\ n > 0 /\ taken + n <= Len(stream)
           /\ taken' = taken + n /\ taken' \in 0..Len(stream')
           /\ UNCHANGED <<framing, stream, countVars>> /\ StreamInv'
           /\ Places(Data(n)) \subseteq 1..taken' /\ troubled' \subseteq 1..taken'
           /\ troubled \subseteq troubled'
           /\ Unclear(Data(n)) => troubled' = troubled \cup Places(Data(n))
           /\ ~Unclear(Data(n)) => troubled' = troubled
<1>1. n \in Nat /\ n > 0 /\ taken \in Nat /\ taken + n <= Len(stream) /\ Len(stream) \in Nat
  BY Types DEF IInv, Arrive
<1>2. taken' = taken + n /\ UNCHANGED <<framing, stream, countVars>>
  BY DEF Arrive
<1>3. StreamInv'
  BY <1>2 DEF IInv, StreamInv
<1>4. Places(Data(n)) \subseteq 1..taken'
  BY <1>1, <1>2, DataPlaces DEF IInv
<1>5. troubled \subseteq 1..taken /\ 1..taken \subseteq 1..taken'
  BY <1>1, <1>2 DEF IInv, FcTypeOK
<1>6. troubled' = IF Unclear(Data(n)) THEN troubled \cup Places(Data(n)) ELSE troubled
  BY DEF Arrive
<1>7. troubled' \subseteq 1..taken' /\ troubled \subseteq troubled'
  BY <1>4, <1>5, <1>6
<1>8. taken' \in 0..Len(stream')
  BY <1>1, <1>2
<1>9. QED
  BY <1>1, <1>2, <1>3, <1>4, <1>6, <1>7, <1>8

(* Nothing else has been decided.                                          *)
LEMMA DecidedBefore ==
    ASSUME IInv, NEW n \in Nat, NEW i \in 1..(taken + n), i \notin Places(Data(n))
    PROVE  i \in 1..taken /\ i \notin Places(socketBuf)
<1>1. taken \in Nat /\ Len(socketBuf) \in Nat /\ Len(socketBuf) <= taken
  BY Types DEF IInv, BufferInv
<1>2. ~(i > taken - Len(socketBuf))
  BY DataPlaces DEF IInv
<1>3. i \in 1..taken
  BY <1>1, <1>2
<1>4. QED
  BY <1>2, <1>3, BufferPlaces DEF IInv

LEMMA NothingPassedAhead ==
    ASSUME IInv, NEW n \in Nat
    PROVE  Places(passed) \cap Places(Data(n)) = {}
<1>1. \A i \in 1..Len(passed) : passed[i] \in Nat /\ passed[i] <= taken - Len(socketBuf)
  BY Types DEF IInv, OrderInv
<1>2. taken \in Nat /\ Len(socketBuf) \in Nat
  BY Types DEF IInv
<1>3. \A i \in 1..Len(passed) : ~(passed[i] > taken - Len(socketBuf))
  BY <1>1, <1>2
<1>4. QED
  BY <1>3, DataPlaces DEF IInv, Places

LEMMA BufferStep ==
    ASSUME IInv, NEW n \in 1..(Len(stream) - taken), Buffer(n)
    PROVE  IInv'
<1>1. /\ Arrive(n) /\ TooShort(Data(n)) /\ socketBuf' = Data(n) /\ passed' = passed
  BY DEF Buffer
<1>2. /\ n \in Nat /\ n > 0 /\ taken' = taken + n /\ taken + n <= Len(stream)
      /\ taken \in Nat /\ Len(socketBuf) \in Nat
  BY <1>1, Arrived, Types DEF IInv
<1>3. /\ Data(n) \in Seq(Nat) /\ Len(Data(n)) = Len(socketBuf) + n
      /\ \A i \in 1..Len(Data(n)) : Data(n)[i] = (taken - Len(socketBuf)) + i
  BY <1>2, DataShape DEF IInv
<1>4. Len(Data(n)) \in 2..3 /\ framing = "socket"
  <2>1. Len(Data(n)) \in Nat
    BY <1>2, <1>3
  <2>2. QED
    BY <1>1, <2>1, Heads DEF TooShort
<1>5. FcTypeOK'
  <2>1. Data(n) \in Seq(1..(taken + n))
    <3>1. \A i \in 1..Len(Data(n)) : Data(n)[i] \in 1..(taken + n)
      BY <1>2, DataBounds DEF IInv
    <3>2. QED
      BY <1>3, <3>1, NarrowerSeq
  <2>2. passed \in Seq(1..(taken + n))
    <3>1. passed \in Seq(1..taken) /\ 1..taken \subseteq 1..(taken + n)
      BY <1>2 DEF IInv, FcTypeOK
    <3>2. QED
      BY <3>1, WiderSeq
  <2>3. Len(Data(n)) < 4
    <3>1. \A k \in 2..3 : k < 4
      OBVIOUS
    <3>2. QED
      BY <1>4, <3>1
  <2>4. /\ framing \in Framings /\ UNCHANGED <<framing, stream, countVars>>
        /\ taken' \in 0..Len(stream') /\ troubled' \subseteq 1..taken'
    BY <1>1, Arrived DEF IInv, FcTypeOK
  <2>5. socketBuf' \in Seq(1..taken') /\ Len(socketBuf') < 4 /\ passed' \in Seq(1..taken')
    BY <1>1, <1>2, <2>1, <2>2, <2>3
  <2>6. framing # "rtu"
    BY <1>4
  <2>7. QED
    BY <2>4, <2>5, <2>6 DEF IInv, FcTypeOK, countVars
<1>6. BufferInv'
  <2>1. taken' - Len(socketBuf') = taken - Len(socketBuf) /\ Len(socketBuf') <= taken'
    BY <1>1, <1>2, <1>3 DEF IInv, BufferInv
  <2>2. QED
    BY <1>1, <1>3, <2>1 DEF BufferInv
<1>7. OrderInv'
  <2>1. taken' - Len(socketBuf') = taken - Len(socketBuf)
    BY <1>1, <1>2, <1>3
  <2>2. QED
    BY <1>1, <2>1 DEF IInv, OrderInv, InOrder
<1>8. Exact'
  <2> SUFFICES ASSUME NEW i \in (1..taken)', i \notin troubled', i \notin Places(socketBuf)'
               PROVE  (i \in Places(passed) <=> ~stream[i].broadcast)'
    BY DEF Exact
  <2>1. i \in 1..(taken + n) /\ i \notin Places(Data(n)) /\ i \notin troubled
    BY <1>1, <1>2, Arrived DEF Places
  <2>2. i \in 1..taken /\ i \notin Places(socketBuf)
    BY <1>2, <2>1, DecidedBefore
  <2>3. i \in Places(passed) <=> ~stream[i].broadcast
    BY <2>1, <2>2 DEF IInv, Exact
  <2>4. stream' = stream /\ Places(passed)' = Places(passed)
    BY <1>1, Arrived DEF Places
  <2>5. QED
    BY <2>3, <2>4
<1>9. QED
  BY <1>1, <1>5, <1>6, <1>7, <1>8, Arrived DEF IInv

(* The buffer is emptied.                                                  *)
LEMMA EmptyBuffer ==
    ASSUME IInv, NEW n \in 1..(Len(stream) - taken), Arrive(n), socketBuf' = <<>>,
           passed' \in Seq(1..taken')
    PROVE  /\ FcTypeOK' /\ StreamInv' /\ BufferInv'
           /\ Len(socketBuf') = 0 /\ Places(socketBuf)' = {}
<1>1. /\ taken' = taken + n /\ taken \in Nat /\ n \in Nat
  BY Arrived, Types DEF IInv
<1>2. Len(socketBuf') = 0 /\ Places(socketBuf)' = {} /\ socketBuf' \in Seq(1..taken')
  BY DEF Places
<1>3. Len(socketBuf') < 4
  BY <1>2
<1>4. FcTypeOK'
  BY <1>2, <1>3, Arrived DEF IInv, FcTypeOK, countVars
<1>5. BufferInv'
  BY <1>1, <1>2 DEF BufferInv
<1>6. QED
  BY <1>2, <1>4, <1>5, Arrived

LEMMA DropStep ==
    ASSUME IInv, NEW n \in 1..(Len(stream) - taken), Drop(n)
    PROVE  IInv'
<1>1. Arrive(n) /\ IsFc20(Data(n)) /\ socketBuf' = <<>> /\ passed' = passed
  BY DEF Drop
<1>2. /\ n \in Nat /\ n > 0 /\ taken' = taken + n /\ taken + n <= Len(stream)
      /\ taken \in Nat /\ Len(socketBuf) \in Nat /\ stream' = stream
  BY <1>1, Arrived, Types DEF IInv
<1>3. passed' \in Seq(1..taken')
  <2>1. passed \in Seq(1..taken) /\ 1..taken \subseteq 1..(taken + n)
    BY <1>2 DEF IInv, FcTypeOK
  <2>2. QED
    BY <1>1, <1>2, <2>1, WiderSeq
<1>4. /\ FcTypeOK' /\ StreamInv' /\ BufferInv'
      /\ Len(socketBuf') = 0 /\ Places(socketBuf)' = {}
  BY <1>1, <1>3, EmptyBuffer
<1>5. OrderInv'
  <2>1. \A i \in 1..Len(passed) : passed[i] \in Nat /\ passed[i] <= taken - Len(socketBuf)
    BY Types DEF IInv, OrderInv
  <2>2. \A i \in 1..Len(passed) : passed[i] <= taken' - Len(socketBuf')
    BY <1>2, <1>4, <2>1
  <2>3. QED
    BY <1>1, <2>2 DEF IInv, OrderInv, InOrder
<1>6. Exact'
  <2> SUFFICES ASSUME NEW i \in (1..taken)', i \notin troubled'
               PROVE  (i \in Places(passed) <=> ~stream[i].broadcast)'
    BY DEF Exact
  <2>1. i \in 1..(taken + n) /\ i \notin troubled /\ Places(passed)' = Places(passed)
    BY <1>1, <1>2, Arrived DEF Places
  <2>2. CASE i \notin Places(Data(n))
    <3>1. i \in 1..taken /\ i \notin Places(socketBuf)
      BY <1>2, <2>1, <2>2, DecidedBefore
    <3>2. i \in Places(passed) <=> ~stream[i].broadcast
      BY <2>1, <3>1 DEF IInv, Exact
    <3>3. QED
      BY <1>2, <2>1, <3>2
  <2>3. CASE i \in Places(Data(n))
    <3>1. ~Unclear(Data(n))
      BY <1>1, <2>3, Arrived
    <3>2. stream[i].broadcast
      BY <1>1, <1>2, <2>3, <3>1, DroppedIsBroadcast DEF IInv, Places
    <3>3. i \notin Places(passed)
      BY <1>2, <2>3, NothingPassedAhead
    <3>4. QED
      BY <1>2, <2>1, <3>2, <3>3
  <2>4. QED
    BY <2>2, <2>3
<1>7. QED
  BY <1>4, <1>5, <1>6 DEF IInv

LEMMA ForwardStep ==
    ASSUME IInv, NEW n \in 1..(Len(stream) - taken), Forward(n)
    PROVE  IInv'
<1> DEFINE d == Data(n)
           b == taken - Len(socketBuf)
<1>1. /\ Arrive(n) /\ ~IsFc20(d) /\ ~TooShort(d) /\ socketBuf' = <<>>
      /\ passed' = passed \o d
  BY DEF Forward
<1>2. /\ n \in Nat /\ n > 0 /\ taken' = taken + n /\ taken + n <= Len(stream)
      /\ taken \in Nat /\ Len(socketBuf) \in Nat /\ stream' = stream
  BY <1>1, Arrived, Types DEF IInv
<1>3. passed \in Seq(1..taken') /\ d \in Seq(1..taken')
  <2>1. passed \in Seq(1..taken) /\ 1..taken \subseteq 1..(taken + n)
    BY <1>2 DEF IInv, FcTypeOK
  <2>2. d \in Seq(Nat) /\ \A i \in 1..Len(d) : d[i] \in 1..(taken + n)
    BY <1>2, DataShape, DataBounds DEF IInv
  <2>3. QED
    BY <1>2, <2>1, <2>2, WiderSeq, NarrowerSeq
<1>4. /\ passed' \in Seq(1..taken') /\ Len(passed') = Len(passed) + Len(d)
      /\ Len(passed) \in Nat /\ Len(d) \in Nat
      /\ \A i \in 1..Len(passed) : passed'[i] = passed[i]
      /\ \A i \in 1..Len(d) : passed'[Len(passed) + i] = d[i]
  <2> HIDE DEF d
  <2>1. QED
    BY <1>1, <1>3, JoinedIn
<1>5. Places(passed)' = Places(passed) \cup Places(d)
  <2>1. Places(passed') = Places(passed) \cup Places(d)
    BY <1>1, <1>3, PlacesJoined
  <2>2. QED
    BY <2>1 DEF Places
<1>6. /\ FcTypeOK' /\ StreamInv' /\ BufferInv'
      /\ Len(socketBuf') = 0 /\ Places(socketBuf)' = {}
  BY <1>1, <1>4, EmptyBuffer
<1>7. OrderInv'
  <2>1. \A i \in 1..Len(passed) : passed[i] \in Nat /\ passed[i] <= b
    BY Types DEF IInv, OrderInv
  <2>2. \A i \in 1..Len(d) : d[i] = b + i
    BY <1>2, DataShape DEF IInv
  <2>3. Len(d) = Len(socketBuf) + n /\ b \in Nat /\ taken' = b + Len(d)
    <3>1. Len(d) = Len(socketBuf) + n /\ Len(socketBuf) <= taken
      BY <1>2, DataShape DEF IInv, BufferInv
    <3> HIDE DEF d
    <3>2. QED
      BY <1>2, <3>1
  <2>4. \A i, j \in 1..Len(passed) : i < j => passed[i] < passed[j]
    BY DEF IInv, OrderInv, InOrder
  <2> HIDE DEF b, d
  <2>5. ASSUME NEW i \in 1..Len(passed')
        PROVE  \/ i \in 1..Len(passed) /\ passed'[i] = passed[i]
               \/ \E k \in 1..Len(d) : i = Len(passed) + k /\ passed'[i] = b + k
    <3>1. i \in 1..Len(passed)
            \/ (i - Len(passed) \in 1..Len(d) /\ i = Len(passed) + (i - Len(passed)))
      BY <1>4
    <3>2. i \in 1..Len(passed) \/ \E k \in 1..Len(d) : i = Len(passed) + k
      BY <3>1
    <3>3. QED
      BY <1>4, <2>2, <3>2
  <2>6. ASSUME NEW i \in 1..Len(passed'), NEW j \in 1..Len(passed'), i < j
        PROVE  passed'[i] < passed'[j]
    <3>1. CASE j \in 1..Len(passed) /\ passed'[j] = passed[j]
      BY <1>4, <2>4, <2>6, <3>1
    <3>2. ASSUME NEW k \in 1..Len(d), j = Len(passed) + k, passed'[j] = b + k
          PROVE  passed'[i] < passed'[j]
      <4>1. CASE i \in 1..Len(passed) /\ passed'[i] = passed[i]
        <5>1. passed[i] \in Nat /\ passed[i] <= b
          BY <2>1, <4>1
        <5>2. b < b + k /\ b + k \in Nat
          BY <1>4, <2>3
        <5>3. passed[i] < b + k
          BY <2>3, <5>1, <5>2
        <5>4. QED
          BY <3>2, <4>1, <5>3
      <4>2. ASSUME NEW m \in 1..Len(d), i = Len(passed) + m, passed'[i] = b + m
            PROVE  passed'[i] < passed'[j]
        BY <1>4, <2>3, <2>6, <3>2, <4>2
      <4>3. QED
        BY <2>5, <4>1, <4>2
    <3>3. QED
      BY <2>5, <3>1, <3>2
  <2>7. ASSUME NEW i \in 1..Len(passed')
        PROVE  passed'[i] <= taken' - Len(socketBuf')
    <3>1. CASE i \in 1..Len(passed) /\ passed'[i] = passed[i]
      BY <1>2, <1>4, <1>6, <2>1, <2>3, <3>1
    <3>2. ASSUME NEW k \in 1..Len(d), passed'[i] = b + k
          PROVE  passed'[i] <= taken' - Len(socketBuf')
      BY <1>2, <1>4, <1>6, <2>3, <3>2
    <3>3. QED
      BY <2>5, <3>1, <3>2
  <2>8. QED
    BY <2>6, <2>7 DEF OrderInv, InOrder
<1>8. Exact'
  <2> SUFFICES ASSUME NEW i \in (1..taken)', i \notin troubled'
               PROVE  (i \in Places(passed) <=> ~stream[i].broadcast)'
    BY DEF Exact
  <2>1. i \in 1..(taken + n) /\ i \notin troubled
    BY <1>1, <1>2, Arrived
  <2>2. CASE i \notin Places(d)
    <3>1. i \in 1..taken /\ i \notin Places(socketBuf)
      BY <1>2, <2>1, <2>2, DecidedBefore
    <3>2. i \in Places(passed) <=> ~stream[i].broadcast
      BY <2>1, <3>1 DEF IInv, Exact
    <3> HIDE DEF d
    <3>3. QED
      BY <1>2, <1>5, <2>2, <3>2
  <2>3. CASE i \in Places(d)
    <3>1. ~Unclear(d)
      BY <1>1, <2>3, Arrived
    <3>2. ~stream[i].broadcast
      BY <1>1, <1>2, <2>3, <3>1, ForwardedIsResponse DEF IInv, Places
    <3> HIDE DEF d
    <3>3. QED
      BY <1>2, <1>5, <2>3, <3>2
  <2>4. QED
    BY <2>2, <2>3
<1>9. QED
  BY <1>6, <1>7, <1>8 DEF IInv

-----------------------------------------------------------------------------
(* Theorems                                                                *)

LEMMA InitIInv == FcInit => IInv
<1> SUFFICES ASSUME FcInit PROVE IInv
  OBVIOUS
<1> USE DEF FcInit
<1>1. FcTypeOK
  <2>1. /\ <<>> \in Seq(StreamByte(framing)) /\ Len(<<>>) = 0
        /\ <<>> \in Seq(1..taken)
    OBVIOUS
  <2>2. QED
    BY <2>1 DEF FcTypeOK, StreamByte
<1>2. StreamInv
  BY DEF StreamInv
<1>3. Len(socketBuf) = 0 /\ Len(passed) = 0 /\ Places(socketBuf) = {}
  BY DEF Places
<1>4. BufferInv /\ OrderInv /\ Exact
  BY <1>3 DEF BufferInv, OrderInv, InOrder, Exact
<1>5. QED
  BY <1>1, <1>2, <1>4 DEF IInv

LEMMA StutterStep == IInv /\ UNCHANGED fcVars => IInv'
<1> SUFFICES ASSUME IInv, UNCHANGED fcVars PROVE IInv'
  OBVIOUS
<1> USE DEF IInv, fcVars, countVars
<1>1. FcTypeOK' /\ StreamInv'
  BY DEF FcTypeOK, StreamInv
<1>2. QED
  BY <1>1, ArrivedKept

LEMMA Inductive == IInv /\ [FcNext]_fcVars => IInv'
<1>1. ASSUME IInv, NEW f \in Responses[framing], Send(f, FALSE) PROVE IInv'
  BY <1>1, SendStep
<1>2. ASSUME IInv, NEW f \in Broadcasts, Send(f, TRUE) PROVE IInv'
  BY <1>2, SendStep
<1>3. QED
  BY <1>1, <1>2, LostStep, BufferStep, DropStep, ForwardStep, StutterStep DEF FcNext

(* The filter keeps the inductive invariant, however the stream is cut.    *)
THEOREM FilterInvariant == FcSpec => []IInv
BY InitIInv, Inductive, PTL DEF FcSpec

(* FcTypeOK is an invariant: what is held back is short, in both framings. *)
THEOREM FilterTypes == FcSpec => []FcTypeOK
<1>1. IInv => FcTypeOK
  BY DEF IInv
<1>2. QED
  BY <1>1, FilterInvariant, PTL

(* InOrder is an invariant: no byte overtakes another, or comes twice.     *)
THEOREM BytesStayInOrder == FcSpec => []InOrder
<1>1. IInv => InOrder
  BY DEF IInv, OrderInv
<1>2. QED
  BY <1>1, FilterInvariant, PTL

(* Exact is an invariant: for every length of frame, whatever their bytes, *)
(* the filter is right about each chunk that is clear.                     *)
THEOREM FilterIsExact == FcSpec => []Exact
<1>1. IInv => Exact
  BY DEF IInv
<1>2. QED
  BY <1>1, FilterInvariant, PTL

=============================================================================
