------------------------ MODULE ShmBroadcast_proofs -------------------------
(***************************************************************************)
(* Proof that the ring buffer neither loses nor overwrites a message that  *)
(* a reader has not read, and that the ring with its sockets is a broadcast *)
(* queue, for any number of readers, chunks and messages.                   *)
(***************************************************************************)
EXTENDS ShmBroadcast, SequenceTheorems, TLAPS

-----------------------------------------------------------------------------
(* The chunks as a round: position k of what was sent, counted from 0, is in *)
(* chunk k % MaxChunks.                                                    *)

(* Division with remainder, as the SMT solver knows it. *)
LEMMA DivMod ==
    ASSUME NEW a \in Nat, NEW M \in Nat \ {0}
    PROVE  /\ a % M \in 0..(M - 1) /\ a \div M \in Nat
           /\ a = M * (a \div M) + (a % M)
  OBVIOUS

(* The remainder is the only one below the divisor. *)
LEMMA ModUnique ==
    ASSUME NEW q \in Int, NEW r \in Int, NEW M \in Nat \ {0}, r \in 0..(M - 1), M * q + r \in Nat
    PROVE  (M * q + r) % M = r
  OBVIOUS

(* Positions less than one round apart are in different chunks. *)
LEMMA WindowInjective ==
    ASSUME NEW a \in Nat, NEW b \in Nat, NEW M \in Nat \ {0}, a < b, b < a + M
    PROVE  a % M # b % M
<1> DEFINE p == a \div M
           q == b \div M
<1>1. /\ p \in Nat /\ q \in Nat /\ a = M * p + (a % M) /\ b = M * q + (b % M)
      /\ a % M \in Int /\ b % M \in Int
  BY DivMod
<1>2. SUFFICES ASSUME a % M = b % M PROVE FALSE
  OBVIOUS
<1> HIDE DEF p, q
<1>3. b - a = M * (q - p)
  BY <1>1, <1>2
<1>4. CASE q - p <= 0
  <2>1. M * (q - p) <= 0
    BY <1>1, <1>4
  <2> QED BY <1>3, <2>1
<1>5. CASE q - p >= 1
  <2>1. M * (q - p) >= M
    BY <1>1, <1>5
  <2> QED BY <1>3, <2>1
<1> QED BY <1>1, <1>4, <1>5

(* The chunk after that of position a is the chunk of position a + 1. *)
LEMMA NextChunk ==
    ASSUME NEW a \in Nat, NEW M \in Nat \ {0}
    PROVE  (a + 1) % M = ((a % M) + 1) % M
<1> DEFINE q == a \div M
           r == a % M
<1>1. q \in Nat /\ r \in 0..(M - 1) /\ a = M * q + r
  BY DivMod
<1> HIDE DEF q, r
<1>2. CASE r + 1 < M
  <2>1. a + 1 = M * q + (r + 1) /\ r + 1 = M * 0 + (r + 1)
    BY <1>1
  <2>2. (M * q + (r + 1)) % M = r + 1 /\ (M * 0 + (r + 1)) % M = r + 1
    BY <1>1, <1>2, <2>1, ModUnique
  <2> QED BY <2>1, <2>2 DEF r
<1>3. CASE r + 1 = M
  <2>1. a + 1 = M * (q + 1) + 0 /\ r + 1 = M * 1 + 0
    BY <1>1, <1>3
  <2>2. (M * (q + 1) + 0) % M = 0 /\ (M * 1 + 0) % M = 0
    BY <1>1, <2>1, ModUnique
  <2> QED BY <2>1, <2>2 DEF r
<1> QED BY <1>1, <1>2, <1>3

(* A whole round later one is back at the same chunk. *)
LEMMA Round ==
    ASSUME NEW a \in Nat, NEW M \in Nat \ {0}
    PROVE  (a + M) % M = a % M
<1> DEFINE q == a \div M
           r == a % M
<1>1. q \in Nat /\ r \in 0..(M - 1) /\ a = M * q + r
  BY DivMod
<1> HIDE DEF q, r
<1>2. a + M = M * (q + 1) + r /\ M * (q + 1) + r \in Nat /\ q + 1 \in Int /\ r \in Int
  BY <1>1
<1>3. (M * (q + 1) + r) % M = r
  BY <1>1, <1>2, ModUnique
<1> QED BY <1>2, <1>3 DEF r

Slot(k) == k % MaxChunks

(* What the arithmetic of the ring needs of the chunk number of a message.  *)
LEMMA SlotFacts ==
    /\ \A k \in Nat : Slot(k) \in Chunks
    /\ Slot(0) = 0
    /\ \A k \in Nat : Slot(k + 1) = Following(Slot(k))
    /\ \A k \in Nat : Slot(k + MaxChunks) = Slot(k)
    /\ \A j, k \in Nat : j < k /\ k < j + MaxChunks => Slot(j) # Slot(k)
<1>1. MaxChunks \in Nat \ {0}
  BY ShmAssumption
<1>2. \A k \in Nat : Slot(k) \in Chunks
  BY <1>1, DivMod DEF Slot, Chunks
<1>3. Slot(0) = 0
  BY <1>1 DEF Slot
<1>4. \A k \in Nat : Slot(k + 1) = Following(Slot(k))
  BY <1>1, NextChunk DEF Slot, Following
<1>5. \A k \in Nat : Slot(k + MaxChunks) = Slot(k)
  BY <1>1, Round DEF Slot
<1>6. \A j, k \in Nat : j < k /\ k < j + MaxChunks => Slot(j) # Slot(k)
  BY <1>1, WindowInjective DEF Slot
<1> QED BY <1>2, <1>3, <1>4, <1>5, <1>6

-----------------------------------------------------------------------------
(* The ring. *)

\* Types, before it is known that nothing but messages is received.
Objects == Messages \cup {Empty, Torn, Overflow, READY}

RingTypeOK ==
    /\ written \in [Chunks -> BOOLEAN]
    /\ read \in [Chunks -> [LocalReaders -> BOOLEAN]]
    /\ data \in [Chunks -> Messages \cup {Empty, Torn, Overflow}]
    /\ subscribed \subseteq Readers
    /\ socket \in [Readers -> Seq(Messages \cup {READY})]
    /\ wpc \in {"wait_local", "wait_remote", "idle", "acquire", "write", "reset", "mark",
                "send_local", "send_remote"}
    /\ message \in 0..MaxMessages /\ windex \in Chunks
    /\ wpc \notin {"wait_local", "wait_remote", "idle"} => message \in Messages
    /\ rpc \in [Readers -> {"connect", "ready", "flag", "written", "read", "mark", "recv"}]
    /\ \A r \in RemoteReaders : rpc[r] \in {"connect", "ready", "recv"}
    /\ read_flag \in [Readers -> BOOLEAN]
    /\ object \in [Readers -> Messages \cup {Empty, Torn, Overflow}]
    /\ rindex \in [LocalReaders -> Chunks]
    /\ sent \in Seq(Messages) /\ received \in [Readers -> Seq(Objects)]

\* The indices, and how far a reader may be behind.
IndicesAgree ==
    /\ windex = Slot(Len(sent))
    /\ \A r \in LocalReaders : /\ rindex[r] = Slot(Taken(r))
                               /\ Taken(r) <= Len(sent) /\ Len(sent) <= Taken(r) + MaxChunks

\* The positions that reader r has yet to read.
UnreadPositions(r) == Taken(r)..(Len(sent) - 1)

\* The flags say exactly which chunks a reader has yet to read ...
FlagsTellUnread ==
    \A r \in LocalReaders, c \in Chunks :
        written[c] /\ ~read[c][r] <=> \E k \in UnreadPositions(r) : c = Slot(k)

\* ... and those chunks hold what was sent.
UnreadHoldsMessage ==
    \A r \in LocalReaders : \A k \in UnreadPositions(r) :
        data[Slot(k)] = InChunk(sent[k + 1])

\* While the writer fills a chunk, it is marked as not written and no reader is a
\* whole round behind; when it is about to mark it, all is in place.
WriterOwnsChunk ==
    /\ wpc \in {"write", "reset", "mark"} =>
          /\ ~written[windex]
          /\ \A r \in LocalReaders : Len(sent) < Taken(r) + MaxChunks
    /\ wpc \in {"reset", "mark"} => data[windex] = InChunk(message)
    /\ wpc = "mark" => \A r \in LocalReaders : ~read[windex][r]

\* A reader that found its flag unset and has read everything will not find the
\* chunk written; one that went on has something to read, and has read it right.
ReaderSeesUnread ==
    \A r \in LocalReaders :
        /\ rpc[r] = "written" /\ ~read_flag[r] /\ Taken(r) = Len(sent) => ~written[rindex[r]]
        /\ rpc[r] \in {"read", "mark"} => Taken(r) < Len(sent)
        /\ rpc[r] = "mark" => object[r] = InChunk(sent[Taken(r) + 1])

RingInv == /\ IndicesAgree /\ FlagsTellUnread /\ UnreadHoldsMessage
           /\ WriterOwnsChunk /\ ReaderSeesUnread

(* Where the indices go, and what is in the sockets after a publication. *)
LEMMA FollowingType == \A c \in Chunks : Following(c) \in Chunks
<1>1. MaxChunks \in Nat \ {0}
  BY ShmAssumption
<1> QED BY <1>1, DivMod DEF Following, Chunks

(* Publishing a message leaves sequences of messages in the sockets.       *)
LEMMA PublishedType ==
    ASSUME RingTypeOK, NEW S, NEW m \in Messages \cup {READY}
    PROVE  Published(S, m) \in [Readers -> Seq(Messages \cup {READY})]
<1>1. ASSUME NEW r \in Readers
      PROVE  /\ socket[r] \in Seq(Messages \cup {READY})
             /\ Append(socket[r], m) \in Seq(Messages \cup {READY})
  <2>1. socket[r] \in Seq(Messages \cup {READY})
    BY DEF RingTypeOK
  <2> QED BY <2>1, AppendProperties
<1> QED BY <1>1 DEF Published

(* Every step keeps the types. *)
LEMMA RingTypes == Spec => []RingTypeOK
<1> USE ShmAssumption
<1>1. Init => RingTypeOK
  BY DEF Init, RingTypeOK, Readers, Chunks, Messages, Objects
<1>2. RingTypeOK /\ [Next]_vars => RingTypeOK'
  <2> SUFFICES ASSUME RingTypeOK, [Next]_vars PROVE RingTypeOK'
    OBVIOUS
  <2> USE DEF RingTypeOK
  <2>1. CASE StartEnqueue
    BY <2>1 DEF StartEnqueue, ring, sockets, reader, Messages
  <2>2. CASE EnqueueTimesOut
    BY <2>2 DEF EnqueueTimesOut, ring, sockets, reader
  <2>3. CASE WaitLocal
    BY <2>3, PublishedType DEF WaitLocal, ring, reader
  <2>4. CASE WaitRemote
    BY <2>4, PublishedType DEF WaitRemote, ring, reader
  <2>5. CASE AcquireWrite
    BY <2>5 DEF AcquireWrite, sockets, reader
  <2>6. CASE WriteData
    BY <2>6 DEF WriteData, InChunk, sockets, reader
  <2>7. CASE ResetReadFlags
    BY <2>7 DEF ResetReadFlags, Unread, sockets, reader
  <2>8. CASE MarkWritten
    <3>1. AfterLocal \in {"idle", "send_remote"}
      BY DEF AfterLocal
    <3>2. message \in Messages /\ Append(sent, message) \in Seq(Messages)
      BY <2>8, AppendProperties DEF MarkWritten
    <3> QED BY <2>8, <3>1, <3>2, FollowingType DEF MarkWritten, sockets, reader
  <2>9. CASE SendLocal
    <3>1. AfterLocal \in {"idle", "send_remote"} /\ message \in Messages
      BY <2>9 DEF SendLocal, AfterLocal
    <3> QED BY <2>9, <3>1, PublishedType DEF SendLocal, ring, reader
  <2>10. CASE SendRemote
    BY <2>10, PublishedType DEF SendRemote, ring, reader
  <2>11. ASSUME NEW r \in Readers, Subscribe(r) PROVE RingTypeOK'
    BY <2>11 DEF Subscribe, ring, writer
  <2>12. ASSUME NEW r \in Readers, GetReady(r) PROVE RingTypeOK'
    <3>1. Tail(socket[r]) \in Seq(Messages \cup {READY})
      BY <2>12, HeadTailProperties DEF GetReady
    <3>2. RemoteReaders \subseteq Readers
      BY DEF Readers
    <3> QED BY <2>12, <3>1, <3>2 DEF GetReady, ring, writer
  <2>13. ASSUME NEW r \in Readers, ReadFlag(r) PROVE RingTypeOK'
    <3>1. r \in LocalReaders
      BY <2>13 DEF ReadFlag, Readers
    <3>2. read[rindex[r]][r] \in BOOLEAN
      BY <3>1
    <3> QED BY <2>13, <3>1, <3>2 DEF ReadFlag, ring, sockets, writer
  <2>14. ASSUME NEW r \in Readers, CheckWritten(r) PROVE RingTypeOK'
    BY <2>14 DEF CheckWritten, ring, sockets, writer
  <2>15. ASSUME NEW r \in Readers, ReadData(r) PROVE RingTypeOK'
    <3>1. r \in LocalReaders
      BY <2>15 DEF ReadData, Readers
    <3> QED BY <2>15, <3>1 DEF ReadData, ring, sockets, writer
  <2>16. ASSUME NEW r \in Readers, MarkRead(r) PROVE RingTypeOK'
    <3>1. r \in LocalReaders
      BY <2>16 DEF MarkRead, Readers
    <3>2. rindex' \in [LocalReaders -> Chunks]
      BY <2>16, <3>1, FollowingType DEF MarkRead
    <3>3. read' \in [Chunks -> [LocalReaders -> BOOLEAN]]
      BY <2>16, <3>1 DEF MarkRead
    <3>4. object' \in [Readers -> Messages \cup {Empty, Torn, Overflow}]
      BY <2>16 DEF MarkRead
    <3>5. received' \in [Readers -> Seq(Objects)]
      <4>1. object[r] \in Objects /\ received[r] \in Seq(Objects)
        BY DEF Objects
      <4>2. Append(received[r], object[r]) \in Seq(Objects)
        BY <4>1, AppendProperties
      <4> QED BY <2>16, <4>2 DEF MarkRead
    <3>6. /\ rpc' \in [Readers -> {"connect", "ready", "flag", "written", "read", "mark", "recv"}]
          /\ \A q \in RemoteReaders : rpc'[q] \in {"connect", "ready", "recv"}
      BY <2>16, <3>1 DEF MarkRead, Readers
    <3> QED BY <2>16, <3>2, <3>3, <3>4, <3>5, <3>6 DEF MarkRead, sockets, writer
  <2>17. ASSUME NEW r \in Readers, Recv(r) PROVE RingTypeOK'
    <3>1. /\ Tail(socket[r]) \in Seq(Messages \cup {READY})
          /\ Head(socket[r]) \in Messages \cup {READY}
      BY <2>17, HeadTailProperties DEF Recv
    <3>2. Append(received[r], Head(socket[r])) \in Seq(Objects)
      BY <3>1, AppendProperties DEF Objects
    <3>3. received' \in [Readers -> Seq(Objects)]
      BY <2>17, <3>2 DEF Recv
    <3>4. socket' \in [Readers -> Seq(Messages \cup {READY})]
      BY <2>17, <3>1 DEF Recv
    <3>5. /\ rpc' \in [Readers -> {"connect", "ready", "flag", "written", "read", "mark", "recv"}]
          /\ \A q \in RemoteReaders : rpc'[q] \in {"connect", "ready", "recv"}
      BY <2>17 DEF Recv, Readers
    <3> QED BY <2>17, <3>3, <3>4, <3>5 DEF Recv, ring, writer
  <2>18. CASE UNCHANGED vars
    BY <2>18 DEF vars, ring, sockets, writer, reader
  <2> QED
    BY <2>1, <2>2, <2>3, <2>4, <2>5, <2>6, <2>7, <2>8, <2>9, <2>10, <2>11, <2>12, <2>13,
       <2>14, <2>15, <2>16, <2>17, <2>18 DEF Next, WriterStep, ReaderStep
<1> QED BY <1>1, <1>2, PTL DEF Spec

(* The number of chunks read is a number. *)
LEMMA TakenType == ASSUME RingTypeOK PROVE \A r \in LocalReaders : Taken(r) \in Nat
<1> SUFFICES ASSUME NEW r \in LocalReaders PROVE Taken(r) \in Nat
  OBVIOUS
<1>1. received[r] \in Seq(Objects)
  BY DEF RingTypeOK, Readers
<1>2. Len(received[r]) \in Nat
  BY <1>1, LenProperties
<1>3. CASE rpc[r] = "recv"
  BY <1>2, <1>3 DEF Taken
<1>4. CASE rpc[r] # "recv"
  BY <1>2, <1>4 DEF Taken
<1> QED BY <1>3, <1>4

(* Initially nothing is written, read or sent. *)
LEMMA RingInvInit == Init => RingInv
<1> SUFFICES ASSUME Init PROVE RingInv
  OBVIOUS
<1>1. ASSUME NEW r \in LocalReaders PROVE Taken(r) = 0
  <2>1. rpc[r] # "recv" /\ received[r] = <<>>
    BY DEF Init, Readers
  <2>2. Len(received[r]) = 0
    BY <2>1
  <2> QED BY <2>1, <2>2 DEF Taken
<1>2. Len(sent) = 0
  BY DEF Init
<1>3. MaxChunks \in Nat \ {0}
  BY ShmAssumption
<1>4. IndicesAgree
  <2>1. windex = Slot(Len(sent))
    BY <1>2, SlotFacts DEF Init
  <2>2. ASSUME NEW r \in LocalReaders
        PROVE  /\ rindex[r] = Slot(Taken(r))
               /\ Taken(r) <= Len(sent) /\ Len(sent) <= Taken(r) + MaxChunks
    <3>1. Taken(r) = 0 /\ rindex[r] = 0
      BY <1>1 DEF Init
    <3> QED BY <3>1, <1>2, <1>3, SlotFacts
  <2> QED BY <2>1, <2>2 DEF IndicesAgree
<1>5. ASSUME NEW r \in LocalReaders PROVE UnreadPositions(r) = {}
  <2>1. Taken(r) = 0
    BY <1>1
  <2> QED BY <2>1, <1>2 DEF UnreadPositions
<1>6. FlagsTellUnread /\ UnreadHoldsMessage
  BY <1>5 DEF FlagsTellUnread, UnreadHoldsMessage, Init
<1>7. WriterOwnsChunk
  BY DEF WriterOwnsChunk, Init
<1>8. ReaderSeesUnread
  BY DEF ReaderSeesUnread, Init, Readers
<1> QED BY <1>4, <1>6, <1>7, <1>8 DEF RingInv

(* Steps of the writer that touch neither the ring nor its index. *)
LEMMA WriterOutsideRing ==
    ASSUME RingInv, UNCHANGED <<ring, windex, reader, sent, received>>,
           wpc' \notin {"write", "reset", "mark"}
    PROVE  RingInv'
<1>1. \A r \in LocalReaders : Taken(r)' = Taken(r)
  BY DEF Taken, reader
<1>2. \A r \in LocalReaders : UnreadPositions(r)' = UnreadPositions(r)
  BY <1>1 DEF UnreadPositions
<1> USE DEF RingInv, ring, reader
<1>3. IndicesAgree'
  BY <1>1 DEF IndicesAgree
<1>4. FlagsTellUnread'
  BY <1>2 DEF FlagsTellUnread
<1>5. UnreadHoldsMessage'
  BY <1>2 DEF UnreadHoldsMessage, InChunk
<1>6. WriterOwnsChunk'
  BY DEF WriterOwnsChunk
<1>7. ReaderSeesUnread'
  BY <1>1 DEF ReaderSeesUnread, InChunk
<1> QED BY <1>3, <1>4, <1>5, <1>6, <1>7

(* Steps of a reader that do not touch the ring: what they have to keep is what *)
(* the reader knows of its own chunk.                                      *)
LEMMA ReaderOutsideRing ==
    ASSUME RingInv, NEW r \in Readers,
           UNCHANGED <<ring, writer, sent, rindex>>,
           \A q \in LocalReaders : Taken(q)' = Taken(q),
           \A q \in LocalReaders \ {r} :
              rpc'[q] = rpc[q] /\ read_flag'[q] = read_flag[q] /\ object'[q] = object[q],
           r \in LocalReaders =>
              /\ rpc'[r] = "written" /\ ~read_flag'[r] /\ Taken(r) = Len(sent)
                    => ~written[rindex[r]]
              /\ rpc'[r] \in {"read", "mark"} => Taken(r) < Len(sent)
              /\ rpc'[r] = "mark" => object'[r] = InChunk(sent[Taken(r) + 1])
    PROVE  RingInv'
<1>2. \A q \in LocalReaders : UnreadPositions(q)' = UnreadPositions(q)
  BY DEF UnreadPositions
<1> USE DEF RingInv, ring, writer
<1>3. IndicesAgree'
  BY DEF IndicesAgree
<1>4. FlagsTellUnread'
  BY <1>2 DEF FlagsTellUnread
<1>5. UnreadHoldsMessage'
  BY <1>2 DEF UnreadHoldsMessage, InChunk
<1>6. WriterOwnsChunk'
  BY DEF WriterOwnsChunk, InChunk
<1>7. ReaderSeesUnread'
  BY DEF ReaderSeesUnread, InChunk
<1> QED BY <1>3, <1>4, <1>5, <1>6, <1>7

(* A reader finds its chunk readable exactly when something is unread. *)
LEMMA OwnChunk ==
    ASSUME RingTypeOK, RingInv, NEW r \in LocalReaders
    PROVE  /\ Taken(r) < Len(sent) => written[rindex[r]] /\ ~read[rindex[r]][r]
           /\ Taken(r) < Len(sent) => data[rindex[r]] = InChunk(sent[Taken(r) + 1])
           /\ Taken(r) = Len(sent) => ~written[rindex[r]] \/ read[rindex[r]][r]
<1>1. Taken(r) \in Nat /\ Len(sent) \in Nat
  BY TakenType, LenProperties DEF RingTypeOK
<1>2. rindex[r] = Slot(Taken(r)) /\ rindex[r] \in Chunks
  BY DEF RingInv, IndicesAgree, RingTypeOK
<1>3. Taken(r) < Len(sent) => Taken(r) \in UnreadPositions(r)
  BY <1>1 DEF UnreadPositions
<1>4. Taken(r) = Len(sent) => UnreadPositions(r) = {}
  BY <1>1 DEF UnreadPositions
<1>5. Taken(r) < Len(sent) => written[rindex[r]] /\ ~read[rindex[r]][r]
  BY <1>2, <1>3 DEF RingInv, FlagsTellUnread
<1>6. Taken(r) < Len(sent) => data[rindex[r]] = InChunk(sent[Taken(r) + 1])
  BY <1>2, <1>3 DEF RingInv, UnreadHoldsMessage
<1>7. Taken(r) = Len(sent) => ~written[rindex[r]] \/ read[rindex[r]][r]
  BY <1>2, <1>4 DEF RingInv, FlagsTellUnread
<1> QED BY <1>5, <1>6, <1>7

(* The writer that may take its chunk is less than a round ahead of every reader. *)
LEMMA RoomToWrite ==
    ASSUME RingTypeOK, RingInv, CanWrite, NEW r \in LocalReaders
    PROVE  Len(sent) < Taken(r) + MaxChunks
<1>1. Taken(r) \in Nat /\ Len(sent) \in Nat /\ MaxChunks \in Nat \ {0}
  BY TakenType, LenProperties, ShmAssumption DEF RingTypeOK
<1>2. Len(sent) <= Taken(r) + MaxChunks
  BY DEF RingInv, IndicesAgree
<1>3. ASSUME Len(sent) = Taken(r) + MaxChunks PROVE FALSE
  <2>1. Taken(r) \in UnreadPositions(r)
    BY <1>1, <1>3 DEF UnreadPositions
  <2>2. windex = Slot(Taken(r)) /\ windex \in Chunks
    BY <1>1, <1>3, SlotFacts DEF RingInv, IndicesAgree, RingTypeOK
  <2>3. written[windex] /\ ~read[windex][r]
    BY <2>1, <2>2 DEF RingInv, FlagsTellUnread
  <2> QED BY <2>3 DEF CanWrite
<1> QED BY <1>1, <1>2, <1>3

(* While the writer owns its chunk, nobody has it to read. *)
LEMMA ChunkIsFree ==
    ASSUME RingTypeOK, RingInv, NEW r \in LocalReaders, Len(sent) < Taken(r) + MaxChunks
    PROVE  \A k \in UnreadPositions(r) : Slot(k) # windex
<1>1. Taken(r) \in Nat /\ Len(sent) \in Nat /\ MaxChunks \in Nat \ {0}
  BY TakenType, LenProperties, ShmAssumption DEF RingTypeOK
<1>2. windex = Slot(Len(sent))
  BY DEF RingInv, IndicesAgree
<1> SUFFICES ASSUME NEW k \in UnreadPositions(r) PROVE Slot(k) # Slot(Len(sent))
  BY <1>2
<1>3. k \in Nat /\ k < Len(sent) /\ Len(sent) < k + MaxChunks
  BY <1>1 DEF UnreadPositions
<1> QED BY <1>1, <1>3, SlotFacts

(* The steps that fill a chunk: before it is marked, only the writer is concerned. *)
LEMMA FillingStep ==
    ASSUME RingTypeOK, RingInv, AcquireWrite \/ WriteData \/ ResetReadFlags
    PROVE  RingInv'
<1> USE DEF RingInv
<1>1. /\ UNCHANGED <<windex, message, rindex, rpc, read_flag, object, sent, received>>
      /\ windex \in Chunks
      /\ \A c \in Chunks \ {windex} : /\ written'[c] = written[c]
                                      /\ read'[c] = read[c]
                                      /\ data'[c] = data[c]
  BY DEF AcquireWrite, WriteData, ResetReadFlags, Unread, reader, RingTypeOK
<1>2. \A r \in LocalReaders : Len(sent) < Taken(r) + MaxChunks
  BY RoomToWrite DEF AcquireWrite, WriteData, ResetReadFlags, WriterOwnsChunk
<1>3. /\ ~written'[windex]
      /\ wpc' \in {"reset", "mark"} => data'[windex] = InChunk(message)
      /\ wpc' = "mark" => \A r \in LocalReaders : ~read'[windex][r]
  BY <1>1 DEF AcquireWrite, WriteData, ResetReadFlags, Unread, RingTypeOK, WriterOwnsChunk
<1>4. \A r \in LocalReaders : Taken(r)' = Taken(r)
  BY <1>1 DEF Taken
<1>5. \A r \in LocalReaders : UnreadPositions(r)' = UnreadPositions(r)
  BY <1>1, <1>4 DEF UnreadPositions
<1>6. IndicesAgree'
  BY <1>1, <1>4 DEF IndicesAgree
<1>7. FlagsTellUnread'
  <2> SUFFICES ASSUME NEW r \in LocalReaders, NEW c \in Chunks
               PROVE  written'[c] /\ ~read'[c][r] <=> \E k \in UnreadPositions(r) : c = Slot(k)
    BY <1>5 DEF FlagsTellUnread
  <2>1. CASE c = windex
    BY <2>1, <1>2, <1>3, ChunkIsFree
  <2>2. CASE c # windex
    BY <2>2, <1>1 DEF FlagsTellUnread
  <2> QED BY <2>1, <2>2
<1>8. UnreadHoldsMessage'
  <2> SUFFICES ASSUME NEW r \in LocalReaders, NEW k \in UnreadPositions(r)
               PROVE  data'[Slot(k)] = InChunk(sent[k + 1])
    BY <1>1, <1>5 DEF UnreadHoldsMessage, InChunk
  <2>1. k \in Nat
    BY TakenType, LenProperties DEF UnreadPositions, RingTypeOK
  <2>2. Slot(k) \in Chunks \ {windex}
    BY <2>1, <1>2, ChunkIsFree, SlotFacts
  <2> QED BY <2>2, <1>1 DEF UnreadHoldsMessage
<1>9. WriterOwnsChunk'
  BY <1>1, <1>2, <1>3, <1>4 DEF WriterOwnsChunk, InChunk
<1>10. ReaderSeesUnread'
  <2> SUFFICES ASSUME NEW r \in LocalReaders, rpc[r] = "written", ~read_flag[r],
                      Taken(r) = Len(sent)
               PROVE  ~written'[rindex[r]]
    BY <1>1, <1>4 DEF ReaderSeesUnread, InChunk
  <2>1. rindex[r] \in Chunks /\ ~written[rindex[r]]
    BY DEF ReaderSeesUnread, RingTypeOK
  <2> QED BY <2>1, <1>1, <1>3
<1> QED BY <1>6, <1>7, <1>8, <1>9, <1>10

(* The chunk is marked: it becomes the last unread one of every reader. *)
LEMMA MarkWrittenStep ==
    ASSUME RingTypeOK, RingInv, MarkWritten
    PROVE  RingInv'
<1> USE DEF RingInv
<1>1. /\ UNCHANGED <<read, data, message, rindex, rpc, read_flag, object, received>>
      /\ windex \in Chunks /\ windex' = Following(windex)
      /\ written'[windex] /\ \A c \in Chunks \ {windex} : written'[c] = written[c]
      /\ wpc' \notin {"write", "reset", "mark"}
  BY DEF MarkWritten, AfterLocal, reader, RingTypeOK
<1>2. /\ sent \in Seq(Messages) /\ message \in Messages /\ sent' = Append(sent, message)
      /\ Len(sent) \in Nat /\ MaxChunks \in Nat \ {0}
  BY ShmAssumption, LenProperties DEF MarkWritten, RingTypeOK
<1>3. /\ Len(sent') = Len(sent) + 1 /\ sent'[Len(sent) + 1] = message
      /\ \A i \in 1..Len(sent) : sent'[i] = sent[i]
  BY <1>2, AppendProperties
<1>4. /\ \A r \in LocalReaders : Len(sent) < Taken(r) + MaxChunks
      /\ data[windex] = InChunk(message)
      /\ \A r \in LocalReaders : ~read[windex][r]
  BY DEF MarkWritten, WriterOwnsChunk
<1>5. \A r \in LocalReaders : Taken(r)' = Taken(r)
  BY <1>1 DEF Taken
<1>6. ASSUME NEW r \in LocalReaders
      PROVE  UnreadPositions(r)' = UnreadPositions(r) \cup {Len(sent)}
  <2>1. Taken(r) \in Nat /\ Taken(r) <= Len(sent)
    BY TakenType DEF IndicesAgree
  <2> QED BY <2>1, <1>2, <1>3, <1>5 DEF UnreadPositions
<1>7. windex = Slot(Len(sent)) /\ windex' = Slot(Len(sent) + 1)
  BY <1>1, <1>2, SlotFacts DEF IndicesAgree
<1>8. IndicesAgree'
  <2>1. ASSUME NEW r \in LocalReaders
        PROVE  Taken(r) <= Len(sent) + 1 /\ Len(sent) + 1 <= Taken(r) + MaxChunks
    <3>1. Taken(r) \in Nat /\ Taken(r) <= Len(sent) /\ Len(sent) < Taken(r) + MaxChunks
      BY TakenType, <1>4 DEF IndicesAgree
    <3> QED BY <3>1, <1>2
  <2> QED BY <2>1, <1>1, <1>3, <1>5, <1>7 DEF IndicesAgree
<1>9. FlagsTellUnread'
  <2> SUFFICES ASSUME NEW r \in LocalReaders, NEW c \in Chunks
               PROVE  written'[c] /\ ~read[c][r]
                        <=> c = windex \/ \E k \in UnreadPositions(r) : c = Slot(k)
    BY <1>1, <1>6, <1>7 DEF FlagsTellUnread
  <2>1. CASE c = windex
    BY <2>1, <1>1, <1>4
  <2>2. CASE c # windex
    BY <2>2, <1>1 DEF FlagsTellUnread
  <2> QED BY <2>1, <2>2
<1>10. UnreadHoldsMessage'
  <2> SUFFICES ASSUME NEW r \in LocalReaders, NEW k \in UnreadPositions(r) \cup {Len(sent)}
               PROVE  data[Slot(k)] = InChunk(sent'[k + 1])
    BY <1>1, <1>6 DEF UnreadHoldsMessage, InChunk
  <2>1. CASE k = Len(sent)
    BY <2>1, <1>3, <1>4, <1>7
  <2>2. CASE k \in UnreadPositions(r)
    <3>1. Taken(r) \in Nat
      BY TakenType
    <3>2. k + 1 \in 1..Len(sent)
      BY <3>1, <2>2, <1>2 DEF UnreadPositions
    <3> QED BY <3>2, <2>2, <1>3 DEF UnreadHoldsMessage
  <2> QED BY <2>1, <2>2
<1>11. WriterOwnsChunk'
  BY <1>1 DEF WriterOwnsChunk
<1>12. ReaderSeesUnread'
  <2> SUFFICES ASSUME NEW r \in LocalReaders
               PROVE  /\ Taken(r) # Len(sent) + 1
                      /\ rpc[r] \in {"read", "mark"} => Taken(r) < Len(sent) + 1
                      /\ rpc[r] = "mark" => object[r] = InChunk(sent'[Taken(r) + 1])
    BY <1>1, <1>3, <1>5 DEF ReaderSeesUnread, InChunk
  <2>1. Taken(r) \in Nat /\ Taken(r) <= Len(sent)
    BY TakenType DEF IndicesAgree
  <2>2. Taken(r) # Len(sent) + 1 /\ Taken(r) < Len(sent) + 1
    BY <2>1, <1>2
  <2>3. ASSUME rpc[r] = "mark" PROVE object[r] = InChunk(sent'[Taken(r) + 1])
    <3>1. Taken(r) < Len(sent) /\ object[r] = InChunk(sent[Taken(r) + 1])
      BY <2>3 DEF ReaderSeesUnread
    <3>2. Taken(r) + 1 \in 1..Len(sent)
      BY <3>1, <2>1, <1>2
    <3> QED BY <3>1, <3>2, <1>3
  <2> QED BY <2>2, <2>3
<1> QED BY <1>8, <1>9, <1>10, <1>11, <1>12

(* A reader marks its chunk: it was the first of its unread ones. *)
LEMMA MarkReadStep ==
    ASSUME RingTypeOK, RingInv, NEW r \in LocalReaders, MarkRead(r)
    PROVE  RingInv'
<1> USE DEF RingInv
<1>1. /\ UNCHANGED <<written, data, wpc, message, windex, read_flag, sent>>
      /\ rindex[r] \in Chunks /\ r \in Readers
      /\ rindex' = [rindex EXCEPT ![r] = Following(@)]
      /\ read'[rindex[r]][r]
      /\ \A c \in Chunks, q \in LocalReaders :
            c # rindex[r] \/ q # r => read'[c][q] = read[c][q]
      /\ rpc'[r] \in {"recv", "flag"}
      /\ \A q \in LocalReaders \ {r} : /\ rpc'[q] = rpc[q] /\ object'[q] = object[q]
                                       /\ received'[q] = received[q]
  BY DEF MarkRead, writer, RingTypeOK, Readers
<1>2. \A q \in LocalReaders : Taken(q) \in Nat
  BY TakenType
<1>3. Len(sent) \in Nat /\ MaxChunks \in Nat \ {0}
  BY ShmAssumption, LenProperties DEF RingTypeOK
<1>4. \A q \in LocalReaders \ {r} : Taken(q)' = Taken(q)
  BY <1>1 DEF Taken
<1>5. Taken(r)' = Taken(r) + 1
  <2>1. received[r] \in Seq(Objects) /\ object[r] \in Objects /\ rpc[r] = "mark"
    BY <1>1 DEF RingTypeOK, Objects, MarkRead
  <2>2. Len(received[r]) \in Nat
    BY <2>1, LenProperties
  <2>3. CASE object[r] = Overflow
    BY <2>1, <2>2, <2>3, <1>1 DEF MarkRead, Taken, RingTypeOK
  <2>4. CASE object[r] # Overflow
    <3>1. Len(Append(received[r], object[r])) = Len(received[r]) + 1
      BY <2>1, AppendProperties
    <3>2. received'[r] = Append(received[r], object[r]) /\ rpc'[r] = "flag"
      BY <2>4, <1>1 DEF MarkRead, RingTypeOK
    <3> QED BY <3>1, <3>2, <2>1, <2>2 DEF Taken
  <2> QED BY <2>3, <2>4
<1>6. rindex[r] = Slot(Taken(r)) /\ Taken(r) < Len(sent) /\ Len(sent) <= Taken(r) + MaxChunks
  BY DEF IndicesAgree, ReaderSeesUnread, MarkRead
<1>7. \A q \in LocalReaders \ {r} : UnreadPositions(q)' = UnreadPositions(q)
  BY <1>1, <1>4 DEF UnreadPositions
<1>8. UnreadPositions(r) = UnreadPositions(r)' \cup {Taken(r)}
  <2>1. Taken(r) \in Nat
    BY <1>2
  <2> QED BY <2>1, <1>1, <1>3, <1>5, <1>6 DEF UnreadPositions
<1>9. \A k \in UnreadPositions(r)' : Slot(k) # rindex[r]
  <2> SUFFICES ASSUME NEW k \in UnreadPositions(r)' PROVE Slot(k) # Slot(Taken(r))
    BY <1>6
  <2>1. Taken(r) \in Nat
    BY <1>2
  <2>2. k \in Nat /\ Taken(r) < k /\ k < Taken(r) + MaxChunks
    BY <2>1, <1>1, <1>3, <1>5, <1>6 DEF UnreadPositions
  <2> QED BY <2>1, <2>2, SlotFacts
<1>10. IndicesAgree'
  <2> SUFFICES ASSUME NEW q \in LocalReaders
               PROVE  /\ rindex'[q] = Slot(Taken(q)')
                      /\ Taken(q)' <= Len(sent) /\ Len(sent) <= Taken(q)' + MaxChunks
    BY <1>1 DEF IndicesAgree
  <2>1. CASE q = r
    <3>1. rindex'[r] = Slot(Taken(r) + 1)
      BY <1>1, <1>2, <1>6, SlotFacts DEF RingTypeOK
    <3>2. Taken(r) \in Nat
      BY <1>2
    <3>3. Taken(r) + 1 <= Len(sent) /\ Len(sent) <= Taken(r) + 1 + MaxChunks
      BY <3>2, <1>3, <1>6
    <3> QED BY <2>1, <3>1, <3>3, <1>5
  <2>2. CASE q # r
    BY <2>2, <1>1, <1>4 DEF IndicesAgree, RingTypeOK
  <2> QED BY <2>1, <2>2
<1>11. FlagsTellUnread'
  <2> SUFFICES ASSUME NEW q \in LocalReaders, NEW c \in Chunks
               PROVE  written[c] /\ ~read'[c][q] <=> \E k \in UnreadPositions(q)' : c = Slot(k)
    BY <1>1 DEF FlagsTellUnread
  <2>1. CASE q # r
    BY <2>1, <1>1, <1>7 DEF FlagsTellUnread
  <2>2. CASE q = r /\ c = rindex[r]
    BY <2>2, <1>1, <1>9
  <2>3. CASE q = r /\ c # rindex[r]
    BY <2>3, <1>1, <1>6, <1>8 DEF FlagsTellUnread
  <2> QED BY <2>1, <2>2, <2>3
<1>12. UnreadHoldsMessage'
  BY <1>1, <1>7, <1>8 DEF UnreadHoldsMessage, InChunk
<1>13. WriterOwnsChunk'
  <2>1. ASSUME NEW q \in LocalReaders, Len(sent) < Taken(q) + MaxChunks
        PROVE  Len(sent) < Taken(q)' + MaxChunks
    <3>1. Taken(q) \in Nat /\ Taken(q)' \in {Taken(q), Taken(q) + 1}
      BY <1>2, <1>4, <1>5
    <3> QED BY <3>1, <2>1, <1>3
  <2>2. ASSUME wpc = "mark" PROVE rindex[r] # windex
    BY <2>2, <1>6, OwnChunk DEF WriterOwnsChunk
  <2>3. wpc = "mark" => \A q \in LocalReaders : ~read'[windex][q]
    BY <2>2, <1>1 DEF WriterOwnsChunk, RingTypeOK
  <2> QED BY <2>1, <2>3, <1>1 DEF WriterOwnsChunk, InChunk
<1>14. ReaderSeesUnread'
  BY <1>1, <1>4 DEF ReaderSeesUnread, InChunk, RingTypeOK
<1> QED BY <1>10, <1>11, <1>12, <1>13, <1>14

(* One step per action. *)
LEMMA RingInvStep ==
    ASSUME RingTypeOK, RingInv, [Next]_vars
    PROVE  RingInv'
<1>1. CASE StartEnqueue
  BY <1>1, WriterOutsideRing DEF StartEnqueue
<1>2. CASE EnqueueTimesOut
  BY <1>2, WriterOutsideRing DEF EnqueueTimesOut
<1>3. CASE WaitLocal
  BY <1>3, WriterOutsideRing DEF WaitLocal
<1>4. CASE WaitRemote
  BY <1>4, WriterOutsideRing DEF WaitRemote
<1>5. CASE AcquireWrite \/ WriteData \/ ResetReadFlags
  BY <1>5, FillingStep
<1>6. CASE MarkWritten
  BY <1>6, MarkWrittenStep
<1>7. CASE SendLocal
  BY <1>7, WriterOutsideRing DEF SendLocal, AfterLocal
<1>8. CASE SendRemote
  BY <1>8, WriterOutsideRing DEF SendRemote
<1>9. ASSUME NEW r \in Readers, Subscribe(r) \/ GetReady(r) PROVE RingInv'
  <2>1. /\ UNCHANGED <<ring, writer, sent, rindex, read_flag, object, received>>
        /\ rpc[r] # "recv" /\ \A q \in Readers \ {r} : rpc'[q] = rpc[q]
        /\ r \in LocalReaders => rpc'[r] \in {"ready", "flag"}
    BY <1>9 DEF Subscribe, GetReady, RingTypeOK
  <2>2. \A q \in LocalReaders : Taken(q)' = Taken(q)
    BY <2>1 DEF Taken, Readers
  <2> QED BY <2>1, <2>2, ReaderOutsideRing DEF Readers
<1>10. ASSUME NEW r \in Readers, ReadFlag(r) PROVE RingInv'
  <2>1. /\ UNCHANGED <<ring, writer, sent, rindex, object, received>> /\ rpc[r] = "flag"
        /\ \A q \in Readers \ {r} : rpc'[q] = rpc[q] /\ read_flag'[q] = read_flag[q]
        /\ rpc'[r] = "written" /\ read_flag'[r] = read[rindex[r]][r]
    BY <1>10 DEF ReadFlag, RingTypeOK
  <2>2. \A q \in LocalReaders : Taken(q)' = Taken(q)
    BY <2>1 DEF Taken, Readers
  <2>3. r \in LocalReaders /\ ~read_flag'[r] /\ Taken(r) = Len(sent) => ~written[rindex[r]]
    BY <2>1, OwnChunk
  <2> QED BY <2>1, <2>2, <2>3, ReaderOutsideRing DEF Readers
<1>11. ASSUME NEW r \in Readers, CheckWritten(r) PROVE RingInv'
  <2>1. /\ UNCHANGED <<ring, writer, sent, rindex, read_flag, object, received>>
        /\ rpc[r] = "written" /\ \A q \in Readers \ {r} : rpc'[q] = rpc[q]
        /\ rpc'[r] = IF CanRead(r) THEN "read" ELSE "flag"
    BY <1>11 DEF CheckWritten, RingTypeOK
  <2>2. \A q \in LocalReaders : Taken(q)' = Taken(q)
    BY <2>1 DEF Taken, Readers
  <2>3. ASSUME r \in LocalReaders, CanRead(r) PROVE Taken(r) < Len(sent)
    <3>1. Taken(r) # Len(sent)
      BY <2>1, <2>3 DEF RingInv, ReaderSeesUnread, CanRead
    <3>2. Taken(r) \in Nat /\ Len(sent) \in Nat /\ Taken(r) <= Len(sent)
      BY <2>3, TakenType, LenProperties DEF RingInv, IndicesAgree, RingTypeOK
    <3> QED BY <3>1, <3>2
  <2> QED BY <2>1, <2>2, <2>3, ReaderOutsideRing DEF Readers
<1>12. ASSUME NEW r \in Readers, ReadData(r) PROVE RingInv'
  <2>1. /\ UNCHANGED <<ring, writer, sent, rindex, read_flag, received>> /\ rpc[r] = "read"
        /\ \A q \in Readers \ {r} : rpc'[q] = rpc[q] /\ object'[q] = object[q]
        /\ rpc'[r] = "mark" /\ object'[r] = data[rindex[r]]
    BY <1>12 DEF ReadData, RingTypeOK
  <2>2. \A q \in LocalReaders : Taken(q)' = Taken(q)
    BY <2>1 DEF Taken, Readers
  <2>3. r \in LocalReaders => Taken(r) < Len(sent)
    BY <2>1 DEF RingInv, ReaderSeesUnread
  <2>4. r \in LocalReaders => object'[r] = InChunk(sent[Taken(r) + 1])
    BY <2>1, <2>3, OwnChunk
  <2> QED BY <2>1, <2>2, <2>3, <2>4, ReaderOutsideRing DEF Readers
<1>13. ASSUME NEW r \in Readers, MarkRead(r) PROVE RingInv'
  <2>1. r \in LocalReaders
    BY <1>13 DEF MarkRead, RingTypeOK, Readers
  <2> QED BY <2>1, <1>13, MarkReadStep
<1>14. ASSUME NEW r \in Readers, Recv(r) PROVE RingInv'
  <2>1. /\ UNCHANGED <<ring, writer, sent, rindex, read_flag, object>> /\ rpc[r] = "recv"
        /\ \A q \in Readers \ {r} : rpc'[q] = rpc[q] /\ received'[q] = received[q]
        /\ r \in LocalReaders => rpc'[r] = "flag"
        /\ received'[r] = Append(received[r], Head(socket[r]))
    BY <1>14 DEF Recv, RingTypeOK
  <2>2. \A q \in LocalReaders : Taken(q)' = Taken(q)
    <3>1. ASSUME r \in LocalReaders PROVE Taken(r)' = Taken(r)
      <4>1. Head(socket[r]) \in Objects /\ received[r] \in Seq(Objects)
        BY <1>14, HeadTailProperties DEF Recv, RingTypeOK, Objects
      <4>2. Len(received'[r]) = Len(received[r]) + 1 /\ Len(received[r]) \in Nat
        BY <4>1, <2>1, AppendProperties, LenProperties
      <4>3. Taken(r) = Len(received[r]) + 1
        BY <2>1 DEF Taken
      <4>4. Taken(r)' = Len(received'[r]) + 0
        BY <2>1, <3>1 DEF Taken
      <4> QED BY <4>2, <4>3, <4>4
    <3> QED BY <3>1, <2>1 DEF Taken, Readers
  <2> QED BY <2>1, <2>2, ReaderOutsideRing DEF Readers
<1>15. CASE UNCHANGED vars
  <2>1. UNCHANGED <<ring, wpc, message, windex, reader, sent, received>>
    BY <1>15 DEF vars, writer
  <2>2. CASE wpc \in {"write", "reset", "mark"}
    <3>1. \A r \in LocalReaders : /\ Taken(r)' = Taken(r)
                                  /\ UnreadPositions(r)' = UnreadPositions(r)
      BY <2>1 DEF Taken, UnreadPositions, reader
    <3> QED
      BY <2>1, <3>1 DEF RingInv, IndicesAgree, FlagsTellUnread, UnreadHoldsMessage,
         WriterOwnsChunk, ReaderSeesUnread, InChunk, ring, reader
  <2>3. CASE wpc \notin {"write", "reset", "mark"}
    BY <2>1, <2>3, WriterOutsideRing
  <2> QED BY <2>2, <2>3
<1> QED
  BY <1>1, <1>2, <1>3, <1>4, <1>5, <1>6, <1>7, <1>8, <1>9, <1>10, <1>11, <1>12, <1>13, <1>14,
     <1>15 DEF Next, WriterStep, ReaderStep

(* The invariant says in terms of positions what UnreadIsIntact says of indices. *)
LEMMA RingInvImplies == ASSUME RingTypeOK, RingInv PROVE UnreadIsIntact
<1>1. Len(sent) \in Nat /\ MaxChunks \in Nat \ {0}
  BY ShmAssumption, LenProperties DEF RingTypeOK
<1>2. windex = Len(sent) % MaxChunks
  BY DEF RingInv, IndicesAgree, Slot
<1>3. ASSUME NEW r \in LocalReaders
      PROVE  /\ rindex[r] = Taken(r) % MaxChunks
             /\ Len(sent) - Taken(r) \in 0..MaxChunks
  <2>1. /\ Taken(r) \in Nat /\ Taken(r) <= Len(sent) /\ Len(sent) <= Taken(r) + MaxChunks
        /\ rindex[r] = Slot(Taken(r))
    BY TakenType DEF RingInv, IndicesAgree
  <2> QED BY <2>1, <1>1 DEF Slot
<1>4. ASSUME NEW r \in LocalReaders, NEW i \in (Taken(r) + 1)..Len(sent)
      PROVE  LET c == (i - 1) % MaxChunks IN
             written[c] /\ ~read[c][r] /\ data[c] = InChunk(sent[i])
  <2>1. Taken(r) \in Nat
    BY TakenType
  <2>2. i - 1 \in UnreadPositions(r) /\ i - 1 \in Nat /\ (i - 1) + 1 = i
    BY <2>1, <1>1 DEF UnreadPositions
  <2>3. Slot(i - 1) \in Chunks
    BY <2>2, SlotFacts
  <2>4. written[Slot(i - 1)] /\ ~read[Slot(i - 1)][r] /\ data[Slot(i - 1)] = InChunk(sent[i])
    BY <2>2, <2>3 DEF RingInv, FlagsTellUnread, UnreadHoldsMessage
  <2> QED BY <2>4 DEF Slot
<1> QED BY <1>2, <1>3, <1>4 DEF UnreadIsIntact

(* The invariant of the ring. *)
LEMMA RingInvariant == Spec => []RingInv
<1>1. RingTypeOK /\ RingInv /\ [Next]_vars => RingInv'
  BY RingInvStep
<1> QED BY RingInvInit, RingTypes, <1>1, PTL DEF Spec

(* The ring never loses or overwrites a message that some local reader has yet *)
(* to read, and its flags and indices agree with what was sent and received. *)
THEOREM RingIntact == Spec => []UnreadIsIntact
<1>1. RingTypeOK /\ RingInv => UnreadIsIntact
  BY RingInvImplies
<1> QED BY <1>1, RingTypes, RingInvariant, PTL

-----------------------------------------------------------------------------
(* The sockets, and the whole as a broadcast queue. *)

\* Queue q holds the elements of sequence s at the positions S, in their order.
Lists(s, S, q) ==
    \E f \in [1..Len(q) -> S] :
        /\ \A i, j \in 1..Len(q) : i < j => f[i] < f[j]
        /\ \A n \in S : \E k \in 1..Len(q) : f[k] = n
        /\ \A k \in 1..Len(q) : q[k] = s[f[k]]

(* No position, no element. *)
LEMMA ListsNothing == \A s : Lists(s, {}, <<>>)
<1> SUFFICES ASSUME NEW s PROVE Lists(s, {}, <<>>)
  OBVIOUS
<1>1. Len(<<>>) = 0 /\ 1..0 = {}
  OBVIOUS
<1> DEFINE f == [k \in 1..Len(<<>>) |-> 1]
<1>2. f \in [1..Len(<<>>) -> {}]
  BY <1>1
<1> QED BY <1>1, <1>2 DEF Lists

(* A later element is appended. *)
LEMMA ListsAppend ==
    ASSUME NEW T, NEW s, NEW S \in SUBSET Nat, NEW q \in Seq(T), NEW m \in T, NEW n \in Nat,
           Lists(s, S, q), \A i \in S : i < n, s[n] = m
    PROVE  Lists(s, S \cup {n}, Append(q, m))
<1> DEFINE p == Append(q, m)
<1>1. /\ Len(q) \in Nat /\ Len(p) = Len(q) + 1 /\ p[Len(q) + 1] = m
      /\ \A k \in 1..Len(q) : p[k] = q[k]
  BY AppendProperties, LenProperties
<1>2. PICK f \in [1..Len(q) -> S] :
        /\ \A i, j \in 1..Len(q) : i < j => f[i] < f[j]
        /\ \A i \in S : \E k \in 1..Len(q) : f[k] = i
        /\ \A k \in 1..Len(q) : q[k] = s[f[k]]
  BY DEF Lists
<1> DEFINE g == [k \in 1..(Len(q) + 1) |-> IF k = Len(q) + 1 THEN n ELSE f[k]]
<1> HIDE DEF p
<1>3. \A k \in 1..(Len(q) + 1) : k \in 1..Len(q) \/ k = Len(q) + 1
  BY <1>1
<1>4. /\ \A k \in 1..Len(q) : k \in 1..(Len(q) + 1) /\ k # Len(q) + 1
      /\ Len(q) + 1 \in 1..(Len(q) + 1)
  BY <1>1
<1>5. /\ g \in [1..(Len(q) + 1) -> S \cup {n}] /\ g[Len(q) + 1] = n
      /\ \A k \in 1..Len(q) : g[k] = f[k] /\ f[k] \in S
  BY <1>3, <1>4
<1> HIDE DEF g
<1>6. ASSUME NEW i \in 1..(Len(q) + 1), NEW j \in 1..(Len(q) + 1), i < j PROVE g[i] < g[j]
  <2>1. i \in 1..Len(q)
    BY <1>1, <1>6
  <2>2. CASE j = Len(q) + 1
    BY <2>1, <2>2, <1>5
  <2>3. CASE j \in 1..Len(q)
    BY <2>1, <2>3, <1>2, <1>5, <1>6
  <2> QED BY <2>2, <2>3, <1>3
<1>7. \A i \in S \cup {n} : \E k \in 1..(Len(q) + 1) : g[k] = i
  BY <1>2, <1>4, <1>5
<1>8. \A k \in 1..(Len(q) + 1) : p[k] = s[g[k]]
  BY <1>1, <1>2, <1>3, <1>5
<1>9. /\ g \in [1..Len(p) -> S \cup {n}]
      /\ \A i, j \in 1..Len(p) : i < j => g[i] < g[j]
      /\ \A i \in S \cup {n} : \E k \in 1..Len(p) : g[k] = i
      /\ \A k \in 1..Len(p) : p[k] = s[g[k]]
  BY <1>1, <1>5, <1>6, <1>7, <1>8
<1>10. Lists(s, S \cup {n}, p)
  BY <1>9 DEF Lists
<1> QED BY <1>10 DEF p

(* The first element is the one at the least position. *)
LEMMA ListsTail ==
    ASSUME NEW T, NEW s, NEW S \in SUBSET Nat, NEW q \in Seq(T), q # <<>>, Lists(s, S, q)
    PROVE  \E n \in S : /\ \A i \in S : n <= i
                        /\ Head(q) = s[n] /\ Lists(s, S \ {n}, Tail(q))
<1> DEFINE p == Tail(q)
<1>1. /\ Len(q) \in Nat /\ Len(q) > 0 /\ Len(p) = Len(q) - 1 /\ Head(q) = q[1]
      /\ \A k \in 1..Len(p) : p[k] = q[k + 1]
  BY HeadTailProperties, LenProperties, EmptySeq
<1>2. PICK f \in [1..Len(q) -> S] :
        /\ \A i, j \in 1..Len(q) : i < j => f[i] < f[j]
        /\ \A i \in S : \E k \in 1..Len(q) : f[k] = i
        /\ \A k \in 1..Len(q) : q[k] = s[f[k]]
  BY DEF Lists
<1> HIDE DEF p
<1>3. 1 \in 1..Len(q) /\ f[1] \in S /\ Head(q) = s[f[1]]
  BY <1>1, <1>2
<1>4. \A k \in 1..Len(q) : k # 1 => f[1] < f[k]
  BY <1>1, <1>2, <1>3
<1>5. \A i \in S : f[1] <= i
  <2> SUFFICES ASSUME NEW i \in S PROVE f[1] <= i
    OBVIOUS
  <2>1. PICK k \in 1..Len(q) : f[k] = i
    BY <1>2
  <2>2. f[1] \in Nat /\ f[k] \in Nat /\ i \in Nat
    BY <2>1, <1>3
  <2>3. CASE k = 1
    BY <2>1, <2>2, <2>3
  <2>4. CASE k # 1
    BY <2>1, <2>2, <2>4, <1>4
  <2> QED BY <2>3, <2>4
<1> DEFINE g == [k \in 1..Len(p) |-> f[k + 1]]
<1>6. \A k \in 1..Len(p) : k \in Int /\ k + 1 \in 1..Len(q) /\ k + 1 # 1
  BY <1>1
<1>7. \A k \in 1..Len(p) : g[k] = f[k + 1] /\ g[k] \in S \ {f[1]}
  <2> SUFFICES ASSUME NEW k \in 1..Len(p) PROVE f[k + 1] \in S \ {f[1]}
    OBVIOUS
  <2>1. f[k + 1] \in S /\ f[1] < f[k + 1]
    BY <1>2, <1>4, <1>6
  <2>2. f[k + 1] \in Nat /\ f[1] \in Nat
    BY <2>1, <1>3
  <2> QED BY <2>1, <2>2
<1>8. g \in [1..Len(p) -> S \ {f[1]}]
  BY <1>7
<1> HIDE DEF g
<1>9. \A i, j \in 1..Len(p) : i < j => g[i] < g[j]
  <2> SUFFICES ASSUME NEW i \in 1..Len(p), NEW j \in 1..Len(p), i < j PROVE g[i] < g[j]
    OBVIOUS
  <2>1. i + 1 < j + 1 /\ i + 1 \in 1..Len(q) /\ j + 1 \in 1..Len(q)
    BY <1>6
  <2> QED BY <2>1, <1>2, <1>7
<1>10. ASSUME NEW i \in S \ {f[1]} PROVE \E k \in 1..Len(p) : g[k] = i
  <2>1. PICK k \in 1..Len(q) : f[k] = i
    BY <1>2
  <2>2. k - 1 \in 1..Len(p) /\ (k - 1) + 1 = k
    BY <2>1, <1>1
  <2>3. g[k - 1] = i
    BY <2>1, <2>2, <1>7
  <2> QED BY <2>2, <2>3
<1>11. \A k \in 1..Len(p) : p[k] = s[g[k]]
  BY <1>1, <1>2, <1>6, <1>7
<1>12. Lists(s, S \ {f[1]}, p)
  BY <1>8, <1>9, <1>10, <1>11 DEF Lists
<1> QED BY <1>3, <1>5, <1>12 DEF p

(* Sending more does not change what is listed. *)
LEMMA ListsExtend ==
    ASSUME NEW T, NEW s \in Seq(T), NEW m \in T, NEW S \in SUBSET (1..Len(s)), NEW q,
           Lists(s, S, q)
    PROVE  Lists(Append(s, m), S, q)
<1>1. \A i \in 1..Len(s) : Append(s, m)[i] = s[i]
  BY AppendProperties
<1>2. PICK f \in [1..Len(q) -> S] :
        /\ \A i, j \in 1..Len(q) : i < j => f[i] < f[j]
        /\ \A i \in S : \E k \in 1..Len(q) : f[k] = i
        /\ \A k \in 1..Len(q) : q[k] = s[f[k]]
  BY DEF Lists
<1>3. \A k \in 1..Len(q) : q[k] = Append(s, m)[f[k]]
  BY <1>1, <1>2
<1> QED BY <1>2, <1>3 DEF Lists

\* The messages that reach reader r over its socket.
OnSocket(r) == IF r \in LocalReaders THEN Large ELSE Messages

\* How many of the messages the writer is done with as far as r is concerned.
NumPublished(r) ==
    IF wpc = "send_local" \/ (wpc = "send_remote" /\ r \in RemoteReaders)
    THEN Len(sent) - 1 ELSE Len(sent)

\* Whether READY was published to r.
Greeted(r) == wpc # "wait_local" /\ (r \in RemoteReaders => wpc # "wait_remote")

\* The messages in the socket of r, after the READY it has yet to receive.
Backlog(r) == IF rpc[r] = "ready" /\ Greeted(r) THEN Tail(socket[r]) ELSE socket[r]

\* The positions of the messages that r has yet to receive over its socket.
Pending(r) == {i \in (Len(received[r]) + 1)..NumPublished(r) : sent[i] \in OnSocket(r)}

\* READY is published once, to readers that are subscribed and wait for it.
Handshake ==
    \A r \in Readers :
        /\ r \in subscribed <=> rpc[r] # "connect"
        /\ Greeted(r) => r \in subscribed
        /\ ~Greeted(r) => rpc[r] \in {"connect", "ready"} /\ socket[r] = <<>>
        /\ rpc[r] = "ready" /\ Greeted(r) => socket[r] # <<>> /\ Head(socket[r]) = READY
        /\ rpc[r] \in {"connect", "ready"} => received[r] = <<>>

\* What the writer is sending.
Sending ==
    /\ wpc \in {"wait_local", "wait_remote"} => sent = <<>>
    /\ wpc \in {"send_local", "send_remote"} => sent # <<>> /\ sent[Len(sent)] = message
    /\ wpc = "send_local" => message \in Large

\* A reader has received a prefix of what was sent, and its socket holds what
\* it has to receive from there, in order.
ReceivedIsPrefix ==
    \A r \in Readers : /\ Len(received[r]) <= NumPublished(r)
                       /\ \A i \in 1..Len(received[r]) : received[r][i] = sent[i]

SocketHoldsPending == \A r \in Readers : Lists(sent, Pending(r), Backlog(r))

\* A local reader is in recv only for a message that did not fit.
LargeAwaited == \A r \in LocalReaders : rpc[r] = "recv" => sent[Len(received[r]) + 1] \in Large

QueueInv == ReceivedIsPrefix /\ SocketHoldsPending /\ LargeAwaited

(* The first element stays first when another is appended. *)
LEMMA AppendToQueue ==
    ASSUME NEW T, NEW q \in Seq(T), NEW m \in T
    PROVE  /\ Append(q, m) \in Seq(T) /\ Append(q, m) # <<>>
           /\ q = <<>> => Head(Append(q, m)) = m /\ Tail(Append(q, m)) = <<>>
           /\ q # <<>> => /\ Head(Append(q, m)) = Head(q)
                          /\ Tail(Append(q, m)) = Append(Tail(q), m)
<1>1. /\ Append(q, m) \in Seq(T) /\ Append(q, m) # <<>> /\ Len(Append(q, m)) = Len(q) + 1
      /\ \A i \in 1..Len(q) : Append(q, m)[i] = q[i]
      /\ Append(q, m)[Len(q) + 1] = m /\ Len(q) \in Nat
  BY AppendProperties, LenProperties
<1>2. ASSUME q = <<>> PROVE Head(Append(q, m)) = m /\ Tail(Append(q, m)) = <<>>
  <2>1. Append(q, m) = <<m>>
    BY <1>2
  <2> QED BY <2>1
<1>3. ASSUME q # <<>>
      PROVE  Head(Append(q, m)) = Head(q) /\ Tail(Append(q, m)) = Append(Tail(q), m)
  <2>1. Len(q) > 0 /\ 1 \in 1..Len(q)
    BY <1>1, <1>3, EmptySeq
  <2>2. Head(Append(q, m)) = Append(q, m)[1] /\ Head(q) = q[1]
    BY <1>1, <1>3
  <2>3. Head(Append(q, m)) = Head(q)
    BY <2>1, <2>2, <1>1
  <2> DEFINE u == Tail(Append(q, m))  v == Append(Tail(q), m)
  <2>4. /\ u \in Seq(T) /\ Len(u) = Len(q)
        /\ \A i \in 1..Len(u) : u[i] = Append(q, m)[i + 1]
    BY <1>1, HeadTailProperties
  <2>5. /\ Tail(q) \in Seq(T) /\ Len(Tail(q)) = Len(q) - 1
        /\ \A i \in 1..Len(Tail(q)) : Tail(q)[i] = q[i + 1]
    BY <1>3, HeadTailProperties
  <2>6. /\ v \in Seq(T) /\ Len(v) = Len(Tail(q)) + 1
        /\ \A i \in 1..Len(Tail(q)) : v[i] = Tail(q)[i]
        /\ v[Len(Tail(q)) + 1] = m
    BY <2>5, AppendProperties
  <2> HIDE DEF u, v
  <2>7. Len(u) = Len(v)
    BY <2>4, <2>5, <2>6, <1>1
  <2>8. ASSUME NEW i \in 1..Len(u) PROVE u[i] = v[i]
    <3>1. u[i] = Append(q, m)[i + 1]
      BY <2>4
    <3>2. CASE i = Len(q)
      BY <3>1, <3>2, <2>5, <2>6, <1>1
    <3>3. CASE i # Len(q)
      <4>1. i \in 1..Len(Tail(q)) /\ i + 1 \in 1..Len(q)
        BY <3>3, <2>4, <2>5, <1>1
      <4> QED BY <4>1, <3>1, <2>5, <2>6, <1>1
    <3> QED BY <3>2, <3>3
  <2>9. u = v
    BY <2>4, <2>6, <2>7, <2>8, SeqEqual
  <2> QED BY <2>3, <2>9 DEF u, v
<1> QED BY <1>1, <1>2, <1>3

(* Initially no one is subscribed. *)
LEMMA HandshakeInit == Init => Handshake /\ Sending
  BY DEF Init, Handshake, Sending, Greeted

(* Every step keeps the handshake in order. *)
LEMMA HandshakeStep ==
    ASSUME RingTypeOK, Handshake, Sending, [Next]_vars
    PROVE  Handshake' /\ Sending'
<1> DEFINE Elsewhere == {"idle", "acquire", "write", "reset", "mark", "send_local", "send_remote"}
<1>a. \A r \in Readers : wpc \in Elsewhere => Greeted(r)
  BY DEF Greeted
<1>b. \A r \in Readers : wpc' \in Elsewhere => Greeted(r)'
  BY DEF Greeted
<1>1. CASE \/ StartEnqueue \/ EnqueueTimesOut \/ AcquireWrite \/ WriteData \/ ResetReadFlags
           \/ MarkWritten
  <2>1. /\ UNCHANGED <<subscribed, socket, rpc, received>>
        /\ wpc \in Elsewhere /\ wpc' \in Elsewhere
    BY <1>1 DEF StartEnqueue, EnqueueTimesOut, AcquireWrite, WriteData, ResetReadFlags,
       MarkWritten, AfterLocal, sockets, reader
  <2>2. Handshake'
    BY <2>1, <1>a, <1>b DEF Handshake
  <2>3. CASE MarkWritten
    <3>1. sent \in Seq(Messages) /\ message \in Messages /\ sent' = Append(sent, message)
      BY <2>3 DEF MarkWritten, RingTypeOK
    <3>2. sent' # <<>> /\ sent'[Len(sent')] = message
      BY <3>1, AppendProperties
    <3> QED BY <2>2, <2>3, <3>2 DEF MarkWritten, AfterLocal, Sending
  <2>4. CASE ~MarkWritten
    BY <1>1, <2>2, <2>4 DEF StartEnqueue, EnqueueTimesOut, AcquireWrite, WriteData,
       ResetReadFlags, Sending
  <2> QED BY <2>3, <2>4
<1>2. CASE WaitLocal
  <2>1. /\ UNCHANGED <<subscribed, rpc, received, sent>> /\ wpc = "wait_local"
        /\ wpc' = "wait_remote" /\ LocalReaders \subseteq subscribed
        /\ socket' = Published(LocalReaders, READY)
    BY <1>2 DEF WaitLocal, AllSubscribed, reader
  <2>2. ASSUME NEW r \in Readers
        PROVE  /\ Greeted(r)' <=> r \in LocalReaders
               /\ ~Greeted(r)
    BY <2>1, ShmAssumption DEF Greeted, Readers
  <2>3. ASSUME NEW r \in LocalReaders PROVE socket'[r] # <<>> /\ Head(socket'[r]) = READY
    <3>1. r \in Readers /\ socket[r] \in Seq(Messages \cup {READY})
      BY DEF RingTypeOK, Readers
    <3>2. socket[r] = <<>> /\ socket'[r] = Append(socket[r], READY)
      BY <3>1, <2>1, <2>2 DEF Handshake, Published
    <3> QED BY <3>1, <3>2, AppendToQueue
  <2>4. \A r \in Readers \ LocalReaders : socket'[r] = socket[r]
    BY <2>1 DEF Published
  <2>5. Handshake'
    BY <2>1, <2>2, <2>3, <2>4 DEF Handshake
  <2> QED BY <2>1, <2>5 DEF Sending
<1>3. CASE WaitRemote
  <2>1. /\ UNCHANGED <<subscribed, rpc, received, sent>> /\ wpc = "wait_remote"
        /\ wpc' = "idle" /\ RemoteReaders \subseteq subscribed
        /\ socket' = Published(RemoteReaders, READY)
    BY <1>3 DEF WaitRemote, AllSubscribed, reader
  <2>2. ASSUME NEW r \in Readers
        PROVE  /\ Greeted(r)'
               /\ Greeted(r) <=> r \notin RemoteReaders
    BY <2>1 DEF Greeted
  <2>3. ASSUME NEW r \in RemoteReaders PROVE socket'[r] # <<>> /\ Head(socket'[r]) = READY
    <3>1. r \in Readers /\ socket[r] \in Seq(Messages \cup {READY})
      BY DEF RingTypeOK, Readers
    <3>2. socket[r] = <<>> /\ socket'[r] = Append(socket[r], READY)
      BY <3>1, <2>1, <2>2 DEF Handshake, Published
    <3> QED BY <3>1, <3>2, AppendToQueue
  <2>4. \A r \in Readers \ RemoteReaders : socket'[r] = socket[r]
    BY <2>1 DEF Published
  <2>5. Handshake'
    BY <2>1, <2>2, <2>3, <2>4 DEF Handshake
  <2> QED BY <2>1, <2>5 DEF Sending
<1>4. CASE SendLocal \/ SendRemote
  <2>1. PICK R : /\ UNCHANGED <<subscribed, rpc, received, sent, message>>
                 /\ wpc \in {"send_local", "send_remote"} /\ wpc' \in {"idle", "send_remote"}
                 /\ message \in Messages /\ socket' = Published(R, message)
    BY <1>4 DEF SendLocal, SendRemote, AfterLocal, reader, RingTypeOK
  <2>2. ASSUME NEW r \in Readers, socket[r] # <<>>
        PROVE  socket'[r] # <<>> /\ Head(socket'[r]) = Head(socket[r])
    <3>1. socket[r] \in Seq(Messages \cup {READY})
      BY DEF RingTypeOK
    <3>2. socket'[r] \in {socket[r], Append(socket[r], message)}
      BY <2>1 DEF Published
    <3> QED BY <3>1, <3>2, <2>1, <2>2, AppendToQueue
  <2>3. Handshake'
    BY <2>1, <2>2, <1>a, <1>b DEF Handshake
  <2> QED BY <2>1, <2>3 DEF Sending
<1>5. ASSUME NEW r \in Readers, Subscribe(r) PROVE Handshake' /\ Sending'
  <2>1. \A q \in Readers : Greeted(q)' <=> Greeted(q)
    BY <1>5 DEF Subscribe, writer, Greeted
  <2> QED BY <1>5, <2>1 DEF Subscribe, writer, Handshake, Sending, RingTypeOK
<1>6. ASSUME NEW r \in Readers, GetReady(r) PROVE Handshake' /\ Sending'
  <2>1. \A q \in Readers : Greeted(q)' <=> Greeted(q)
    BY <1>6 DEF GetReady, writer, Greeted
  <2> QED BY <1>6, <2>1 DEF GetReady, writer, Handshake, Sending, RingTypeOK
<1>7. ASSUME NEW r \in Readers, ReadFlag(r) \/ CheckWritten(r) \/ ReadData(r) \/ MarkRead(r)
                                \/ Recv(r)
      PROVE  Handshake' /\ Sending'
  <2>1. /\ UNCHANGED <<subscribed, writer, sent>>
        /\ rpc[r] \notin {"connect", "ready"} /\ rpc'[r] \notin {"connect", "ready"}
        /\ \A q \in Readers \ {r} : /\ rpc'[q] = rpc[q] /\ socket'[q] = socket[q]
                                    /\ received'[q] = received[q]
    BY <1>7 DEF ReadFlag, CheckWritten, ReadData, MarkRead, Recv, sockets, RingTypeOK
  <2>2. \A q \in Readers : Greeted(q)' <=> Greeted(q)
    BY <2>1 DEF writer, Greeted
  <2>3. Handshake'
    BY <2>1, <2>2 DEF Handshake
  <2> QED BY <2>1, <2>3 DEF writer, Sending
<1>8. CASE UNCHANGED vars
  <2>1. \A q \in Readers : Greeted(q)' <=> Greeted(q)
    BY <1>8 DEF vars, writer, Greeted
  <2> QED BY <1>8, <2>1 DEF vars, writer, reader, sockets, Handshake, Sending
<1> QED
  BY <1>1, <1>2, <1>3, <1>4, <1>5, <1>6, <1>7, <1>8 DEF Next, WriterStep, ReaderStep

(* What is published of it, pending and in the socket: types and bounds. *)
LEMMA QueueTypes ==
    ASSUME RingTypeOK, Sending, NEW r \in Readers
    PROVE  /\ sent \in Seq(Messages) /\ Len(sent) \in Nat
           /\ received[r] \in Seq(Objects) /\ Len(received[r]) \in Nat
           /\ socket[r] \in Seq(Messages \cup {READY})
           /\ NumPublished(r) \in Nat /\ NumPublished(r) <= Len(sent)
           /\ Pending(r) \subseteq 1..Len(sent)
           /\ \A i \in 1..Len(sent) : sent[i] \in Messages
<1>1. /\ sent \in Seq(Messages) /\ Len(sent) \in Nat
      /\ received[r] \in Seq(Objects) /\ Len(received[r]) \in Nat
      /\ socket[r] \in Seq(Messages \cup {READY})
      /\ \A i \in 1..Len(sent) : sent[i] \in Messages
  BY LenProperties, ElementOfSeq DEF RingTypeOK
<1>2. wpc \in {"send_local", "send_remote"} => Len(sent) > 0
  BY <1>1, EmptySeq DEF Sending
<1>3. NumPublished(r) \in Nat /\ NumPublished(r) <= Len(sent)
  BY <1>1, <1>2 DEF NumPublished
<1>4. Pending(r) \subseteq 1..Len(sent)
  BY <1>1, <1>3 DEF Pending
<1> QED BY <1>1, <1>3, <1>4

(* Initially nothing was sent. *)
LEMMA QueueInvInit == ASSUME Init PROVE QueueInv
<1>1. ASSUME NEW r \in Readers
      PROVE  /\ received[r] = <<>> /\ NumPublished(r) = 0 /\ Backlog(r) = <<>>
             /\ rpc[r] # "recv"
  <2>1. /\ received[r] = <<>> /\ socket[r] = <<>> /\ sent = <<>> /\ rpc[r] = "connect"
        /\ wpc = "wait_local"
    BY DEF Init
  <2>2. Len(sent) = 0
    BY <2>1
  <2> QED BY <2>1, <2>2 DEF NumPublished, Backlog
<1>2. ASSUME NEW r \in Readers PROVE Len(received[r]) = 0 /\ Pending(r) = {}
  <2>1. Len(received[r]) = 0 /\ NumPublished(r) = 0
    BY <1>1
  <2> QED BY <2>1 DEF Pending
<1>3. ReceivedIsPrefix
  BY <1>1, <1>2 DEF ReceivedIsPrefix
<1>4. SocketHoldsPending
  BY <1>1, <1>2, ListsNothing DEF SocketHoldsPending
<1>5. LargeAwaited
  BY <1>1 DEF LargeAwaited, Readers
<1> QED BY <1>3, <1>4, <1>5 DEF QueueInv

(* A step that neither sends nor publishes nor receives. *)
LEMMA QuietStep ==
    ASSUME QueueInv, UNCHANGED <<sent, received>>,
           \A r \in Readers : /\ NumPublished(r)' = NumPublished(r)
                              /\ Backlog(r)' = Backlog(r),
           \A r \in LocalReaders : rpc'[r] = "recv" => rpc[r] = "recv"
    PROVE  QueueInv'
<1>1. \A r \in Readers : Pending(r)' = Pending(r)
  BY DEF Pending, OnSocket
<1>2. ReceivedIsPrefix'
  BY DEF QueueInv, ReceivedIsPrefix
<1>3. SocketHoldsPending'
  BY <1>1 DEF QueueInv, SocketHoldsPending
<1>4. LargeAwaited'
  BY DEF QueueInv, LargeAwaited
<1> QED BY <1>2, <1>3, <1>4 DEF QueueInv

(* READY is published before anything else. *)
LEMMA GreetingStep ==
    ASSUME RingTypeOK, Handshake, Sending, QueueInv, WaitLocal \/ WaitRemote
    PROVE  QueueInv'
<1>1. PICK R \in {LocalReaders, RemoteReaders} :
         /\ UNCHANGED <<subscribed, rpc, received, sent>>
         /\ wpc = IF R = LocalReaders THEN "wait_local" ELSE "wait_remote"
         /\ wpc' = IF R = LocalReaders THEN "wait_remote" ELSE "idle"
         /\ R \subseteq subscribed /\ socket' = Published(R, READY)
  <2>1. LocalReaders # RemoteReaders
    BY ShmAssumption
  <2> QED BY <2>1 DEF WaitLocal, WaitRemote, AllSubscribed, reader
<1>2. ASSUME NEW r \in Readers
      PROVE  NumPublished(r)' = NumPublished(r) /\ Backlog(r)' = Backlog(r)
  <2>1. NumPublished(r)' = NumPublished(r)
    BY <1>1 DEF NumPublished
  <2>2. /\ r \in R => ~Greeted(r) /\ Greeted(r)'
        /\ r \notin R => (Greeted(r)' <=> Greeted(r)) /\ socket'[r] = socket[r]
    <3>1. r \in LocalReaders <=> r \notin RemoteReaders
      BY ShmAssumption DEF Readers
    <3>2. R = LocalReaders \/ (R = RemoteReaders /\ R # LocalReaders)
      OBVIOUS
    <3> QED BY <1>1, <3>1, <3>2 DEF Greeted, Published
  <2>3. CASE r \notin R
    <3>1. rpc'[r] = rpc[r] /\ socket'[r] = socket[r] /\ (Greeted(r)' <=> Greeted(r))
      BY <1>1, <2>2, <2>3
    <3> QED BY <2>1, <3>1 DEF Backlog
  <2>4. CASE r \in R
    <3>1. socket[r] = <<>> /\ rpc[r] = "ready"
      BY <1>1, <2>2, <2>4 DEF Handshake
    <3>2. socket'[r] = Append(<<>>, READY)
      BY <1>1, <2>4, <3>1 DEF Published
    <3>3. Tail(socket'[r]) = <<>>
      BY <3>2
    <3>4. rpc'[r] = "ready" /\ Greeted(r)' /\ ~Greeted(r)
      BY <1>1, <2>2, <2>4, <3>1
    <3> QED BY <2>1, <3>1, <3>3, <3>4 DEF Backlog
  <2> QED BY <2>1, <2>3, <2>4
<1> QED BY <1>1, <1>2, QuietStep

(* A message is sent, which is not yet published to anyone. *)
LEMMA SentStep ==
    ASSUME RingTypeOK, RingInv, Sending, QueueInv, MarkWritten
    PROVE  QueueInv'
<1>1. /\ UNCHANGED <<socket, rpc, received>> /\ sent' = Append(sent, message)
      /\ message \in Messages /\ wpc = "mark"
      /\ wpc' = IF message \in Large THEN "send_local" ELSE AfterLocal
  BY DEF MarkWritten, sockets, reader, RingTypeOK
<1>2. sent \in Seq(Messages) /\ Len(sent) \in Nat
  BY LenProperties DEF RingTypeOK
<1>3. /\ Len(sent') = Len(sent) + 1 /\ sent'[Len(sent) + 1] = message
      /\ \A i \in 1..Len(sent) : sent'[i] = sent[i]
  BY <1>1, <1>2, AppendProperties
<1>4. ASSUME NEW r \in Readers
      PROVE  /\ Len(received[r]) \in Nat /\ NumPublished(r) = Len(sent)
             /\ Len(received[r]) <= Len(sent)
             /\ \/ NumPublished(r)' = Len(sent)
                \/ NumPublished(r)' = Len(sent) + 1 /\ message \notin OnSocket(r)
             /\ Backlog(r)' = Backlog(r)
  <2>1. NumPublished(r) = Len(sent) /\ Len(received[r]) \in Nat
    BY <1>1, QueueTypes DEF NumPublished
  <2>2. Len(received[r]) <= Len(sent)
    BY <2>1 DEF QueueInv, ReceivedIsPrefix
  <2>3. Backlog(r)' = Backlog(r)
    BY <1>1 DEF Backlog, Greeted, AfterLocal
  <2>4. \/ wpc' = "send_local" \/ (wpc' = "send_remote" /\ r \in RemoteReaders)
        \/ message \notin OnSocket(r)
    BY <1>1 DEF OnSocket, AfterLocal, Readers
  <2>5. NumPublished(r)' \in {Len(sent), Len(sent) + 1}
    BY <1>2, <1>3 DEF NumPublished
  <2>6. wpc' = "send_local" \/ (wpc' = "send_remote" /\ r \in RemoteReaders)
          => NumPublished(r)' = Len(sent)
    BY <1>2, <1>3 DEF NumPublished
  <2> QED BY <2>1, <2>2, <2>3, <2>4, <2>5, <2>6
<1>5. ASSUME NEW r \in Readers PROVE Pending(r)' = Pending(r)
  <2>1. ASSUME NEW i \in Int
        PROVE  i \in (Len(received[r]) + 1)..NumPublished(r)' /\ sent'[i] \in OnSocket(r)
                 <=> i \in (Len(received[r]) + 1)..Len(sent) /\ sent[i] \in OnSocket(r)
    <3>1. CASE i \in 1..Len(sent)
      <4>1. sent'[i] = sent[i] /\ i <= Len(sent) /\ Len(received[r]) \in Nat
        BY <3>1, <1>3, <1>4
      <4>2. i <= NumPublished(r)' /\ NumPublished(r)' \in Nat
        BY <3>1, <4>1, <1>2, <1>4
      <4> QED BY <3>1, <4>1, <4>2, <1>2
    <3>2. CASE i = Len(sent) + 1
      <4>1. sent'[i] = message
        BY <3>2, <1>3
      <4>2. NumPublished(r)' = Len(sent) \/ message \notin OnSocket(r)
        BY <1>4
      <4> QED BY <3>2, <4>1, <4>2, <1>2, <1>4
    <3>3. CASE i < 1 \/ i > Len(sent) + 1
      <4>1. NumPublished(r)' \in {Len(sent), Len(sent) + 1} /\ Len(received[r]) \in Nat
        BY <1>4
      <4> QED BY <3>3, <4>1, <1>2
    <3> QED BY <3>1, <3>2, <3>3, <1>2
  <2>2. Pending(r) = {i \in (Len(received[r]) + 1)..Len(sent) : sent[i] \in OnSocket(r)}
    BY <1>4 DEF Pending
  <2>3. Pending(r)' = {i \in (Len(received[r]) + 1)..NumPublished(r)' : sent'[i] \in OnSocket(r)}
    BY <1>1 DEF Pending, OnSocket
  <2>4. NumPublished(r)' \in Nat /\ Len(received[r]) \in Nat
    BY <1>2, <1>4
  <2> QED BY <2>1, <2>2, <2>3, <2>4, <1>2
<1>6. ReceivedIsPrefix'
  <2> SUFFICES ASSUME NEW r \in Readers
               PROVE  /\ Len(received[r]) <= NumPublished(r)'
                      /\ \A i \in 1..Len(received[r]) : received[r][i] = sent'[i]
    BY <1>1 DEF ReceivedIsPrefix
  <2>1. Len(received[r]) <= NumPublished(r)'
    BY <1>2, <1>4
  <2>2. ASSUME NEW i \in 1..Len(received[r]) PROVE received[r][i] = sent'[i]
    <3>1. i \in 1..Len(sent)
      BY <1>2, <1>4
    <3> QED BY <3>1, <1>3 DEF QueueInv, ReceivedIsPrefix
  <2> QED BY <2>1, <2>2
<1>7. SocketHoldsPending'
  <2> SUFFICES ASSUME NEW r \in Readers PROVE Lists(sent', Pending(r), Backlog(r))
    BY <1>4, <1>5 DEF SocketHoldsPending
  <2>1. Pending(r) \subseteq 1..Len(sent) /\ Lists(sent, Pending(r), Backlog(r))
    BY QueueTypes DEF QueueInv, SocketHoldsPending
  <2> QED BY <2>1, <1>1, <1>2, ListsExtend
<1>8. LargeAwaited'
  <2> SUFFICES ASSUME NEW r \in LocalReaders, rpc[r] = "recv"
               PROVE  sent'[Len(received[r]) + 1] \in Large
    BY <1>1 DEF LargeAwaited
  <2>1. Len(received[r]) + 1 <= Len(sent)
    BY DEF RingInv, IndicesAgree, Taken
  <2>2. Len(received[r]) + 1 \in 1..Len(sent)
    BY <2>1, <1>2, <1>4 DEF Readers
  <2> QED BY <2>2, <1>3 DEF QueueInv, LargeAwaited
<1> QED BY <1>6, <1>7, <1>8 DEF QueueInv

(* The last message is published to the readers R. *)
LEMMA PublishStep ==
    ASSUME RingTypeOK, Handshake, Sending, QueueInv, SendLocal \/ SendRemote
    PROVE  QueueInv'
<1>1. PICK R \in {LocalReaders, RemoteReaders} :
         /\ UNCHANGED <<subscribed, rpc, received, sent, message>>
         /\ wpc = IF R = LocalReaders THEN "send_local" ELSE "send_remote"
         /\ wpc' = IF R = LocalReaders THEN AfterLocal ELSE "idle"
         /\ message \in Messages /\ socket' = Published(R, message)
  <2>1. LocalReaders # RemoteReaders
    BY ShmAssumption
  <2> QED BY <2>1 DEF SendLocal, SendRemote, reader, RingTypeOK
<1>2. /\ R = LocalReaders \/ (R = RemoteReaders /\ R # LocalReaders)
      /\ \A r \in Readers : r \in LocalReaders <=> r \notin RemoteReaders
  BY ShmAssumption DEF Readers
<1>3. /\ sent \in Seq(Messages) /\ Len(sent) \in Nat /\ Len(sent) > 0
      /\ sent[Len(sent)] = message
  BY <1>1, LenProperties, EmptySeq DEF Sending, RingTypeOK
<1>4. ASSUME NEW r \in Readers
      PROVE  /\ Greeted(r) /\ Greeted(r)' /\ r \in subscribed
             /\ Len(received[r]) \in Nat /\ socket[r] \in Seq(Messages \cup {READY})
             /\ Len(received[r]) <= NumPublished(r)
  BY <1>1, QueueTypes DEF Greeted, AfterLocal, Handshake, QueueInv, ReceivedIsPrefix
<1>5. ASSUME NEW r \in Readers, r \notin R
      PROVE  NumPublished(r)' = NumPublished(r) /\ Backlog(r)' = Backlog(r)
  <2>1. NumPublished(r)' = NumPublished(r)
    BY <1>1, <1>2, <1>5 DEF NumPublished, AfterLocal
  <2>2. rpc'[r] = rpc[r] /\ socket'[r] = socket[r]
    BY <1>1, <1>5 DEF Published
  <2>3. Backlog(r)' = Backlog(r)
    BY <2>2, <1>4 DEF Backlog
  <2> QED BY <2>1, <2>3
<1>6. ASSUME NEW r \in Readers, r \in R
      PROVE  /\ NumPublished(r) = Len(sent) - 1 /\ NumPublished(r)' = Len(sent)
             /\ message \in OnSocket(r) /\ Backlog(r)' = Append(Backlog(r), message)
             /\ Backlog(r) \in Seq(Messages \cup {READY})
  <2>1. NumPublished(r) = Len(sent) - 1 /\ NumPublished(r)' = Len(sent)
    BY <1>1, <1>2, <1>6 DEF NumPublished, AfterLocal
  <2>2. message \in OnSocket(r)
    BY <1>1, <1>2, <1>6 DEF OnSocket, Sending
  <2>3. rpc'[r] = rpc[r] /\ socket'[r] = Append(socket[r], message)
    BY <1>1, <1>4, <1>6 DEF Published
  <2>4. CASE rpc[r] = "ready"
    <3>1. socket[r] # <<>>
      BY <2>4, <1>4 DEF Handshake
    <3>2. Tail(socket'[r]) = Append(Tail(socket[r]), message)
      BY <3>1, <2>3, <1>1, <1>4, AppendToQueue
    <3>3. Tail(socket[r]) \in Seq(Messages \cup {READY})
      BY <3>1, <1>4, HeadTailProperties
    <3>4. Backlog(r) = Tail(socket[r]) /\ Backlog(r)' = Tail(socket'[r])
      BY <2>3, <2>4, <1>4 DEF Backlog
    <3> QED BY <2>1, <2>2, <3>2, <3>3, <3>4
  <2>5. CASE rpc[r] # "ready"
    <3>1. Backlog(r) = socket[r] /\ Backlog(r)' = socket'[r]
      BY <2>3, <2>5 DEF Backlog
    <3> QED BY <2>1, <2>2, <2>3, <3>1, <1>4
  <2> QED BY <2>4, <2>5
<1>7. ReceivedIsPrefix'
  <2> SUFFICES ASSUME NEW r \in Readers PROVE Len(received[r]) <= NumPublished(r)'
    BY <1>1 DEF QueueInv, ReceivedIsPrefix
  <2>1. CASE r \in R
    BY <2>1, <1>3, <1>4, <1>6
  <2>2. CASE r \notin R
    BY <2>2, <1>4, <1>5
  <2> QED BY <2>1, <2>2
<1>8. SocketHoldsPending'
  <2> SUFFICES ASSUME NEW r \in Readers PROVE Lists(sent, Pending(r)', Backlog(r)')
    BY <1>1 DEF SocketHoldsPending
  <2>1. Lists(sent, Pending(r), Backlog(r)) /\ Pending(r) \subseteq 1..Len(sent)
    BY QueueTypes DEF QueueInv, SocketHoldsPending
  <2>2. CASE r \notin R
    <3>1. Pending(r)' = Pending(r)
      BY <2>2, <1>1, <1>5 DEF Pending, OnSocket
    <3> QED BY <3>1, <2>1, <2>2, <1>5
  <2>3. CASE r \in R
    <3>1. Pending(r) = {i \in (Len(received[r]) + 1)..(Len(sent) - 1) : sent[i] \in OnSocket(r)}
      BY <2>3, <1>6 DEF Pending
    <3>2. Pending(r)' = {i \in (Len(received[r]) + 1)..Len(sent) : sent[i] \in OnSocket(r)}
      BY <2>3, <1>1, <1>6 DEF Pending, OnSocket
    <3>3. Len(received[r]) \in Nat /\ Len(received[r]) <= Len(sent) - 1
      BY <2>3, <1>4, <1>6
    <3>4. Len(sent) \in Pending(r)'
      BY <2>3, <3>2, <3>3, <1>3, <1>6
    <3>5. Pending(r)' = Pending(r) \cup {Len(sent)}
      BY <3>1, <3>2, <3>3, <3>4, <1>3
    <3>6. \A i \in Pending(r) : i < Len(sent)
      BY <3>1, <3>3, <1>3
    <3>7. Pending(r) \in SUBSET Nat /\ message \in Messages \cup {READY}
      BY <2>1, <1>1
    <3>8. Lists(sent, Pending(r) \cup {Len(sent)}, Append(Backlog(r), message))
      BY <2>1, <2>3, <3>6, <3>7, <1>3, <1>6, ListsAppend
    <3> QED BY <2>3, <3>5, <3>8, <1>6
  <2> QED BY <2>2, <2>3
<1>9. LargeAwaited'
  BY <1>1 DEF QueueInv, LargeAwaited
<1> QED BY <1>7, <1>8, <1>9 DEF QueueInv

(* What a reader finds in its chunk is the next message, or says that the next *)
(* message is on the socket.                                               *)
LEMMA NextInChunk ==
    ASSUME RingTypeOK, RingInv, Sending, QueueInv, NEW r \in LocalReaders, rpc[r] = "mark"
    PROVE  LET n == Len(received[r]) + 1 IN
           /\ n \in 1..Len(sent) /\ n <= Len(sent)
           /\ object[r] = Overflow => sent[n] \in Large
           /\ object[r] # Overflow => /\ object[r] = sent[n] /\ n <= NumPublished(r)
                                      /\ sent[n] \notin Large
<1> DEFINE n == Len(received[r]) + 1
<1>1. r \in Readers /\ Len(received[r]) \in Nat /\ Len(sent) \in Nat
  BY QueueTypes DEF Readers
<1>2. Taken(r) = Len(received[r])
  BY <1>1 DEF Taken
<1>3. n \in 1..Len(sent) /\ n <= Len(sent) /\ object[r] = InChunk(sent[n])
  BY <1>1, <1>2 DEF RingInv, ReaderSeesUnread
<1>4. sent[n] \in Messages
  BY <1>1, <1>3, QueueTypes
<1>5. ASSUME object[r] = Overflow PROVE sent[n] \in Large
  BY <1>3, <1>4, <1>5, ShmAssumption DEF InChunk
<1>6. ASSUME object[r] # Overflow
      PROVE  object[r] = sent[n] /\ n <= NumPublished(r) /\ sent[n] \notin Large
  <2>1. object[r] = sent[n] /\ sent[n] \notin Large
    BY <1>3, <1>6 DEF InChunk
  <2>2. wpc = "send_local" => n # Len(sent)
    BY <2>1 DEF Sending
  <2>3. r \notin RemoteReaders
    BY ShmAssumption
  <2>4. n <= NumPublished(r)
    BY <2>2, <2>3, <1>1, <1>3 DEF NumPublished
  <2> QED BY <2>1, <2>4
<1> QED BY <1>3, <1>5, <1>6

(* What a reader finds first in its socket is the next message. *)
LEMMA NextOnSocket ==
    ASSUME RingTypeOK, Sending, QueueInv, NEW r \in Readers, rpc[r] = "recv", socket[r] # <<>>
    PROVE  LET n == Len(received[r]) + 1 IN
           /\ n \in Pending(r) /\ n \in 1..Len(sent) /\ n <= NumPublished(r)
           /\ Head(socket[r]) = sent[n]
           /\ Lists(sent, Pending(r) \ {n}, Tail(socket[r]))
<1> DEFINE n == Len(received[r]) + 1
<1>1. /\ Len(received[r]) \in Nat /\ Len(sent) \in Nat /\ NumPublished(r) \in Nat
      /\ NumPublished(r) <= Len(sent) /\ Pending(r) \subseteq 1..Len(sent)
      /\ socket[r] \in Seq(Messages \cup {READY})
      /\ \A i \in 1..Len(sent) : sent[i] \in Messages
  BY QueueTypes
<1>2. Lists(sent, Pending(r), socket[r])
  BY DEF QueueInv, SocketHoldsPending, Backlog
<1>3. Pending(r) \in SUBSET Nat
  BY <1>1
<1>4. PICK k \in Pending(r) : /\ \A i \in Pending(r) : k <= i
                              /\ Head(socket[r]) = sent[k]
                              /\ Lists(sent, Pending(r) \ {k}, Tail(socket[r]))
  BY <1>1, <1>2, <1>3, ListsTail
<1>5. k \in Nat /\ n <= k /\ k <= NumPublished(r)
  BY <1>1, <1>3 DEF Pending
<1>6. n \in 1..Len(sent) /\ n \in n..NumPublished(r) /\ n <= NumPublished(r)
  BY <1>1, <1>5
<1>7. sent[n] \in OnSocket(r)
  BY <1>1, <1>6 DEF OnSocket, QueueInv, LargeAwaited
<1>8. n \in Pending(r)
  BY <1>6, <1>7 DEF Pending
<1>9. n = k
  BY <1>1, <1>4, <1>5, <1>8
<1> QED BY <1>4, <1>6, <1>8, <1>9

(* A reader receives the next message. *)
LEMMA ReceiveNext ==
    ASSUME RingTypeOK, Sending, QueueInv, NEW r \in Readers, UNCHANGED <<sent, wpc>>,
           Len(received[r]) + 1 \in 1..Len(sent), Len(received[r]) + 1 <= NumPublished(r),
           received' = [received EXCEPT ![r] = Append(@, sent[Len(received[r]) + 1])]
    PROVE  /\ ReceivedIsPrefix'
           /\ Len(received'[r]) = Len(received[r]) + 1
           /\ \A q \in Readers \ {r} : received'[q] = received[q]
           /\ \A q \in Readers : NumPublished(q)' = NumPublished(q)
           /\ \A q \in Readers \ {r} : Pending(q)' = Pending(q)
           /\ Pending(r)' = Pending(r) \ {Len(received[r]) + 1}
<1> DEFINE n == Len(received[r]) + 1
<1>1. /\ Len(received[r]) \in Nat /\ Len(sent) \in Nat /\ NumPublished(r) \in Nat
      /\ received[r] \in Seq(Objects) /\ sent[n] \in Objects
  BY QueueTypes DEF Objects
<1>2. /\ received'[r] = Append(received[r], sent[n])
      /\ \A q \in Readers \ {r} : received'[q] = received[q]
  BY DEF RingTypeOK
<1>3. /\ Len(received'[r]) = n /\ received'[r][n] = sent[n]
      /\ \A i \in 1..Len(received[r]) : received'[r][i] = received[r][i]
  BY <1>1, <1>2, AppendProperties
<1>4. \A q \in Readers : NumPublished(q)' = NumPublished(q)
  BY DEF NumPublished
<1>5. ReceivedIsPrefix'
  <2>1. ASSUME NEW i \in 1..n PROVE received'[r][i] = sent[i]
    <3>1. i = n \/ i \in 1..Len(received[r])
      BY <1>1
    <3> QED BY <3>1, <1>3 DEF QueueInv, ReceivedIsPrefix
  <2>2. ASSUME NEW q \in Readers
        PROVE  /\ Len(received'[q]) <= NumPublished(q)'
               /\ \A i \in 1..Len(received'[q]) : received'[q][i] = sent'[i]
    <3>1. CASE q = r
      BY <3>1, <2>1, <1>3, <1>4
    <3>2. CASE q # r
      BY <3>2, <1>2, <1>4 DEF QueueInv, ReceivedIsPrefix
    <3> QED BY <3>1, <3>2
  <2> QED BY <2>2 DEF ReceivedIsPrefix
<1>6. \A q \in Readers \ {r} : Pending(q)' = Pending(q)
  BY <1>2, <1>4 DEF Pending, OnSocket
<1>7. Pending(r)' = Pending(r) \ {n}
  <2>1. Pending(r) = {i \in n..NumPublished(r) : sent[i] \in OnSocket(r)}
    BY DEF Pending
  <2>2. Pending(r)' = {i \in (n + 1)..NumPublished(r) : sent[i] \in OnSocket(r)}
    BY <1>3, <1>4 DEF Pending, OnSocket
  <2>3. \A i \in Int : i \in (n + 1)..NumPublished(r) <=> i \in n..NumPublished(r) /\ i # n
    BY <1>1
  <2> QED BY <2>1, <2>2, <2>3, <1>1
<1> QED BY <1>2, <1>3, <1>4, <1>5, <1>6, <1>7

(* MarkRead and Recv as steps of the broadcast queue. *)
LEMMA MarkReadReceives ==
    ASSUME RingTypeOK, RingInv, Sending, QueueInv, NEW r \in Readers, MarkRead(r)
    PROVE  /\ QueueInv'
           /\ \/ UNCHANGED <<sent, received>>
              \/ Abstract!Receive(r)
<1> DEFINE n == Len(received[r]) + 1
<1>1. /\ r \in LocalReaders /\ rpc[r] = "mark"
      /\ UNCHANGED <<sockets, writer, sent>>
      /\ \A q \in Readers \ {r} : rpc'[q] = rpc[q]
      /\ rpc'[r] = IF object[r] = Overflow THEN "recv" ELSE "flag"
      /\ IF object[r] = Overflow THEN received' = received
         ELSE received' = [received EXCEPT ![r] = Append(@, object[r])]
  BY DEF MarkRead, RingTypeOK, Readers
<1>2. \A q \in Readers : Backlog(q)' = Backlog(q)
  <2>1. /\ UNCHANGED <<socket, wpc>> /\ rpc[r] # "ready" /\ rpc'[r] # "ready"
        /\ \A q \in Readers \ {r} : rpc'[q] = rpc[q]
    BY <1>1 DEF sockets, writer
  <2> QED BY <2>1 DEF Backlog, Greeted
<1>3. UNCHANGED <<sent, wpc>>
  BY <1>1 DEF writer
<1>4. CASE object[r] = Overflow
  <2>1. sent[n] \in Large
    BY <1>1, <1>4, NextInChunk
  <2>2. ReceivedIsPrefix' /\ SocketHoldsPending'
    <3>1. UNCHANGED <<sent, received>> /\ \A q \in Readers : NumPublished(q)' = NumPublished(q)
      BY <1>1, <1>3, <1>4 DEF NumPublished
    <3>2. \A q \in Readers : Pending(q)' = Pending(q)
      BY <3>1 DEF Pending, OnSocket
    <3> QED BY <3>1, <3>2, <1>2 DEF QueueInv, ReceivedIsPrefix, SocketHoldsPending
  <2>3. LargeAwaited'
    BY <2>1, <1>1, <1>4 DEF QueueInv, LargeAwaited, Readers
  <2> QED BY <2>2, <2>3, <1>1, <1>4 DEF QueueInv
<1>5. CASE object[r] # Overflow
  <2>1. /\ n \in 1..Len(sent) /\ n <= NumPublished(r) /\ n <= Len(sent)
        /\ object[r] = sent[n] /\ sent[n] \notin Large
    BY <1>1, <1>5, NextInChunk
  <2>2. received' = [received EXCEPT ![r] = Append(@, sent[n])]
    BY <2>1, <1>1, <1>5
  <2>3. /\ ReceivedIsPrefix' /\ \A q \in Readers \ {r} : received'[q] = received[q]
        /\ \A q \in Readers \ {r} : Pending(q)' = Pending(q)
        /\ Pending(r)' = Pending(r) \ {n}
    BY <2>1, <2>2, <1>3, ReceiveNext
  <2>4. n \notin Pending(r)
    BY <2>1, <1>1 DEF Pending, OnSocket
  <2>5. \A q \in Readers : Pending(q)' = Pending(q)
    BY <2>3, <2>4
  <2>6. SocketHoldsPending'
    BY <2>5, <1>2, <1>3 DEF QueueInv, SocketHoldsPending
  <2>7. LargeAwaited'
    BY <2>3, <1>1, <1>5 DEF QueueInv, LargeAwaited, Readers
  <2>8. Len(received[r]) < Len(sent)
    BY <2>1, QueueTypes
  <2>9. Abstract!Receive(r)
    BY <2>2, <2>8, <1>3 DEF Abstract!Receive
  <2> QED BY <2>3, <2>6, <2>7, <2>9 DEF QueueInv
<1> QED BY <1>4, <1>5

(* A message taken from the socket is the reader's next one: the abstract  *)
(* queue delivers it in the same step.                                     *)
LEMMA RecvReceives ==
    ASSUME RingTypeOK, Sending, QueueInv, NEW r \in Readers, Recv(r)
    PROVE  QueueInv' /\ Abstract!Receive(r)
<1> DEFINE n == Len(received[r]) + 1
<1>1. /\ rpc[r] = "recv" /\ socket[r] # <<>> /\ UNCHANGED <<subscribed, writer, sent>>
      /\ \A q \in Readers \ {r} : rpc'[q] = rpc[q] /\ socket'[q] = socket[q]
      /\ rpc'[r] = IF r \in LocalReaders THEN "flag" ELSE "recv"
      /\ socket'[r] = Tail(socket[r])
      /\ received' = [received EXCEPT ![r] = Append(@, Head(socket[r]))]
  BY DEF Recv, RingTypeOK
<1>2. UNCHANGED <<sent, wpc>>
  BY <1>1 DEF writer
<1>3. /\ n \in Pending(r) /\ n \in 1..Len(sent) /\ n <= NumPublished(r)
      /\ Head(socket[r]) = sent[n]
      /\ Lists(sent, Pending(r) \ {n}, Tail(socket[r]))
  BY <1>1, NextOnSocket
<1>4. received' = [received EXCEPT ![r] = Append(@, sent[n])]
  BY <1>1, <1>3
<1>5. /\ ReceivedIsPrefix' /\ \A q \in Readers \ {r} : received'[q] = received[q]
      /\ \A q \in Readers \ {r} : Pending(q)' = Pending(q)
      /\ Pending(r)' = Pending(r) \ {n}
  BY <1>2, <1>3, <1>4, ReceiveNext
<1>6. /\ \A q \in Readers \ {r} : Backlog(q)' = Backlog(q)
      /\ Backlog(r)' = Tail(socket[r])
  BY <1>1, <1>2 DEF Backlog, Greeted
<1>7. SocketHoldsPending'
  <2> SUFFICES ASSUME NEW q \in Readers PROVE Lists(sent, Pending(q)', Backlog(q)')
    BY <1>2 DEF SocketHoldsPending
  <2>1. CASE q = r
    BY <2>1, <1>3, <1>5, <1>6
  <2>2. CASE q # r
    BY <2>2, <1>5, <1>6 DEF QueueInv, SocketHoldsPending
  <2> QED BY <2>1, <2>2
<1>8. LargeAwaited'
  BY <1>1, <1>5 DEF QueueInv, LargeAwaited, Readers
<1>9. Len(received[r]) < Len(sent)
  BY <1>3, QueueTypes
<1>10. Abstract!Receive(r)
  BY <1>2, <1>4, <1>9 DEF Abstract!Receive
<1> QED BY <1>5, <1>7, <1>8, <1>10 DEF QueueInv

(* Every step keeps the invariant of the queue, and is a step of the broadcast *)
(* queue or leaves it unchanged.                                           *)
LEMMA QueueStep ==
    ASSUME RingTypeOK, RingInv, Handshake, Sending, QueueInv, [Next]_vars
    PROVE  QueueInv' /\ [Abstract!Next]_(Abstract!vars)
<1> DEFINE Quiet == /\ UNCHANGED <<sent, received>>
                    /\ \A r \in Readers : /\ NumPublished(r)' = NumPublished(r)
                                          /\ Backlog(r)' = Backlog(r)
                    /\ \A r \in LocalReaders : rpc'[r] = "recv" => rpc[r] = "recv"
<1>1. CASE Quiet
  BY <1>1, QuietStep DEF Abstract!vars
<1>2. ASSUME StartEnqueue \/ EnqueueTimesOut \/ AcquireWrite \/ WriteData \/ ResetReadFlags
      PROVE  Quiet
  <2>1. /\ UNCHANGED <<sent, received, socket, rpc>>
        /\ wpc \in {"idle", "acquire", "write", "reset"}
        /\ wpc' \in {"idle", "acquire", "write", "reset", "mark"}
    BY <1>2 DEF StartEnqueue, EnqueueTimesOut, AcquireWrite, WriteData, ResetReadFlags,
       sockets, reader
  <2> QED BY <2>1 DEF NumPublished, Backlog, Greeted
<1>3. CASE WaitLocal \/ WaitRemote
  BY <1>3, GreetingStep DEF WaitLocal, WaitRemote, Abstract!vars
<1>4. CASE MarkWritten
  <2>1. sent' = Append(sent, message) /\ received' = received /\ message \in Messages
    BY <1>4 DEF MarkWritten, RingTypeOK
  <2>2. Abstract!Next
    BY <2>1 DEF Abstract!Next, Abstract!Send
  <2> QED BY <2>2, <1>4, SentStep
<1>5. CASE SendLocal \/ SendRemote
  BY <1>5, PublishStep DEF SendLocal, SendRemote, Abstract!vars
<1>6. ASSUME NEW r \in Readers, Subscribe(r) PROVE Quiet
  <2>1. /\ UNCHANGED <<sent, received, socket, wpc>> /\ ~Greeted(r)
        /\ \A q \in Readers \ {r} : rpc'[q] = rpc[q]
        /\ rpc'[r] = "ready"
    BY <1>6 DEF Subscribe, writer, RingTypeOK, Handshake
  <2>2. \A q \in Readers : (Greeted(q)' <=> Greeted(q)) /\ NumPublished(q)' = NumPublished(q)
    BY <2>1 DEF Greeted, NumPublished
  <2>3. \A q \in Readers : Backlog(q)' = Backlog(q)
    BY <2>1, <2>2 DEF Backlog
  <2> QED BY <2>1, <2>2, <2>3 DEF Readers
<1>7. ASSUME NEW r \in Readers, GetReady(r) PROVE Quiet
  <2>1. /\ UNCHANGED <<sent, received, wpc>> /\ rpc[r] = "ready" /\ Greeted(r)
        /\ \A q \in Readers \ {r} : rpc'[q] = rpc[q] /\ socket'[q] = socket[q]
        /\ rpc'[r] = IF r \in LocalReaders THEN "flag" ELSE "recv"
        /\ socket'[r] = Tail(socket[r])
    BY <1>7 DEF GetReady, writer, RingTypeOK, Handshake
  <2>2. \A q \in Readers : (Greeted(q)' <=> Greeted(q)) /\ NumPublished(q)' = NumPublished(q)
    BY <2>1 DEF Greeted, NumPublished
  <2>3. \A q \in Readers : Backlog(q)' = Backlog(q)
    BY <2>1, <2>2 DEF Backlog
  <2> QED BY <2>1, <2>2, <2>3 DEF Readers
<1>8. ASSUME NEW r \in Readers, ReadFlag(r) \/ CheckWritten(r) \/ ReadData(r) PROVE Quiet
  <2>1. /\ UNCHANGED <<sent, received, socket, wpc>>
        /\ \A q \in Readers \ {r} : rpc'[q] = rpc[q]
        /\ rpc[r] # "ready" /\ rpc'[r] \notin {"ready", "recv"}
    BY <1>8 DEF ReadFlag, CheckWritten, ReadData, sockets, writer, RingTypeOK
  <2>2. \A q \in Readers : (Greeted(q)' <=> Greeted(q)) /\ NumPublished(q)' = NumPublished(q)
    BY <2>1 DEF Greeted, NumPublished
  <2>3. \A q \in Readers : Backlog(q)' = Backlog(q)
    BY <2>1, <2>2 DEF Backlog
  <2> QED BY <2>1, <2>2, <2>3 DEF Readers
<1>9. ASSUME NEW r \in Readers, MarkRead(r)
      PROVE  QueueInv' /\ [Abstract!Next]_(Abstract!vars)
  BY <1>9, MarkReadReceives DEF Abstract!Next, Abstract!vars
<1>10. ASSUME NEW r \in Readers, Recv(r)
       PROVE  QueueInv' /\ [Abstract!Next]_(Abstract!vars)
  BY <1>10, RecvReceives DEF Abstract!Next
<1>11. ASSUME UNCHANGED vars PROVE Quiet
  BY <1>11 DEF vars, sockets, writer, reader, NumPublished, Backlog, Greeted
<1> HIDE DEF Quiet
<1> QED
  BY <1>1, <1>2, <1>3, <1>4, <1>5, <1>6, <1>7, <1>8, <1>9, <1>10, <1>11
     DEF Next, WriterStep, ReaderStep

(* The invariant of handshake, sockets and readers. *)
LEMMA QueueInvariant == Spec => [](Handshake /\ Sending /\ QueueInv)
<1>1. Init => Handshake /\ Sending /\ QueueInv
  BY HandshakeInit, QueueInvInit
<1>2. RingTypeOK /\ RingInv /\ (Handshake /\ Sending /\ QueueInv) /\ [Next]_vars
        => (Handshake /\ Sending /\ QueueInv)'
  BY HandshakeStep, QueueStep
<1> QED BY <1>1, <1>2, RingTypes, RingInvariant, PTL DEF Spec

(* Everything has its type; in particular nothing but messages is received: *)
(* neither a chunk that is being written nor a READY of the handshake.      *)
THEOREM BroadcastTypeOK == Spec => []TypeOK
<1>1. RingTypeOK /\ Sending /\ QueueInv => TypeOK
  <2> SUFFICES ASSUME RingTypeOK, Sending, QueueInv PROVE received \in [Readers -> Seq(Messages)]
    BY DEF RingTypeOK, TypeOK
  <2>1. ASSUME NEW r \in Readers PROVE received[r] \in Seq(Messages)
    <3>1. /\ received[r] \in Seq(Objects) /\ Len(received[r]) \in Nat /\ Len(sent) \in Nat
          /\ NumPublished(r) \in Nat /\ NumPublished(r) <= Len(sent)
          /\ \A i \in 1..Len(sent) : sent[i] \in Messages
      BY QueueTypes
    <3>2. Len(received[r]) <= NumPublished(r)
      BY DEF QueueInv, ReceivedIsPrefix
    <3>3. ASSUME NEW i \in 1..Len(received[r]) PROVE received[r][i] \in Messages
      <4>1. i \in 1..Len(sent)
        BY <3>1, <3>2
      <4> QED BY <4>1, <3>1 DEF QueueInv, ReceivedIsPrefix
    <3>4. received[r] = [i \in 1..Len(received[r]) |-> received[r][i]]
      BY <3>1
    <3>5. received[r] \in [1..Len(received[r]) -> Messages]
      BY <3>3, <3>4
    <3> QED BY <3>1, <3>5, IsASeq
  <2> QED BY <2>1 DEF RingTypeOK
<1> QED BY <1>1, RingTypes, QueueInvariant, PTL

(* Ring, sockets and handshake together are a broadcast queue: each reader gets *)
(* all messages in the order in which they were sent, none twice, none torn. *)
THEOREM BroadcastSafety == Spec => Abstract!Init /\ [][Abstract!Next]_(Abstract!vars)
<1>1. Init => Abstract!Init
  BY DEF Init, Abstract!Init
<1>2. RingTypeOK /\ RingInv /\ (Handshake /\ Sending /\ QueueInv) /\ [Next]_vars
        => [Abstract!Next]_(Abstract!vars)
  BY QueueStep
<1> QED BY <1>1, <1>2, RingTypes, RingInvariant, QueueInvariant, PTL DEF Spec

=============================================================================
