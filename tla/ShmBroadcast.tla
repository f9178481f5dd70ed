---------------------------- MODULE ShmBroadcast ----------------------------
(***************************************************************************)
(* MessageQueue over ShmRingBuffer (vllm/distributed/device_communicators/ *)
(* shm_broadcast.py): one writer, local readers that share a ring of chunks *)
(* with it, remote readers that have a publish-subscribe socket.            *)
(*                                                                         *)
(* There are no locks.  Each access to a flag or to the data of a chunk is *)
(* a step of its own, so that writer and readers interleave between them;   *)
(* only the sum of the read flags and their resetting are one step each,    *)
(* since nobody else changes a flag in the direction that matters.  Memory  *)
(* is sequentially consistent, as it is on x86 with the code's fences.     *)
(***************************************************************************)
EXTENDS Naturals, Sequences

CONSTANTS LocalReaders, RemoteReaders,
          MaxChunks,       \* max_chunks, the size of the ring
          MaxMessages,     \* bound on calls of enqueue
          Large,           \* messages that do not fit into a chunk
          MayTimeOut,      \* messages that are enqueued with a timeout
          Empty,           \* a chunk that was never written, no object
          Torn,            \* a chunk that is being written
          Overflow,        \* byte 0 of a chunk whose message is on the socket
          READY            \* what wait_until_ready sends

Readers  == LocalReaders \cup RemoteReaders
Chunks   == 0..(MaxChunks - 1)
Messages == 1..MaxMessages

ASSUME ShmAssumption ==
    /\ LocalReaders \cap RemoteReaders = {} /\ LocalReaders # {}
    /\ MaxChunks \in Nat \ {0} /\ MaxMessages \in Nat
    /\ {Empty, Torn, Overflow, READY} \cap Messages = {}
    /\ Torn # Overflow /\ Empty \notin {Torn, Overflow}

VARIABLES
    written,      \* chunk -> the written flag
    read,         \* chunk -> reader -> the read flag
    data,         \* chunk -> what is in its data
    subscribed,   \* readers whose subscription has reached the writer
    socket,       \* reader -> what was published to it and not yet received
    wpc, message, windex,        \* the writer: where it is, its message, current_idx
    rpc, read_flag, object, rindex,   \* reader -> where it is, its locals, current_idx
    sent, received               \* history, for the properties

ring    == <<written, read, data>>
sockets == <<subscribed, socket>>
writer  == <<wpc, message, windex>>
reader  == <<rpc, read_flag, object, rindex>>
vars    == <<ring, sockets, writer, reader, sent, received>>

Init ==
    /\ written = [c \in Chunks |-> FALSE]
    /\ read = [c \in Chunks |-> [r \in LocalReaders |-> FALSE]]
    /\ data = [c \in Chunks |-> Empty]
    /\ subscribed = {} /\ socket = [r \in Readers |-> <<>>]
    /\ wpc = "wait_local" /\ message = 0 /\ windex = 0
    /\ rpc = [r \in Readers |-> "connect"]
    /\ read_flag = [r \in Readers |-> FALSE]
    /\ object = [r \in Readers |-> Empty]
    /\ rindex = [r \in LocalReaders |-> 0]
    /\ sent = <<>> /\ received = [r \in Readers |-> <<>>]

Following(c) == (c + 1) % MaxChunks

\* A published message reaches the readers whose subscription has arrived.
Published(readers, m) ==
    [r \in Readers |-> IF r \in readers \cap subscribed THEN Append(socket[r], m)
                       ELSE socket[r]]

-----------------------------------------------------------------------------
(* wait_until_ready *)

Subscribe(r) ==
    /\ rpc[r] = "connect"
    /\ subscribed' = subscribed \cup {r}
    /\ rpc' = [rpc EXCEPT ![r] = "ready"]
    /\ UNCHANGED <<ring, socket, writer, read_flag, object, rindex, sent, received>>

\* The writer has received one subscription message per reader.
AllSubscribed(readers) == readers \subseteq subscribed

WaitLocal ==
    /\ wpc = "wait_local" /\ AllSubscribed(LocalReaders)
    /\ socket' = Published(LocalReaders, READY)
    /\ wpc' = "wait_remote"
    /\ UNCHANGED <<ring, subscribed, message, windex, reader, sent, received>>

WaitRemote ==
    /\ wpc = "wait_remote" /\ AllSubscribed(RemoteReaders)
    /\ socket' = Published(RemoteReaders, READY)
    /\ wpc' = "idle"
    /\ UNCHANGED <<ring, subscribed, message, windex, reader, sent, received>>

\* A reader goes on once the READY message shows that its socket works.
GetReady(r) ==
    /\ rpc[r] = "ready" /\ socket[r] # <<>>
    /\ socket' = [socket EXCEPT ![r] = Tail(@)]
    /\ rpc' = [rpc EXCEPT ![r] = IF r \in LocalReaders THEN "flag" ELSE "recv"]
    /\ UNCHANGED <<ring, subscribed, writer, read_flag, object, rindex, sent, received>>

-----------------------------------------------------------------------------
(* enqueue and acquire_write *)

StartEnqueue ==
    /\ wpc = "idle" /\ message < MaxMessages
    /\ message' = message + 1
    /\ wpc' = "acquire"
    /\ UNCHANGED <<ring, sockets, windex, reader, sent, received>>

\* The chunk is not written, or read by all readers.
CanWrite_one_reader == ~written[windex] \/ \E r \in LocalReaders : read[windex][r]   \* mutant
CanWrite == ~written[windex] \/ \A r \in LocalReaders : read[windex][r]

\* Mark the chunk as not written; the caller begins to write.
AcquireWrite ==
    /\ wpc = "acquire" /\ CanWrite
    /\ written' = [written EXCEPT ![windex] = FALSE]
    /\ data' = [data EXCEPT ![windex] = Torn]
    /\ wpc' = "write"
    /\ UNCHANGED <<read, sockets, message, windex, reader, sent, received>>

\* TimeoutError: the message is not sent to anybody.
EnqueueTimesOut ==
    /\ wpc = "acquire" /\ ~CanWrite /\ message \in MayTimeOut
    /\ wpc' = "idle"
    /\ UNCHANGED <<ring, sockets, message, windex, reader, sent, received>>

\* What ends up in the chunk for message m.
InChunk(m) == IF m \in Large THEN Overflow ELSE m

WriteData ==
    /\ wpc = "write"
    /\ data' = [data EXCEPT ![windex] = InChunk(message)]
    /\ wpc' = "reset"
    /\ UNCHANGED <<written, read, sockets, message, windex, reader, sent, received>>

Unread(c) == [read EXCEPT ![c] = [r \in LocalReaders |-> FALSE]]

ResetReadFlags ==
    /\ wpc = "reset"
    /\ read' = Unread(windex)
    /\ wpc' = "mark"
    /\ UNCHANGED <<written, data, sockets, message, windex, reader, sent, received>>

AfterLocal == IF RemoteReaders = {} THEN "idle" ELSE "send_remote"

MarkWritten ==
    /\ wpc = "mark"
    /\ written' = [written EXCEPT ![windex] = TRUE]
    /\ windex' = Following(windex)
    /\ sent' = Append(sent, message)
    /\ wpc' = IF message \in Large THEN "send_local" ELSE AfterLocal
    /\ UNCHANGED <<read, data, sockets, message, reader, received>>

\* A message that did not fit follows over the socket.
SendLocal_remote ==   \* mutant: over the socket of the remote readers
    /\ wpc = "send_local"
    /\ socket' = Published(RemoteReaders, message)
    /\ wpc' = AfterLocal
    /\ UNCHANGED <<ring, subscribed, message, windex, reader, sent, received>>
SendLocal ==
    /\ wpc = "send_local"
    /\ socket' = Published(LocalReaders, message)
    /\ wpc' = AfterLocal
    /\ UNCHANGED <<ring, subscribed, message, windex, reader, sent, received>>

SendRemote ==
    /\ wpc = "send_remote"
    /\ socket' = Published(RemoteReaders, message)
    /\ wpc' = "idle"
    /\ UNCHANGED <<ring, subscribed, message, windex, reader, sent, received>>

-----------------------------------------------------------------------------
(* dequeue and acquire_read *)

ReadFlag(r) ==
    /\ rpc[r] = "flag"
    /\ read_flag' = [read_flag EXCEPT ![r] = read[rindex[r]][r]]
    /\ rpc' = [rpc EXCEPT ![r] = "written"]
    /\ UNCHANGED <<ring, sockets, writer, object, rindex, sent, received>>

\* Whether the chunk holds something this reader has not read.
CanRead_any_written(r) == written[rindex[r]]   \* mutant
CanRead(r) == written[rindex[r]] /\ ~read_flag[r]

\* The written flag is the second one to be looked at.
CheckWritten(r) ==
    /\ rpc[r] = "written"
    /\ rpc' = [rpc EXCEPT ![r] = IF CanRead(r) THEN "read" ELSE "flag"]
    /\ UNCHANGED <<ring, sockets, writer, read_flag, object, rindex, sent, received>>

ReadData(r) ==
    /\ rpc[r] = "read"
    /\ object' = [object EXCEPT ![r] = data[rindex[r]]]
    /\ rpc' = [rpc EXCEPT ![r] = "mark"]
    /\ UNCHANGED <<ring, sockets, writer, read_flag, rindex, sent, received>>

\* Only now may the writer reuse the chunk.
MarkRead(r) ==
    /\ rpc[r] = "mark"
    /\ read' = [read EXCEPT ![rindex[r]][r] = TRUE]
    /\ rindex' = [rindex EXCEPT ![r] = Following(@)]
    /\ IF object[r] = Overflow
       THEN rpc' = [rpc EXCEPT ![r] = "recv"] /\ UNCHANGED received
       ELSE /\ rpc' = [rpc EXCEPT ![r] = "flag"]
            /\ received' = [received EXCEPT ![r] = Append(@, object[r])]
    /\ object' = [object EXCEPT ![r] = Empty]
    /\ UNCHANGED <<written, data, sockets, writer, read_flag, sent>>

\* recv: of a remote reader, or of a local one for a message that did not fit.
Recv(r) ==
    /\ rpc[r] = "recv" /\ socket[r] # <<>>
    /\ received' = [received EXCEPT ![r] = Append(@, Head(socket[r]))]
    /\ socket' = [socket EXCEPT ![r] = Tail(@)]
    /\ rpc' = [rpc EXCEPT ![r] = IF r \in LocalReaders THEN "flag" ELSE "recv"]
    /\ UNCHANGED <<ring, subscribed, writer, read_flag, object, rindex, sent>>

-----------------------------------------------------------------------------
WriterStep == \/ WaitLocal \/ WaitRemote \/ AcquireWrite \/ WriteData \/ ResetReadFlags
              \/ MarkWritten \/ SendLocal \/ SendRemote

ReaderStep(r) == \/ Subscribe(r) \/ GetReady(r) \/ ReadFlag(r) \/ CheckWritten(r)
                 \/ ReadData(r) \/ MarkRead(r) \/ Recv(r)

Next == \/ StartEnqueue \/ EnqueueTimesOut \/ WriterStep
        \/ \E r \in Readers : ReaderStep(r)

\* A call of enqueue is carried on, and the readers never stop reading: the busy
\* loop of a worker does nothing but dequeue and execute.  Nobody is obliged to
\* enqueue, nor to give up.
Spec == /\ Init /\ [][Next]_vars
        /\ WF_vars(WriterStep) /\ \A r \in Readers : WF_vars(ReaderStep(r))

-----------------------------------------------------------------------------
TypeOK ==
    /\ written \in [Chunks -> BOOLEAN]
    /\ read \in [Chunks -> [LocalReaders -> BOOLEAN]]
    /\ data \in [Chunks -> Messages \cup {Empty, Torn, Overflow}]
    /\ subscribed \subseteq Readers
    /\ socket \in [Readers -> Seq(Messages \cup {READY})]
    /\ wpc \in {"wait_local", "wait_remote", "idle", "acquire", "write", "reset", "mark",
                "send_local", "send_remote"}
    /\ message \in 0..MaxMessages /\ windex \in Chunks
    /\ rpc \in [Readers -> {"connect", "ready", "flag", "written", "read", "mark", "recv"}]
    /\ read_flag \in [Readers -> BOOLEAN]
    /\ object \in [Readers -> Messages \cup {Empty, Torn, Overflow}]
    /\ rindex \in [LocalReaders -> Chunks]
    /\ sent \in Seq(Messages) /\ received \in [Readers -> Seq(Messages)]

\* The number of chunks a local reader has marked as read.
Taken(r) == Len(received[r]) + IF rpc[r] = "recv" THEN 1 ELSE 0

\* The ring is a window on what was sent: what a local reader has not read yet is
\* complete in its chunk, written, not marked as read, and at most MaxChunks
\* messages; the indices of writer and readers agree with it.
UnreadIsIntact ==
    /\ windex = Len(sent) % MaxChunks
    /\ \A r \in LocalReaders :
          /\ rindex[r] = Taken(r) % MaxChunks
          /\ Len(sent) - Taken(r) \in 0..MaxChunks
          /\ \A i \in (Taken(r) + 1)..Len(sent) :
                LET c == (i - 1) % MaxChunks IN
                written[c] /\ ~read[c][r] /\ data[c] = InChunk(sent[i])

\* The whole queue, handshake, ring and sockets together, is the broadcast queue,
\* also in that everybody eventually receives everything that was sent.
Abstract == INSTANCE BroadcastQueue
ImplementsBroadcast == Abstract!Spec

\* enqueue returns: a full ring is emptied in the end.
EnqueueReturns == wpc = "acquire" ~> wpc = "idle"
=============================================================================
