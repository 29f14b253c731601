----------------------------- MODULE FileTransfer -----------------------------
(***************************************************************************)
(* One download of tp_so1-RESOLUCION2: download_handler answers a          *)
(* DOWNLOAD_REQUEST on the connection that download_client:receive_file    *)
(* reads.  The stream is a sequence of cells: a header field is one cell   *)
(* that holds its number, a byte of the file is one cell that holds its    *)
(* position.  Numbers are reduced to the width of their field.             *)
(***************************************************************************)
EXTENDS Integers, SequencesExt

CONSTANTS
  Sizes,       \* sizes the shared file may have
  Shared,      \* whether "compartida/" may hold it or not: a set of BOOLEANs
  MaxChunk,    \* MAX_CHUNK_SIZE, 4 MB in the code
  SizeField,   \* numbers a size field can carry, 2^32 in the code
  IndexField   \* numbers an index field can carry, 2^16 in the code

\* A size field outgrows a chunk, and indices run out after sizes do.
ASSUME WidthAssumption ==
  /\ Sizes \subseteq Nat /\ Shared \subseteq BOOLEAN
  /\ MaxChunk \in Nat \ {0} /\ SizeField \in Nat /\ IndexField \in Nat
  /\ MaxChunk < SizeField /\ SizeField <= IndexField * MaxChunk

VARIABLES
  size,       \* bytes in the shared file
  shared,     \* whether the file is there
  server,     \* "request", "chunks" or "sent"
  sent,       \* bytes of the file the server has sent
  index,      \* Index of send_chunks
  open,       \* the connection is up
  wire,       \* cells sent and not yet received
  client,     \* what receive_file reads next, or how it ended
  remaining,  \* Total, then Remaining of gather_chunks
  chunks,     \* Acc of gather_chunks
  saved       \* what is in "descargas/"

vars == <<size, shared, server, sent, index, open, wire, client, remaining, chunks, saved>>
serverVars == <<server, sent, index>>
clientVars == <<client, remaining, chunks, saved>>

Field(n) == [field |-> n]
Bytes(from, to) == [k \in 1..(to - from) |-> [byte |-> from + k]]
File == Bytes(0, size)
Lesser(a, b) == IF a <= b THEN a ELSE b
NoFile == <<Field(0)>>

Ended == {"saved", "empty", "not_found", "failed"}

-----------------------------------------------------------------------------
Init ==
  /\ size \in Sizes /\ shared \in Shared
  /\ server = "request" /\ sent = 0 /\ index = 0
  /\ open = TRUE /\ wire = <<>>
  /\ client = "code" /\ remaining = 0 /\ chunks = <<>> /\ saved = NoFile

\* gen_tcp:send, whose result nobody looks at.
Send(cells) == wire' = IF open THEN wire \o cells ELSE wire

\* download_handler:process and send_file.
SendNotFound ==
  /\ server = "request" /\ ~shared
  /\ Send(<<Field(112)>>)
  /\ server' = "sent"
  /\ UNCHANGED <<size, shared, sent, index, open, clientVars>>

SendSingle ==
  /\ server = "request" /\ shared /\ size <= MaxChunk
  /\ Send(<<Field(101), Field(size % SizeField)>> \o File)
  /\ server' = "sent"
  /\ sent' = size
  /\ UNCHANGED <<size, shared, index, open, clientVars>>

SendHeader ==
  /\ server = "request" /\ shared /\ size > MaxChunk
  /\ Send(<<Field(101), Field(size % SizeField), Field(MaxChunk % SizeField)>>)
  /\ server' = "chunks"
  /\ UNCHANGED <<size, shared, sent, index, open, clientVars>>

\* One round of send_chunks; the last one leaves an empty Rest.
SendChunk ==
  LET upto == Lesser(size, sent + MaxChunk) IN
  /\ server = "chunks"
  /\ Send(<<Field(111), Field(index % IndexField), Field((upto - sent) % SizeField)>>
            \o Bytes(sent, upto))
  /\ sent' = upto
  /\ index' = index + 1
  /\ server' = IF upto = size THEN "sent" ELSE "chunks"
  /\ UNCHANGED <<size, shared, open, clientVars>>

\* The connection breaks, or the node at one end goes away; what had not
\* reached the client is lost.
Cut ==
  /\ open
  /\ open' = FALSE
  /\ \E k \in 0..Len(wire) : wire' = SubSeq(wire, 1, k)
  /\ UNCHANGED <<size, shared, serverVars, clientVars>>

\* recv_exact for n > 0 bytes succeeds once they are all there.
Received(n) == Len(wire) >= n
Consume(n) == wire' = SubSeq(wire, n + 1, Len(wire))

ReadCode ==
  /\ client = "code" /\ Received(1)
  /\ Consume(1)
  /\ client' = CASE wire[1] = Field(112) -> "not_found"
                 [] wire[1] = Field(101) -> "size"
                 [] OTHER -> "failed"
  /\ UNCHANGED <<size, shared, serverVars, open, remaining, chunks, saved>>

\* Mutant: a file of exactly MAX_CHUNK is taken for one sent in chunks.
ReadSizeStrict ==
  /\ client = "size" /\ Received(1)
  /\ Consume(1)
  /\ remaining' = wire[1].field
  /\ client' = IF remaining' < MaxChunk THEN "single" ELSE "standard"
  /\ UNCHANGED <<size, shared, serverVars, open, chunks, saved>>

ReadSize ==
  /\ client = "size" /\ Received(1)
  /\ Consume(1)
  /\ remaining' = wire[1].field
  /\ client' = IF remaining' <= MaxChunk THEN "single" ELSE "standard"
  /\ UNCHANGED <<size, shared, serverVars, open, chunks, saved>>

\* handle_single, a size of at most one chunk: for Total = 0 gen_tcp:recv waits
\* for anything, and then asks for a negative number of bytes.
ReadSingle ==
  /\ client = "single"
  /\ IF remaining > 0
       THEN /\ Received(remaining)
            /\ Consume(remaining)
            /\ saved' = SubSeq(wire, 1, remaining)
            /\ client' = "saved"
       ELSE /\ Received(1)
            /\ wire' = <<>>
            /\ client' = "failed"
            /\ UNCHANGED saved
  /\ UNCHANGED <<size, shared, serverVars, open, remaining, chunks>>

ReadStandard ==
  /\ client = "standard" /\ Received(1)
  /\ Consume(1)
  /\ client' = "chunk"
  /\ UNCHANGED <<size, shared, serverVars, open, remaining, chunks, saved>>

\* gather_chunks, one chunk with its header.
ChunkReceived == Received(3) /\ Received(3 + wire[3].field)

ReadChunk ==
  LET len == wire[3].field IN
  /\ client = "chunk" /\ remaining > 0
  /\ ChunkReceived
  /\ IF wire[1] = Field(111)
       THEN /\ chunks' = <<[idx |-> wire[2].field, data |-> SubSeq(wire, 4, 3 + len)]>> \o chunks
            /\ remaining' = remaining - len
            /\ UNCHANGED client
       ELSE /\ client' = "failed"
            /\ UNCHANGED <<chunks, remaining>>
  /\ Consume(3 + len)
  /\ UNCHANGED <<size, shared, serverVars, open, saved>>

\* assemble_chunks: the bytes of Acc in the order of the indices, no two of
\* which are equal.
Assembled ==
  LET sorted == CHOOSE s \in [DOMAIN chunks -> ToSet(chunks)] :
                  \A j, k \in DOMAIN s : j < k => s[j].idx < s[k].idx
  IN  FlattenSeq([k \in DOMAIN sorted |-> sorted[k].data])

\* Mutant: the file is written before the last chunk is there.
AssembleEarly ==
  /\ client = "chunk" /\ remaining <= MaxChunk
  /\ saved' = Assembled
  /\ client' = "saved"
  /\ UNCHANGED <<size, shared, serverVars, open, wire, remaining, chunks>>

Assemble ==
  /\ client = "chunk" /\ remaining <= 0
  /\ saved' = Assembled
  /\ client' = "saved"
  /\ UNCHANGED <<size, shared, serverVars, open, wire, remaining, chunks>>

\* {error, closed} from recv_exact: the process that receives the file exits.
Lost ==
  /\ ~open
  /\ CASE client \in {"code", "size", "standard"} -> ~Received(1)
       [] client = "single" -> ~Received(IF remaining = 0 THEN 1 ELSE remaining)
       [] client = "chunk" -> remaining > 0 /\ ~ChunkReceived
       [] OTHER -> FALSE
  /\ client' = "failed"
  /\ UNCHANGED <<size, shared, serverVars, open, wire, remaining, chunks, saved>>

Serve == SendNotFound \/ SendSingle \/ SendHeader \/ SendChunk
Receive == ReadCode \/ ReadSize \/ ReadSingle \/ ReadStandard \/ ReadChunk \/ Assemble \/ Lost

Next ==
  \/ SendNotFound \/ SendSingle \/ SendHeader \/ SendChunk \/ Cut
  \/ ReadCode \/ ReadSize \/ ReadSingle \/ ReadStandard \/ ReadChunk \/ Assemble \/ Lost

Spec == Init /\ [][Next]_vars

\* Both processes run whenever they have something to do.
FairSpec == Spec /\ WF_vars(Serve) /\ WF_vars(Receive)

-----------------------------------------------------------------------------
\* The size field can say how long the file is; 2^32 bytes and more it announces
\* modulo 2^32.
Fits == size < SizeField

\* receive_file waits for nothing for ever: recv_exact, "Recibe exactamente N
\* bytes desde el socket", gives it the bytes or ends it.
DownloadEnds == <>(client \in Ended)

=============================================================================
