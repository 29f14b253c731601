--------------------------- MODULE OtherTransfers ---------------------------
(***************************************************************************)
(* The downloads of all four projects on the stream of FileTransfer:       *)
(* RESOLUCION2's, which is that module, Resolucion3's (always in chunks),  *)
(* MARIO's (whole or in chunks that are appended to the file) and          *)
(* RESOLUCION1's (text messages to a process that keeps no state).         *)
(***************************************************************************)
EXTENDS FileTransfer, FiniteSets

CONSTANTS
  Whole,  \* chunks up to which MARIO sends a file whole; RESOLUCION1 reads as many at once: 4
  Limit   \* size from which RESOLUCION1 sends a file in chunks: 4000000, of chunks of 1048576

ASSUME WholeAssumption == Whole \in Nat \ {0}
ASSUME LimitAssumption == Limit \in Nat /\ Limit <= Whole * MaxChunk

VARIABLES
  project,    \* whose download
  calm,       \* the connection holds, and the server is faster than any timeout
  downloads   \* how often the user has asked for the file

varsX == <<vars, project, calm, downloads>>

InitX ==
  /\ Init /\ downloads = 1
  /\ project \in {"RESOLUCION1", "RESOLUCION2", "Resolucion3", "MARIO"} /\ calm \in BOOLEAN

Setup == UNCHANGED <<size, shared, open, project, calm, downloads>>
Serving == UNCHANGED clientVars /\ Setup
Reading == UNCHANGED serverVars /\ Setup

Small == size < Whole * MaxChunk
Small1 == size < Limit
Upto == Lesser(size, sent + MaxChunk)

\* The second download of the same name.
Again ==
  /\ client \in Ended /\ downloads = 1 /\ project \in {"Resolucion3", "MARIO"}
  /\ downloads' = 2
  /\ server' = "request" /\ sent' = 0 /\ index' = 0
  /\ open' = TRUE /\ wire' = <<>>
  /\ client' = "code" /\ remaining' = 0 /\ chunks' = <<>>
  /\ UNCHANGED <<size, shared, project, calm, saved>>

-----------------------------------------------------------------------------
(* Resolucion3.                                                            *)

\* manager.
NotFound3 ==
  /\ server = "request" /\ ~shared /\ Send(<<Field(102)>>)
  /\ server' = "sent" /\ UNCHANGED <<sent, index>> /\ Serving

\* enviar_archivo.
Header3 ==
  /\ server = "request" /\ shared
  /\ Send(<<Field(101), Field(size % SizeField), Field(MaxChunk)>>)
  /\ server' = "chunks" /\ UNCHANGED <<sent, index>> /\ Serving

\* enviar_chunks: a full chunk is followed by another one, empty at the end of
\* a file of full chunks.  A chunk does not say how long it is.
Chunk3 ==
  /\ server = "chunks"
  /\ Send(<<Field(111), Field(index)>> \o Bytes(sent, Upto))
  /\ sent' = Upto /\ index' = index + 1
  /\ server' = IF Upto = sent + MaxChunk THEN "chunks" ELSE "sent"
  /\ Serving

\* recv_descarga and descargar_archivo, which keeps nothing of an empty file.
ReadCode3 ==
  /\ client = "code" /\ Received(1) /\ Consume(1)
  /\ client' = IF wire[1] = Field(101) THEN "sizes" ELSE "not_found"
  /\ UNCHANGED <<remaining, chunks, saved>> /\ Reading
ReadSizes ==
  /\ client = "sizes" /\ Received(2) /\ Consume(2)
  /\ remaining' = wire[1].field
  /\ client' = IF remaining' = 0 THEN "empty" ELSE "pieces"
  /\ UNCHANGED <<chunks, saved>> /\ Reading

\* recv_chunks: reads what the sizes it was told leave to read.
PieceLength == Lesser(MaxChunk, remaining)
ReadPiece ==
  /\ client = "pieces" /\ remaining > 0
  /\ Received(2 + PieceLength) /\ Consume(2 + PieceLength)
  /\ chunks' = <<[idx |-> wire[2].field, data |-> SubSeq(wire, 3, 2 + PieceLength)]>> \o chunks
  /\ remaining' = remaining - PieceLength
  /\ client' = IF wire[1] = Field(111) THEN client ELSE "failed"
  /\ UNCHANGED saved /\ Reading

\* reconstruir_archivo: the pieces 0, 1, ... up to the first that is missing.
Rebuilt ==
  LET piece(i) == {c \in ToSet(chunks) : c.idx = i}
      n == Cardinality({c \in ToSet(chunks) : \A i \in 0..c.idx : piece(i) # {}})
  IN  FlattenSeq([k \in 1..n |-> (CHOOSE c \in piece(k - 1) : TRUE).data])
Rebuild ==
  /\ client = "pieces" /\ remaining = 0
  /\ saved' = Rebuilt /\ client' = "saved"
  /\ UNCHANGED <<wire, remaining, chunks>> /\ Reading

Lost3 ==
  /\ ~open
  /\ CASE client = "code" -> ~Received(1)
       [] client = "sizes" -> ~Received(2)
       [] client = "pieces" -> remaining > 0 /\ ~Received(2 + PieceLength)
       [] OTHER -> FALSE
  /\ client' = "failed"
  /\ UNCHANGED <<wire, remaining, chunks, saved>> /\ Reading

-----------------------------------------------------------------------------
(* MARIO.                                                                  *)

\* enviar_archivo; a file that is not there is SendNotFound.
WholeM ==
  /\ server = "request" /\ shared /\ Small
  /\ Send(<<Field(101), Field(size % SizeField)>> \o File)
  /\ server' = "sent" /\ sent' = size /\ UNCHANGED index /\ Serving
HeaderM ==
  /\ server = "request" /\ shared /\ ~Small
  /\ Send(<<Field(101), Field(size % SizeField), Field(MaxChunk)>>)
  /\ server' = "chunks" /\ UNCHANGED <<sent, index>> /\ Serving

\* enviar_chunks, until a chunk is not full or cannot be sent.
ChunkM ==
  /\ server = "chunks"
  /\ IF sent < size
       THEN Send(<<Field(111), Field(index % IndexField), Field(Upto - sent)>> \o Bytes(sent, Upto))
       ELSE UNCHANGED wire
  /\ sent' = Upto /\ index' = index + 1
  /\ server' = IF Upto = sent + MaxChunk /\ open THEN "chunks" ELSE "sent"
  /\ Serving

\* handler_occurrence closes the connection two seconds later; by then a calm
\* client has read all there was and its own second has gone by.
CloseM ==
  /\ server = "sent" /\ open /\ open' = FALSE
  /\ calm => client \in Ended \cup {"single"}
  /\ UNCHANGED <<size, shared, project, calm, downloads, serverVars, wire, clientVars>>

\* recibir_archivo: the code is ReadCode, with two seconds for it.
CodeLate ==
  /\ client = "code" /\ wire = <<>> /\ open /\ ~calm
  /\ client' = "failed"
  /\ UNCHANGED <<wire, remaining, chunks, saved>> /\ Reading
ReadSizeM ==
  /\ client = "size" /\ Received(1) /\ Consume(1)
  /\ remaining' = wire[1].field
  /\ client' = IF remaining' > Whole * MaxChunk THEN "standard" ELSE "single"
  /\ UNCHANGED <<chunks, saved>> /\ Reading

\* gen_tcp:recv(Socket, Size), which for 0 takes whatever comes first.
ReadSingleM ==
  /\ client = "single"
  /\ \E k \in IF remaining > 0 THEN {remaining} ELSE 1..Len(wire) :
       Received(k) /\ Consume(k) /\ saved' = SubSeq(wire, 1, k)
  /\ client' = "saved"
  /\ UNCHANGED <<remaining, chunks>> /\ Reading

\* recibir_chunks: every chunk is appended to what the file holds.
ReadChunkM ==
  /\ client = "chunk" /\ ChunkReceived /\ Consume(3 + wire[3].field)
  /\ saved' = (IF saved = NoFile THEN <<>> ELSE saved) \o SubSeq(wire, 4, 3 + wire[3].field)
  /\ UNCHANGED <<client, remaining, chunks>> /\ Reading

\* A second without a chunk is the end of the file.
SecondWithout ==
  /\ client = "chunk" /\ wire = <<>> /\ open
  /\ calm => server = "sent"
  /\ client' = "saved"
  /\ UNCHANGED <<wire, remaining, chunks, saved>> /\ Reading

-----------------------------------------------------------------------------
(* RESOLUCION1.  The connection of the download is a new one, from the     *)
(* node that has the file; who asked has ended with its own connection, so *)
(* NOTFOUND reaches nobody.                                                *)

\* procesoDeDescargas and envioDeArchivo.
NotFound1 ==
  /\ server = "request" /\ ~shared
  /\ server' = "sent" /\ UNCHANGED <<wire, sent, index>> /\ Serving
Header1 ==
  /\ server = "request" /\ shared
  /\ Send(<<Field(101), Field(size), Field(MaxChunk)>>)
  /\ server' = IF Small1 THEN "whole" ELSE "chunks"
  /\ UNCHANGED <<sent, index>> /\ Serving

\* "111_-1_path_size data"; of an empty file pread returns eof, which ends the
\* process.
Whole1 ==
  /\ server = "whole"
  /\ Send(IF size = 0 THEN <<>>
          ELSE <<Field(111), Field(-1), Field(size)>> \o Bytes(0, Lesser(size, Whole * MaxChunk)))
  /\ server' = "sent" /\ sent' = size /\ UNCHANGED index /\ Serving

\* mandarPorPartes, "111_index_path_chunk size_data" and "111_-2" at the end.
Chunk1 ==
  /\ server = "chunks"
  /\ Send(IF sent = size THEN <<Field(111), Field(-2)>>
          ELSE <<Field(111), Field(index), Field(MaxChunk)>> \o Bytes(sent, Upto))
  /\ sent' = Upto /\ index' = index + 1
  /\ server' = IF sent < size /\ open THEN "chunks" ELSE "sent"
  /\ Serving

\* file:pwrite; what lies before the place and was never written reads as 0.
Pwrite(place, data) ==
  LET old == IF saved = NoFile THEN <<>> ELSE saved
      end == place + Len(data)
  IN  [k \in 1..(IF Len(old) > end THEN Len(old) ELSE end) |->
         IF k > place /\ k <= end THEN data[k - place]
         ELSE IF k <= Len(old) THEN old[k] ELSE Field(0)]

\* loop_receiveTCP decodes what the socket hands over, any part of the stream,
\* as one message: the rest of a longer one is lost.  The fourth word is the
\* data; after an index it is the size of a chunk.  What is no message, or has
\* bytes of the file for its index or its size, has no clause in decodeMsg or no
\* number for list_to_integer, and ends the process.  The name, the size and the
\* bytes are taken to hold none of the signs decodeMsg splits at.
IsNumber(cell) == "field" \in DOMAIN cell
Hear1 ==
  /\ client = "code"
  /\ \E k \in 1..Len(wire) :
       LET data == SubSeq(wire, 3, k)
           header == k >= 3 /\ wire[1] = Field(101)
           chunk == k >= 3 /\ wire[1] = Field(111) /\ IsNumber(wire[2]) /\ IsNumber(wire[3])
       IN
       /\ Consume(k)
       /\ \/ /\ header
             /\ UNCHANGED <<client, saved>>
          \/ /\ chunk
             /\ saved' = IF wire[2] = Field(-1) THEN Pwrite(0, data)
                         ELSE Pwrite(wire[2].field * wire[3].field, <<wire[3]>>)
             /\ UNCHANGED client
          \/ /\ ~header /\ ~chunk
             /\ client' = "failed" /\ UNCHANGED saved
  /\ UNCHANGED <<remaining, chunks>> /\ Reading

-----------------------------------------------------------------------------
ServeX ==
  \/ project = "RESOLUCION2" /\ Serve /\ UNCHANGED <<project, calm, downloads>>
  \/ project = "Resolucion3" /\ (NotFound3 \/ Header3 \/ Chunk3)
  \/ project = "MARIO" /\ (WholeM \/ HeaderM \/ ChunkM \/ CloseM)
  \/ project = "MARIO" /\ SendNotFound /\ UNCHANGED <<project, calm, downloads>>
  \/ project = "RESOLUCION1" /\ (NotFound1 \/ Header1 \/ Whole1 \/ Chunk1)
ReceiveX ==
  \/ project = "RESOLUCION2" /\ Receive /\ UNCHANGED <<project, calm, downloads>>
  \/ project = "Resolucion3" /\ (ReadCode3 \/ ReadSizes \/ ReadPiece \/ Rebuild \/ Lost3)
  \/ project = "MARIO" /\ (CodeLate \/ ReadSizeM \/ ReadSingleM \/ ReadChunkM \/ SecondWithout)
  \/ project = "MARIO" /\ (ReadCode \/ ReadStandard \/ Lost) /\ UNCHANGED <<project, calm, downloads>>
  \/ project = "RESOLUCION1" /\ Hear1
CutX == ~calm /\ Cut /\ UNCHANGED <<project, calm, downloads>>
NextX == ServeX \/ ReceiveX \/ CutX \/ Again

FairX == WF_varsX(ServeX) /\ WF_varsX(ReceiveX)
SpecX == InitX /\ [][NextX]_varsX /\ FairX

-----------------------------------------------------------------------------
First(k) == SubSeq(File, 1, k)
SavedByMario ==
  \/ Small /\ saved = File
  \/ size = Whole * MaxChunk
  \/ \E i, j \in 0..size : saved = First(i) \o First(j) /\ (downloads = 1 => j = 0)

\* What a download leaves is the file.  RESOLUCION2 and Resolucion3 rebuild it
\* before they save it.  MARIO saves a chunk as it comes: a long file is there
\* up to where the connection broke or a chunk took a second, and again after
\* that for the second download; complete, the first time, when all is calm.
\* At exactly Whole chunks its two ends disagree.  RESOLUCION1 puts the size
\* before a small file and saves no byte of a long one.
WhatIsSaved == Fits /\ saved # NoFile =>
  /\ project \in {"RESOLUCION2", "Resolucion3"} => saved = File
  /\ project = "MARIO" => SavedByMario
  /\ project = "MARIO" /\ calm /\ client = "saved" /\ downloads = 1
       => saved = File \/ size = Whole * MaxChunk
  /\ project = "RESOLUCION1" /\ Small1 => IsPrefix(saved, <<Field(size)>> \o File)
  /\ project = "RESOLUCION1" /\ ~Small1 => \A k \in DOMAIN saved : saved[k] \in {Field(0), Field(MaxChunk)}

\* Nobody waits for ever for a download, wherever the connection breaks; who
\* downloads RESOLUCION2's empty file, only until the connection does.
\* RESOLUCION1 waits for none.
Hangs == project = "RESOLUCION2" /\ shared /\ size = 0
DownloadsEnd ==
  /\ project # "RESOLUCION1" /\ ~Hangs => []<>(client \in Ended)
  /\ Hangs => (~open ~> client \in Ended)

\* MARIO, README.md:83: "Fallo al enviar archivo completo en una sola operacion
\* (<= 4MB)": a file of at most Whole chunks is sent and saved whole.
WholeUpToTheLimit ==
  project = "MARIO" /\ downloads = 1 /\ size <= Whole * MaxChunk => saved \in {NoFile, File}

=============================================================================
