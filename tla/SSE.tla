-------------------------------- MODULE SSE --------------------------------
(***************************************************************************)
(* One server-sent-events request, end to end: the user's producer and its *)
(* channel, the loop of goduct.SSEStream (runtime/sse.go) behind the       *)
(* adapter's stream wrapper, the response body cut into chunks anywhere,   *)
(* and the streamSSE generator of the TypeScript client (streamScaffold in *)
(* internal/generators/tsclient/tsclient.go).                              *)
(*                                                                         *)
(* An event is written as a line and the two newlines that end its block,  *)
(* and a chunk may end between any of the three.  Events are numbered.     *)
(*                                                                         *)
(* Env: "marshalFails" an event cannot be marshalled, "broken" the         *)
(* connection is lost, "break" the consumer leaves its for-await loop.     *)
(***************************************************************************)
EXTENDS Naturals, Sequences, SequencesExt

CONSTANTS
  MaxEvents,  \* bound on the events the producer sends
  Cap,        \* what the connection holds before a write blocks
  Env

NL == 0
Block(e) == <<e, NL, NL>>

ASSUME ConstAssumption ==
  /\ MaxEvents \in Nat
  /\ Cap \in Nat /\ Cap >= Len(Block(1))
  /\ Env \subseteq {"marshalFails", "broken", "break"}

VARIABLES
  producer,  \* the goroutine that sends on the channel and closes it
  produced,  \* how many events SSEStream has received from it
  server,    \* where the wrapper's goroutine is
  ctx,       \* is the request's context cancelled?
  wire,      \* the part of the body the client has not read
  broken,    \* is the connection lost?
  written,   \* the events SSEStream has written and flushed
  client,    \* where the generator is
  buffer,    \* its text buffer
  block,     \* the rest of the block whose lines it is yielding
  yielded    \* the events it has yielded

vars == <<producer, produced, server, ctx, wire, broken, written, client, buffer, block, yielded>>

Events == 1..MaxEvents

Init ==
  /\ producer = "none" /\ produced = 0
  /\ server = "handler" /\ ctx = FALSE
  /\ wire = <<>> /\ broken = FALSE /\ written = <<>>
  /\ client = "fetch" /\ buffer = <<>> /\ block = <<>> /\ yielded = <<>>

-----------------------------------------------------------------------------
\* The wrapper and SSEStream.

\* The handler returns an error, which becomes a response that is not ok ...
HandlerFails ==
  /\ server = "handler"
  /\ server' = "failed" /\ ctx' = TRUE
  /\ UNCHANGED <<producer, produced, wire, broken, written, client, buffer, block, yielded>>

\* ... or a channel: the header is written, with a ResponseWriter that can flush or not.
HandlerReturns ==
  /\ server = "handler"
  /\ producer' = "running"
  /\ \E flusher \in BOOLEAN :
       /\ server' = IF flusher THEN "select" ELSE "returned"
       /\ ctx' = (ctx \/ ~flusher)
  /\ UNCHANGED <<produced, wire, broken, written, client, buffer, block, yielded>>

\* case e, ok := <-ch, with a producer that is ready to send.
Receive ==
  /\ server = "select" /\ producer = "running" /\ produced < MaxEvents
  /\ produced' = produced + 1
  /\ server' = "write"
  /\ UNCHANGED <<producer, ctx, wire, broken, written, client, buffer, block, yielded>>

\* net/http cancels the request's context when its handler has returned.
SSEReturns ==
  /\ server' = "returned" /\ ctx' = TRUE
  /\ UNCHANGED <<producer, produced, wire, broken, written, client, buffer, block, yielded>>

\* The channel is closed, or ctx.Done() fires: of two ready cases select takes either.
IgnoresClose == server = "select" /\ ctx /\ SSEReturns
StreamEnds == server = "select" /\ (producer = "closed" \/ ctx) /\ SSEReturns

MarshalFails == "marshalFails" \in Env /\ server = "write" /\ SSEReturns

\* Fprintf and Flush, which block while the connection is full; their errors are dropped.
RetriesWrite ==
  /\ server = "write" /\ ~broken
  /\ Len(wire) + Len(Block(produced)) <= Cap
  /\ wire' = wire \o Block(produced)
  /\ written' = Append(written, produced)
  /\ server' = "select"
  /\ UNCHANGED <<producer, produced, ctx, broken, client, buffer, block, yielded>>

Write ==
  /\ server = "write"
  /\ \/ /\ ~broken /\ Len(wire) + Len(Block(produced)) <= Cap
        /\ wire' = wire \o Block(produced)
        /\ written' = Append(written, produced)
     \/ /\ broken
        /\ UNCHANGED <<wire, written>>
  /\ server' = "select"
  /\ UNCHANGED <<producer, produced, ctx, broken, client, buffer, block, yielded>>

\* A producer that is done, or that watches ctx as the doc comment asks, closes the channel.
ProducerEnds ==
  /\ producer = "running"
  /\ producer' = "closed"
  /\ UNCHANGED <<produced, server, ctx, wire, broken, written, client, buffer, block, yielded>>

-----------------------------------------------------------------------------
\* streamSSE.

\* fetch: a response that is not ok throws.
Fetched ==
  /\ client = "fetch" /\ ~broken
  /\ \/ server = "failed" /\ client' = "threw"
     \/ server \in {"select", "write", "returned"} /\ client' = "read"
  /\ UNCHANGED <<producer, produced, server, ctx, wire, broken, written, buffer, block, yielded>>

\* reader.read(): a chunk is appended to the buffer.
Replaces(chunk) == chunk
Extended(chunk) == buffer \o chunk

Read ==
  /\ client = "read" /\ ~broken
  /\ \E k \in 1..Len(wire) :
       /\ buffer' = Extended(SubSeq(wire, 1, k))
       /\ wire' = SubSeq(wire, k + 1, Len(wire))
  /\ client' = "parse"
  /\ UNCHANGED <<producer, produced, server, ctx, broken, written, block, yielded>>

\* done: the body has ended; what is left in the buffer is dropped.
ReadDone ==
  /\ client = "read" /\ ~broken
  /\ server = "returned" /\ wire = <<>>
  /\ client' = "done"
  /\ UNCHANGED <<producer, produced, server, ctx, wire, broken, written, buffer, block, yielded>>

\* read() rejects.
ReadFails ==
  /\ client \in {"fetch", "read"} /\ broken
  /\ client' = "threw"
  /\ UNCHANGED <<producer, produced, server, ctx, wire, broken, written, buffer, block, yielded>>

\* The first block that is complete is cut off the buffer ...
Ends == {i \in 1..Len(buffer) - 1 : buffer[i] = NL /\ buffer[i + 1] = NL}

Parse ==
  /\ client = "parse" /\ Ends # {}
  /\ LET idx == CHOOSE i \in Ends : \A j \in Ends : i <= j
     IN  /\ block' = SubSeq(buffer, 1, idx - 1)
         /\ buffer' = SubSeq(buffer, idx + 2, Len(buffer))
  /\ client' = "yield"
  /\ UNCHANGED <<producer, produced, server, ctx, wire, broken, written, yielded>>

\* ... and its data lines are yielded: at each the consumer may leave.
YieldLine ==
  /\ client = "yield" /\ block # <<>>
  /\ IF Head(block) = NL
     THEN UNCHANGED <<yielded, client>>
     ELSE /\ yielded' = Append(yielded, Head(block))
          /\ client' \in {"yield"} \cup (IF "break" \in Env THEN {"left"} ELSE {})
  /\ block' = Tail(block)
  /\ UNCHANGED <<producer, produced, server, ctx, wire, broken, written, buffer>>

ParsesOne == "read"
ParsesOn == "parse"

BlockDone ==
  /\ client = "yield" /\ block = <<>>
  /\ client' = ParsesOn
  /\ UNCHANGED <<producer, produced, server, ctx, wire, broken, written, buffer, block, yielded>>

ParseDone ==
  /\ client = "parse" /\ Ends = {}
  /\ client' = "read"
  /\ UNCHANGED <<producer, produced, server, ctx, wire, broken, written, buffer, block, yielded>>

\* The connection is lost; the server notices, and cancels the context.
Break ==
  /\ "broken" \in Env /\ ~broken
  /\ broken' = TRUE /\ ctx' = TRUE /\ wire' = <<>>
  /\ UNCHANGED <<producer, produced, server, written, client, buffer, block, yielded>>

-----------------------------------------------------------------------------
Server == HandlerFails \/ HandlerReturns \/ StreamEnds \/ Write
Client == Fetched \/ Read \/ ReadDone \/ ReadFails \/ Parse \/ YieldLine \/ BlockDone \/ ParseDone

Next == Server \/ MarshalFails \/ Receive \/ ProducerEnds \/ Client \/ Break

\* Goroutines run, events can be marshalled, and the body is read.  A producer whose
\* context is cancelled ends.
Fairness == WF_vars(Server) /\ WF_vars(Client) /\ WF_vars(ctx /\ ProducerEnds)

Spec == Init /\ [][Next]_vars
FairSpec == Spec /\ Fairness

-----------------------------------------------------------------------------
(***************************************************************************)
(* Properties.                                                             *)
(***************************************************************************)

\* Every variable holds one of its values.
TypeOK ==
  /\ producer \in {"none", "running", "closed"} /\ produced \in 0..MaxEvents
  /\ server \in {"handler", "failed", "select", "write", "returned"}
  /\ ctx \in BOOLEAN /\ broken \in BOOLEAN
  /\ wire \in Seq(Events \cup {NL}) /\ Len(wire) <= Cap
  /\ buffer \in Seq(Events \cup {NL}) /\ block \in Seq(Events \cup {NL})
  /\ written \in Seq(Events) /\ yielded \in Seq(Events)
  /\ client \in {"fetch", "read", "parse", "yield", "left", "done", "threw"}

\* However the body is cut into chunks, what the loop has been given is what the server
\* wrote, in order and with nothing missing; a stream that ends without an error has
\* yielded all of it.
Complete ==
  /\ IsPrefix(yielded, written)
  /\ client = "done" => yielded = written

\* The stream keeps the promise of a mailbox with one iterator.
Promise == INSTANCE Mailbox WITH
  Readers <- {"client"}, Messages <- Events,
  log <- written, taken <- Len(yielded), over <- server = "returned",
  ended <- IF client = "done" THEN {"client"} ELSE {}
MailboxSpec == Promise!Spec

\* Once the channel is closed the consumer's loop ends, unless it left it.
StreamCloses == producer = "closed" ~> client \in {"done", "threw", "left"}

\* A client that is gone -- its stream ended or failed -- does not keep the server's
\* goroutine or the producer.
ServerReleased ==
  client \in {"done", "threw"} ~> (server \in {"failed", "returned"} /\ producer # "running")

\* A promise the code does not keep (README).  sse.go: SSEStream "returns when ctx.Done()
\* fires, when ch is closed, or when the writer doesn't support flushing".
DocumentedReturns ==
  [][server = "write" => server' # "returned"]_vars
=============================================================================
