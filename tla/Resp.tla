-------------------------------- MODULE Resp --------------------------------
(***************************************************************************)
(* The codec of client connections (resp/decoder.rs, resp/encoder.rs): a   *)
(* decoder that keeps its place between reads and validates limits before  *)
(* it copies anything, and the encoder under the same limits.  The peer's  *)
(* bytes arrive in pieces of any size (the read at the end of the loop of  *)
(* connection.rs).                                                         *)
(*                                                                         *)
(* A byte is a one-character string.  A frame and a node have a kind, the  *)
(* prefix of its line; a number, which is -1 for a null bulk or array; and *)
(* bytes or items.  In a double the exponent is left out.                  *)
(***************************************************************************)
EXTENDS Integers, Sequences, SequencesExt

CONSTANTS
    Streams,      \* what the peer sends: the bytes, and the frames if they are encoded ones
    RespLimits,   \* max_frame_bytes, max_bulk_bytes, max_line_bytes, max_nodes, max_depth
    MAX_INPUT,    \* max_input_buffer_bytes
    INTEGER_MAX   \* i64::MAX in the source

\* ServerConfig::validate
ASSUME InputAssumption == RespLimits.max_frame_bytes <= MAX_INPUT

VARIABLES
    stream,    \* the stream of the connection
    read,      \* how many of its bytes have been read
    src,       \* the input buffer
    decoder,   \* Decoder
    frames,    \* the frames decoded
    pc         \* "read", "decode", or "closed" after an error or the end of input

respVars == << stream, read, src, decoder, frames, pc >>

USIZE_MAX == 2 * INTEGER_MAX + 1
DIGITS == <<"0", "1", "2", "3", "4", "5", "6", "7", "8", "9">>
CRLF == <<"CR", "LF">>
PAIRED == {"%", "|"}
BULKS == {"$", "!", "="}
AGGREGATES == {"*", "~", ">"} \union PAIRED
PREFIXES == {"+", "-", ":", "_", "#", ",", "("} \union BULKS \union AGGREGATES

IsDigit(b) == b \in Range(DIGITS)
Value(digit) == (CHOOSE i \in DOMAIN DIGITS : DIGITS[i] = digit) - 1

Frame(kind, number, bytes, items) == [kind |-> kind, number |-> number, bytes |-> bytes, items |-> items]

---------------------------------------------------------------------------
\* Numbers and scalars

Unparsed == -INTEGER_MAX - 2
Digits(bytes, max) ==
    IF bytes = <<>> THEN Unparsed
    ELSE FoldLeft(LAMBDA value, b :
                    IF value = Unparsed \/ ~IsDigit(b) \/ value * 10 + Value(b) > max THEN Unparsed
                    ELSE value * 10 + Value(b), 0, bytes)

Signed(bytes, signs) == bytes # <<>> /\ bytes[1] \in signs

\* The magnitude is accumulated below zero, so that the least integer is read.
ParseInteger(bytes) ==
    LET digits == IF Signed(bytes, {"+", "-"}) THEN Tail(bytes) ELSE bytes
    IN  IF Signed(bytes, {"-"})
        THEN IF Digits(digits, INTEGER_MAX + 1) = Unparsed THEN Unparsed ELSE -Digits(digits, INTEGER_MAX + 1)
        ELSE Digits(digits, INTEGER_MAX)

ParseLength(bytes) == IF bytes = <<"-", "1">> THEN -1 ELSE Digits(bytes, USIZE_MAX)

ValidScalar(kind, bytes) ==
    LET signs == IF kind = "(" THEN {"-"} ELSE {"+", "-"}
        rest == IF Signed(bytes, signs) THEN Tail(bytes) ELSE bytes
        points == {i \in DOMAIN rest : rest[i] = "."}
    IN  \/ kind = "," /\ bytes \in {<<"i", "n", "f">>, <<"-", "i", "n", "f">>, <<"n", "a", "n">>}
        \/ /\ \A i \in DOMAIN rest : IsDigit(rest[i]) \/ (kind = "," /\ rest[i] = ".")
           /\ \A i, j \in points : i = j
           /\ DOMAIN rest # points

ValidVerbatim(bytes) == Len(bytes) >= 4 /\ bytes[4] = ":"

---------------------------------------------------------------------------
\* The decoder

Prefix == [at |-> "Prefix", kind |-> "", start |-> 0, payload |-> 0, end |-> 0, cr |-> FALSE]
NewDecoder ==
    [cursor |-> 0, previous |-> 0, state |-> Prefix, nodes |-> <<>>, arrays |-> <<>>,
     started |-> 0, pending |-> 1, poisoned |-> FALSE]

\* What an iteration of scan gives: another one, no frame yet, a frame, an error.
\* After an error the decoder is poisoned and its place is not read again.
Outcome(d, result) == [decoder |-> d, result |-> result]
Fits(end) == end <= RespLimits.max_frame_bytes
Byte(d, buffer) == buffer[d.cursor + 1]
Slice(buffer, payload) == SubSeq(buffer, payload.start + 1, payload.end)
Advanced(d, state) == [d EXCEPT !.cursor = @ + 1, !.state = state]

PrefixStep(d, buffer) ==
    IF d.started > 0 /\ ~Fits(d.cursor + 3) THEN Outcome(d, "LimitExceeded")
    ELSE IF d.cursor >= Len(buffer) THEN Outcome(d, "None")
    ELSE IF Byte(d, buffer) \notin PREFIXES THEN Outcome(d, "Malformed")
    ELSE IF \/ Byte(d, buffer) \in AGGREGATES /\ Len(d.arrays) >= RespLimits.max_depth
            \/ d.started >= RespLimits.max_nodes
         THEN Outcome(d, "LimitExceeded")
    ELSE IF d.pending = 0 THEN Outcome(d, "Malformed")
    ELSE Outcome(Advanced([d EXCEPT !.started = @ + 1, !.pending = @ - 1],
                          [Prefix EXCEPT !.at = "Line", !.kind = Byte(d, buffer), !.start = d.cursor,
                                         !.payload = d.cursor + 1]), "More")

\* The innermost array that still wants a node; what is complete is popped.
Wanting(arrays) == {i \in DOMAIN arrays : arrays[i] > 1}
FinishNode(d) ==
    LET last == Max(Wanting(d.arrays) \union {0})
        rest == SubSeq(d.arrays, 1, last)
    IN  Outcome([d EXCEPT !.state = Prefix,
                          !.arrays = IF last = 0 THEN <<>> ELSE [rest EXCEPT ![last] = @ - 1]],
                IF last = 0 THEN "Frame" ELSE "More")

\* A node's payload stays in the buffer until the frame is complete.
Node(kind, number, start, end) == [kind |-> kind, number |-> number, payload |-> [start |-> start, end |-> end]]
NoPayload == [start |-> 0, end |-> 0]
Push(d, node) == [d EXCEPT !.nodes = Append(@, node)]
Pushed(d, kind, number, payload) == FinishNode(Push(d, Node(kind, number, payload.start, payload.end)))

FinishBulkLength(d, kind, length) ==
    IF length > RespLimits.max_bulk_bytes \/ ~Fits(d.cursor + length + 2) THEN Outcome(d, "LimitExceeded")
    ELSE Outcome([d EXCEPT !.state = [Prefix EXCEPT !.at = "Bulk", !.kind = kind, !.payload = d.cursor,
                                                    !.end = d.cursor + length]], "More")

\* Every node still to come takes three bytes at least.
FinishItems(d, kind, length) ==
    LET pending == d.pending + length
        next == [Push(d, Node(kind, length, 0, 0)) EXCEPT !.pending = pending]
    IN  IF d.started + pending > RespLimits.max_nodes \/ ~Fits(d.cursor + 3 * pending)
        THEN Outcome(d, "LimitExceeded")
        ELSE IF length = 0 THEN FinishNode(next)
        ELSE Outcome([next EXCEPT !.arrays = Append(@, length), !.state = Prefix], "More")

\* Mutant: the pairs of a map are counted as items.
FinishLengthUnpaired(d, kind, length) ==
    IF length = Unparsed \/ (length = -1 /\ kind \notin {"$", "*"}) THEN Outcome(d, "Malformed")
    ELSE IF length = -1 THEN Pushed(d, kind, -1, NoPayload)
    ELSE IF kind \in BULKS THEN FinishBulkLength(d, kind, length)
    ELSE FinishItems(d, kind, length)

FinishLength(d, kind, length) ==
    IF length = Unparsed \/ (length = -1 /\ kind \notin {"$", "*"}) THEN Outcome(d, "Malformed")
    ELSE IF length = -1 THEN Pushed(d, kind, -1, NoPayload)
    ELSE IF kind \in BULKS THEN FinishBulkLength(d, kind, length)
    ELSE FinishItems(d, kind, IF kind \in PAIRED THEN 2 * length ELSE length)

FinishLine(d, kind, payload, bytes) ==
    LET When(valid) == IF valid THEN Pushed(d, kind, 0, payload) ELSE Outcome(d, "Malformed")
    IN  CASE kind \in {"+", "-"} -> When(TRUE)
          [] kind = ":" -> IF ParseInteger(bytes) = Unparsed THEN Outcome(d, "Malformed")
                           ELSE Pushed(d, kind, ParseInteger(bytes), NoPayload)
          [] kind = "_" -> When(bytes = <<>>)
          [] kind = "#" -> When(bytes \in {<<"t">>, <<"f">>})
          [] kind \in {",", "("} -> When(ValidScalar(kind, bytes))
          [] OTHER -> FinishLength(d, kind, ParseLength(bytes))

\* The terminator is checked against the limits before it has arrived.
LineStep(d, buffer) ==
    LET line == d.state
        minimum == d.cursor + (IF line.cr THEN 1 ELSE 2)
        payload == [start |-> line.payload, end |-> d.cursor - 1]
    IN  IF ~Fits(minimum) \/ minimum - line.start > RespLimits.max_line_bytes THEN Outcome(d, "LimitExceeded")
        ELSE IF d.cursor >= Len(buffer) THEN Outcome(d, "None")
        ELSE IF (Byte(d, buffer) = "LF") # line.cr THEN Outcome(d, "Malformed")
        ELSE IF line.cr THEN FinishLine(Advanced(d, line), line.kind, payload, Slice(buffer, payload))
        ELSE Outcome(Advanced(d, [line EXCEPT !.cr = Byte(d, buffer) = "CR"]), "More")

\* The payload is skipped, not inspected.
Skipped(d, buffer) ==
    [d EXCEPT !.cursor = IF d.cursor < d.state.end THEN Min({Len(buffer), d.state.end}) ELSE @]

BulkStep(before, buffer) ==
    LET d == Skipped(before, buffer)
        bulk == d.state
        payload == [start |-> bulk.payload, end |-> bulk.end]
    IN  IF d.cursor < bulk.end \/ d.cursor >= Len(buffer) THEN Outcome(d, "None")
        ELSE IF Byte(d, buffer) # (IF bulk.cr THEN "LF" ELSE "CR") THEN Outcome(d, "Malformed")
        ELSE IF ~bulk.cr THEN Outcome(Advanced(d, [bulk EXCEPT !.cr = TRUE]), "More")
        ELSE IF bulk.kind = "=" /\ ~ValidVerbatim(Slice(buffer, payload)) THEN Outcome(d, "Malformed")
        ELSE Pushed(Advanced(d, bulk), bulk.kind, 0, payload)

RECURSIVE Scan(_, _)
Scan(d, buffer) ==
    LET outcome == CASE d.state.at = "Prefix" -> PrefixStep(d, buffer)
                     [] d.state.at = "Line" -> LineStep(d, buffer)
                     [] d.state.at = "Bulk" -> BulkStep(d, buffer)
    IN  IF outcome.result = "More" THEN Scan(outcome.decoder, buffer) ELSE outcome

\* From the last node to the first; an array takes its items from the stack.
Materialize(nodes, buffer) ==
    Head(FoldLeft(LAMBDA stack, node :
            LET count == IF node.kind \in AGGREGATES /\ node.number > 0 THEN node.number ELSE 0
                null == IF node.number = -1 /\ node.kind \in {"$", "*"} THEN -1 ELSE 0
            IN  <<Frame(node.kind, IF node.kind = ":" THEN node.number ELSE null,
                        Slice(buffer, node.payload), SubSeq(stack, 1, count))>>
                \o SubSeq(stack, count + 1, Len(stack)),
         <<>>, Reverse(nodes)))

\* Mutant: the nodes that were started are forgotten between reads.
DecodeForgetful(d, buffer) ==
    LET scanned == IF d.poisoned THEN Outcome(d, "Poisoned")
                   ELSE IF Len(buffer) < d.previous THEN Outcome(d, "BufferChanged")
                   ELSE Scan([d EXCEPT !.previous = Len(buffer)], buffer)
        after == scanned.decoder
    IN  CASE scanned.result = "None" ->
               [decoder |-> [after EXCEPT !.started = 0], src |-> buffer, result |-> "None", frame |-> <<>>]
          [] scanned.result = "Frame" ->
               [decoder |-> NewDecoder, src |-> SubSeq(buffer, after.cursor + 1, Len(buffer)),
                result |-> "Frame", frame |-> <<Materialize(after.nodes, buffer)>>]
          [] OTHER ->
               [decoder |-> [after EXCEPT !.poisoned = TRUE, !.nodes = <<>>, !.arrays = <<>>],
                src |-> buffer, result |-> scanned.result, frame |-> <<>>]

\* Decoder::decode: the decoder and the buffer afterwards, the result and the frame.
Decode(d, buffer) ==
    LET scanned == IF d.poisoned THEN Outcome(d, "Poisoned")
                   ELSE IF Len(buffer) < d.previous THEN Outcome(d, "BufferChanged")
                   ELSE Scan([d EXCEPT !.previous = Len(buffer)], buffer)
        after == scanned.decoder
    IN  CASE scanned.result = "None" ->
               [decoder |-> after, src |-> buffer, result |-> "None", frame |-> <<>>]
          [] scanned.result = "Frame" ->
               [decoder |-> NewDecoder, src |-> SubSeq(buffer, after.cursor + 1, Len(buffer)),
                result |-> "Frame", frame |-> <<Materialize(after.nodes, buffer)>>]
          [] OTHER ->
               [decoder |-> [after EXCEPT !.poisoned = TRUE, !.nodes = <<>>, !.arrays = <<>>],
                src |-> buffer, result |-> scanned.result, frame |-> <<>>]

---------------------------------------------------------------------------
\* The encoder

RECURSIVE Decimal(_)
Decimal(n) ==
    IF n < 0 THEN <<"-">> \o Decimal(-n)
    ELSE IF n < 10 THEN <<DIGITS[n + 1]>>
    ELSE Decimal(n \div 10) \o <<DIGITS[(n % 10) + 1]>>

\* What stands between the prefix and the end of a frame's own line.
LineOf(f) ==
    CASE f.number = -1 /\ f.kind \in {"$", "*"} -> <<"-", "1">>
      [] f.number # -1 /\ f.kind \in BULKS -> Decimal(Len(f.bytes))
      [] f.number # -1 /\ f.kind \in AGGREGATES ->
            Decimal(IF f.kind \in PAIRED THEN Len(f.items) \div 2 ELSE Len(f.items))
      [] f.kind = ":" -> Decimal(f.number)
      [] OTHER -> f.bytes

RECURSIVE Encoded(_)
Encoded(f) ==
    (<<f.kind>> \o LineOf(f) \o CRLF)
    \o (IF f.kind \in BULKS /\ f.number # -1 THEN f.bytes \o CRLF ELSE <<>>)
    \o FlattenSeq([i \in DOMAIN f.items |-> Encoded(f.items[i])])

\* A frame and all it contains, each with its depth.
RECURSIVE WithItems(_, _)
WithItems(f, depth) ==
    <<[frame |-> f, depth |-> depth]>>
    \o FlattenSeq([i \in DOMAIN f.items |-> WithItems(f.items[i], depth + 1)])

ValidFrame(f, depth) ==
    /\ Len(LineOf(f)) + 3 <= RespLimits.max_line_bytes
    /\ f.kind \in {"+", "-"} => Range(f.bytes) \intersect Range(CRLF) = {}
    /\ f.kind \in {",", "("} => ValidScalar(f.kind, f.bytes)
    /\ f.kind = "=" => ValidVerbatim(f.bytes)
    /\ f.kind \in BULKS => Len(f.bytes) <= RespLimits.max_bulk_bytes
    /\ f.kind \in PAIRED => Len(f.items) % 2 = 0
    /\ f.kind \in AGGREGATES => depth + 1 <= RespLimits.max_depth

\* encoded_size: whether encode accepts the frame.
Encodable(f) ==
    LET all == WithItems(f, 0)
    IN  /\ Len(all) <= RespLimits.max_nodes
        /\ \A i \in DOMAIN all : ValidFrame(all[i].frame, all[i].depth)
        /\ Fits(Len(Encoded(f)))

---------------------------------------------------------------------------
\* A connection that reads

\* The frames a peer could encode, then bytes of any kind.
Stream(sent, encoded, raw) == [sent |-> sent, encoded |-> Len(encoded), bytes |-> encoded \o raw]
StreamOf(s) ==
    LET sent == SelectSeq(s.frames, Encodable)
    IN  Stream(sent, FlattenSeq([i \in DOMAIN sent |-> Encoded(sent[i])]), s.raw)

InitResp ==
    /\ stream \in {StreamOf(s) : s \in Streams}
    /\ read = 0 /\ src = <<>> /\ decoder = NewDecoder /\ frames = <<>> /\ pc = "read"

Receive(n) ==
    /\ pc = "read" /\ read + n <= Len(stream.bytes) /\ Len(src) + n <= MAX_INPUT
    /\ src' = src \o SubSeq(stream.bytes, read + 1, read + n)
    /\ read' = read + n
    /\ pc' = "decode"
    /\ UNCHANGED << stream, decoder, frames >>

EndOfInput ==
    /\ pc = "read" /\ read = Len(stream.bytes)
    /\ pc' = "closed"
    /\ UNCHANGED << stream, read, src, decoder, frames >>

\* A frame is answered and the loop decodes what is left; without one it reads,
\* if the buffer has room.
DecodeNext ==
    /\ pc = "decode"
    /\ \E decoded \in {Decode(decoder, src)} :
          /\ decoder' = decoded.decoder /\ src' = decoded.src
          /\ frames' = frames \o decoded.frame
          /\ pc' = CASE decoded.result = "None" /\ Len(src) < MAX_INPUT -> "read"
                     [] decoded.result = "Frame" -> "decode"
                     [] OTHER -> "closed"
    /\ UNCHANGED << stream, read >>

RespNext ==
    \/ \E n \in 1..Len(stream.bytes) : Receive(n)
    \/ EndOfInput
    \/ DecodeNext

(***************************************************************************)
(* Properties                                                              *)
(***************************************************************************)

\* What decode returns, a frame, an error or the place to go on from, does not
\* depend on how the bytes in the buffer were cut into reads: the decoder that
\* kept its place between reads agrees with a new one that is shown the same
\* bytes at once (Decoder::scan, which keeps cursor, stack and limits).
FragmentsDoNotMatter == pc = "decode" => Decode(decoder, src) = Decode(NewDecoder, src)

\* Whatever encode accepts under the limits, decode accepts under the same ones
\* and gives back, as soon as its last byte is there: neither a limit of the
\* decoder nor a full input buffer ends the connection before (encoded_size
\* against the checks of scan and finish_line, and the room for input).
\* Conversely, what was decoded, from whatever bytes, could be encoded under them.
CodecAgrees ==
    /\ \A i \in DOMAIN frames : i \in DOMAIN stream.sent => frames[i] = stream.sent[i]
    /\ \A i \in DOMAIN frames : Encodable(frames[i])
    /\ pc = "closed" \/ (pc = "read" /\ read >= stream.encoded) => Len(frames) >= Len(stream.sent)

=============================================================================
