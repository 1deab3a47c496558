-------------------------------- MODULE Wire --------------------------------
(***************************************************************************)
(* The frames of the internal transport (replication/protocol.rs): what a  *)
(* message becomes on the wire under each transport version, which header  *)
(* a reader accepts, and which message it reads back.                      *)
(*                                                                         *)
(* A body is the list of its fields.  A version string is known by its     *)
(* length, a snapshot entry or a batch by its value and its encoded size;  *)
(* bytes are counted, not written out.  An optional field is a sequence of *)
(* at most one value.                                                      *)
(***************************************************************************)
EXTENDS Naturals, Sequences, TLC

VERSION == 1
MEMORY_VERSION == 2
COMPOSED_VERSION == 3
HEADER_BYTES == 24
MAX_RECORD_BYTES == 67108864
MAX_FRAME_BYTES == MAX_RECORD_BYTES + 128

Invalid == [type |-> "invalid"]

\* Limits::validate
ValidLimits(limits) ==
    /\ limits.frame \in HEADER_BYTES + 1 .. MAX_FRAME_BYTES
    /\ limits.record \in 1..MAX_RECORD_BYTES /\ limits.mutations > 0

(***************************************************************************)
(* Handshakes                                                              *)
(***************************************************************************)

\* Hello::accepts: the receiver has to hold what the sender announces.
Accepts(peer, source) ==
    IF peer.sider # source.sider \/ peer.record # source.record THEN "IncompatibleVersion"
    ELSE IF peer.shards # source.shards \/ peer.routing # source.routing THEN "IncompatibleLayout"
    ELSE IF \/ peer.maxRecord < source.maxRecord \/ peer.maxMutations < source.maxMutations
            \/ peer.maxSnapshot < source.maxSnapshot
    THEN "ResourceLimit"
    ELSE "accepted"

\* The profile a ComposedHello has to name on both sides.
ComposedProfile(hello) == hello.record = 1 /\ hello.header = 7 /\ hello.capabilities = 1

\* ComposedHello::accepts
ComposedAccepts(peer, source) ==
    IF ~ComposedProfile(peer) \/ ~ComposedProfile(source) THEN "IncompatibleVersion"
    ELSE Accepts(peer, source)

(***************************************************************************)
(* Encoding                                                                *)
(***************************************************************************)

VersionString(n) == n \in 1..32

\* encode_hello refuses a handshake without contents.
ValidHello(h) ==
    /\ VersionString(h.sider)
    /\ \A n \in {h.shards, h.routing, h.record, h.maxRecord, h.maxMutations, h.maxSnapshot} : n > 0

HelloBody(h) ==
    << h.sider, h.record, h.shards, h.routing, h.maxRecord, h.maxMutations, h.maxSnapshot >>
    \o <<Len(h.cursor)>> \o h.cursor
HelloBytes(h) == 1 + h.sider + 5 * 4 + 8 + 1 + 24 * Len(h.cursor)

\* A record keeps its own frame of twelve bytes inside the transport's.
RecordFits(m, limits) ==
    /\ m.bytes <= limits.record
    /\ m.bytes + HEADER_BYTES + 12 <= limits.frame
    /\ m.mutations <= limits.mutations

\* encode_profile: the kind, the fields and the bytes of a message, or a refusal.
Encoded(kind, bytes, body) == [type |-> "body", kind |-> kind, bytes |-> bytes, body |-> body]
EncodeRecord(m, version, limits) ==
    CASE m.type = "MemorySnapshotEntry" /\ version = MEMORY_VERSION
         /\ m.shape \in {"put", "image"} /\ RecordFits(m, limits) ->
            Encoded(4, 12 + m.bytes, <<"snapshot", m.shape, m.value, m.mutations>>)
      [] m.type = "SnapshotEntry" /\ version # MEMORY_VERSION
         /\ m.shape = "put" /\ RecordFits(m, limits) ->
            Encoded(4, 12 + m.bytes, <<"snapshot", m.shape, m.value, m.mutations>>)
      [] m.type = "MemoryBatch" /\ version = MEMORY_VERSION /\ RecordFits(m, limits) ->
            Encoded(6, 12 + m.bytes, <<"batch", m.sequence, m.value, m.mutations>>)
      [] m.type = "Batch" /\ version # MEMORY_VERSION /\ RecordFits(m, limits) ->
            Encoded(6, 12 + m.bytes, <<"batch", m.sequence, m.value, m.mutations>>)
      [] OTHER -> Invalid
EncodeRequest(m, version) ==
    CASE m.type = "ComposedHello" /\ version = COMPOSED_VERSION
         /\ ComposedProfile(m.hello) /\ ValidHello(m.hello) ->
            Encoded(1, HelloBytes(m.hello) + 8,
                    HelloBody(m.hello) \o <<m.hello.header, m.hello.capabilities>>)
      [] m.type = "Hello" /\ version # COMPOSED_VERSION /\ ValidHello(m.hello)
         /\ (version = MEMORY_VERSION => m.hello.record = 2) ->
            Encoded(1, HelloBytes(m.hello), HelloBody(m.hello))
      [] m.type = "Export" /\ version = VERSION /\ VersionString(m.sider)
         /\ m.maxRecord > 0 /\ m.maxSnapshot > 0 ->
            Encoded(10, 1 + m.sider + 4 + 8, <<m.sider, m.maxRecord, m.maxSnapshot>>)
      [] m.type = "MemoryExport" /\ version = MEMORY_VERSION /\ VersionString(m.sider)
         /\ m.record = 2 /\ m.maxRecord > 0 /\ m.maxSnapshot > 0 ->
            Encoded(10, 1 + m.sider + 2 * 4 + 8, <<m.sider, m.record, m.maxRecord, m.maxSnapshot>>)
      [] m.type = "ComposedExport" /\ version = COMPOSED_VERSION /\ VersionString(m.sider)
         /\ ComposedProfile(m) /\ m.maxRecord > 0 /\ m.maxSnapshot > 0 ->
            Encoded(10, 1 + m.sider + 4 * 4 + 8,
                    <<m.sider, m.record, m.header, m.capabilities, m.maxRecord, m.maxSnapshot>>)
      [] m.type = "StatusRequest" -> Encoded(11, 1, <<0>>)
      [] m.type = "Promote" -> Encoded(12, 1, <<0>>)
      [] OTHER -> Invalid
EncodeAnswer(m) ==
    CASE m.type = "Continue" -> Encoded(2, 24, <<m.cursor>>)
      [] m.type = "FullStart" -> Encoded(3, 24 + 8, <<m.cursor, m.entries>>)
      [] m.type = "FullEnd" -> Encoded(5, 24 + 8 + 4, <<m.cursor, m.entries, m.digest>>)
      [] m.type = "Ack" -> Encoded(7, 24, <<m.cursor>>)
      [] m.type = "Heartbeat" -> Encoded(8, 24, <<m.cursor>>)
      [] m.type = "Reject" -> Encoded(9, 1, <<m.reason>>)
      [] m.type = "Promoted" -> Encoded(13, 24, <<m.cursor>>)
      [] m.type = "Status" ->
            Encoded(14, 1 + 24 + 1 + 8 + 1 + 3 * 8,
                    <<m.readonly, m.cursor, m.upstream # <<>>,
                      IF m.upstream = <<>> THEN 0 ELSE m.upstream[1], m.connected, m.counters>>)
      [] OTHER -> Invalid

RecordTypes == {"MemorySnapshotEntry", "SnapshotEntry", "MemoryBatch", "Batch"}
RequestTypes == {"Hello", "ComposedHello", "Export", "MemoryExport", "ComposedExport",
                 "StatusRequest", "Promote"}
EncodeBody(m, version, limits) ==
    IF m.type \in RecordTypes THEN EncodeRecord(m, version, limits)
    ELSE IF m.type \in RequestTypes THEN EncodeRequest(m, version)
    ELSE EncodeAnswer(m)

\* The digest covers the header and the body.
Checksum(version, kind, bytes, body) == <<version, kind, bytes, body>>

FrameOf(b, version, limits) ==
    IF b = Invalid \/ ~ValidLimits(limits) \/ b.bytes + HEADER_BYTES > limits.frame THEN Invalid
    ELSE [type |-> "frame", version |-> version, kind |-> b.kind, bytes |-> b.bytes,
          body |-> b.body, checksum |-> Checksum(version, b.kind, b.bytes, b.body)]

Encode(m, version, limits) == FrameOf(EncodeBody(m, version, limits), version, limits)

(***************************************************************************)
(* Decoding                                                                *)
(***************************************************************************)

\* The lengths `header` accepts for a kind, before anything is allocated.
ValidSize(kind, bytes, version) ==
    CASE kind = 1 -> bytes <= IF version = COMPOSED_VERSION THEN 94 ELSE 86
      [] kind \in {2, 7, 8, 13} -> bytes = 24
      [] kind = 3 -> bytes = 32
      [] kind = 5 -> bytes = 36
      [] kind \in {9, 11, 12} -> bytes = 1
      [] kind = 10 -> bytes <= IF version = COMPOSED_VERSION THEN 57
                               ELSE IF version = MEMORY_VERSION THEN 49 ELSE 45
      [] kind = 14 -> bytes = 59
      [] OTHER -> TRUE

Header(frame, version, limits) ==
    /\ ValidLimits(limits)
    /\ frame.version = version
    /\ frame.kind \in 1..14
    /\ frame.bytes \in 1..limits.frame - HEADER_BYTES
    /\ ValidSize(frame.kind, frame.bytes, version)

ReadHello(b) ==
    [sider |-> b[1], record |-> b[2], shards |-> b[3], routing |-> b[4], maxRecord |-> b[5],
     maxMutations |-> b[6], maxSnapshot |-> b[7], cursor |-> SubSeq(b, 9, 8 + b[8])]
AfterHello(b) == 8 + b[8]

\* decode_profile, kinds 4 and 6: exactly one record of the transport's own codec.
DecodeRecord(frame, version, limits) ==
    LET b == frame.body
        memory == version = MEMORY_VERSION
        bytes == frame.bytes - 12
    IN IF frame.bytes < 12 \/ bytes > limits.record \/ b[4] > limits.mutations THEN Invalid
       ELSE IF frame.kind = 4 /\ b[1] = "snapshot"
               /\ b[2] \in {"put"} \union (IF memory THEN {"image"} ELSE {}) THEN
           [type |-> IF memory THEN "MemorySnapshotEntry" ELSE "SnapshotEntry",
            shape |-> b[2], value |-> b[3], mutations |-> b[4], bytes |-> bytes]
       ELSE IF frame.kind = 6 /\ b[1] = "batch" THEN
           [type |-> IF memory THEN "MemoryBatch" ELSE "Batch",
            sequence |-> b[2], value |-> b[3], mutations |-> b[4], bytes |-> bytes]
       ELSE Invalid

\* decode_profile, kinds 1 and 10, which the encoder validates once more.
DecodeRequest(frame, version) ==
    LET b == frame.body
        composed == version = COMPOSED_VERSION
    IN CASE frame.kind = 1 /\ composed ->
              [type |-> "ComposedHello",
               hello |-> ReadHello(b) @@ [header |-> b[AfterHello(b) + 1],
                                          capabilities |-> b[AfterHello(b) + 2]]]
         [] frame.kind = 1 /\ ~composed -> [type |-> "Hello", hello |-> ReadHello(b)]
         [] frame.kind = 10 /\ composed ->
              [type |-> "ComposedExport", sider |-> b[1], record |-> b[2], header |-> b[3],
               capabilities |-> b[4], maxRecord |-> b[5], maxSnapshot |-> b[6]]
         [] frame.kind = 10 /\ version = MEMORY_VERSION ->
              [type |-> "MemoryExport", sider |-> b[1], record |-> b[2], maxRecord |-> b[3],
               maxSnapshot |-> b[4]]
         [] OTHER ->
              [type |-> "Export", sider |-> b[1], maxRecord |-> b[2], maxSnapshot |-> b[3]]

DecodeAnswer(frame) ==
    LET b == frame.body
    IN CASE frame.kind = 2 -> [type |-> "Continue", cursor |-> b[1]]
         [] frame.kind = 3 -> [type |-> "FullStart", cursor |-> b[1], entries |-> b[2]]
         [] frame.kind = 5 ->
              [type |-> "FullEnd", cursor |-> b[1], entries |-> b[2], digest |-> b[3]]
         [] frame.kind = 7 -> [type |-> "Ack", cursor |-> b[1]]
         [] frame.kind = 8 -> [type |-> "Heartbeat", cursor |-> b[1]]
         [] frame.kind = 9 -> [type |-> "Reject", reason |-> b[1]]
         [] frame.kind = 11 -> [type |-> "StatusRequest"]
         [] frame.kind = 12 -> [type |-> "Promote"]
         [] frame.kind = 13 -> [type |-> "Promoted", cursor |-> b[1]]
         [] OTHER ->
              IF ~b[3] /\ b[4] # 0 THEN Invalid
              ELSE [type |-> "Status", readonly |-> b[1], cursor |-> b[2],
                    upstream |-> IF b[3] THEN <<b[4]>> ELSE <<>>,
                    connected |-> b[5], counters |-> b[6]]

Validated(m, version, limits) == IF Encode(m, version, limits) = Invalid THEN Invalid ELSE m

Decode(frame, version, limits) ==
    IF \/ frame = Invalid \/ ~Header(frame, version, limits)
       \/ frame.checksum # Checksum(frame.version, frame.kind, frame.bytes, frame.body)
    THEN Invalid
    ELSE IF frame.kind \in {4, 6} THEN DecodeRecord(frame, version, limits)
    ELSE IF frame.kind \in {1, 10} THEN Validated(DecodeRequest(frame, version), version, limits)
    ELSE DecodeAnswer(frame)

\* InternalPhase::permits: the kinds the next frame of an operation may have.
Permits(phase, kind) ==
    \/ kind = 9 /\ phase # "ReplicaAck"
    \/ kind \in CASE phase = "Hello" -> {1}
                  [] phase = "ReplicaStart" -> {2, 3}
                  [] phase = "BackupStart" -> {3}
                  [] phase = "SnapshotEntry" -> {4}
                  [] phase = "SnapshotEnd" -> {5}
                  [] phase = "ReplicaStream" -> {6, 8}
                  [] phase = "ReplicaAck" -> {7}
                  [] phase = "Status" -> {14}
                  [] OTHER -> {13}

\* read_admitted_profile: the header, the admission of its kind, then the payload.
ReadFrame(frame, phase, version, limits) ==
    IF frame # Invalid /\ Header(frame, version, limits) /\ Permits(phase, frame.kind)
    THEN Decode(frame, version, limits)
    ELSE Invalid
=============================================================================
