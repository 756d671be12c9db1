-------------------------------- MODULE Codec --------------------------------
(***************************************************************************)
(* What a payload goes through: Serializer and Compressor at the sender,   *)
(* their inverses at the receiver, which uses its own configuration and    *)
(* never looks at the ids in the header.                                   *)
(*                                                                         *)
(* A JSON value is a record of a kind: null, a number, a text, an array of *)
(* values or an object, whose members are pairs of a key and a value.  A   *)
(* payload that is not JSON is of kind "raw".  CBOR is kept as a tree: the *)
(* head of a container with the items that follow it, keys and values in   *)
(* turn for a map, which is what the cursor of tinycbor walks over.        *)
(***************************************************************************)
EXTENDS Integers, Sequences

CONSTANTS IntRange,    \* 2^64: CBOR integers are taken as int64_t
          MaxDepth     \* bound: containers within each other

ASSUME CodecAssumption ==
  IntRange \in Nat \ {0} /\ IntRange % 2 = 0 /\ MaxDepth \in Nat

Null == [kind |-> "null"]
Num(n) == [kind |-> "number", n |-> n]
Text(t) == [kind |-> "text", text |-> t]
Array(s) == [kind |-> "array", items |-> s]
Object(ms) == [kind |-> "object", members |-> ms]
Map(s) == [kind |-> "map", items |-> s]
Raw(b) == [kind |-> "raw", bytes |-> b]

Failed == [kind |-> "failed"]
(* What comes out where the code reads a key that is no text.              *)
Garbage == [kind |-> "garbage"]

(* The records of a payload file.  A JSON file is a value, of which an      *)
(* array has its elements as records; other files have lines or documents, *)
(* one record each, which CBOR cannot parse as JSON.                       *)
RecordsOf(format, file) ==
  CASE format = "random" -> <<Raw("random")>>
    [] format = "binary" -> <<Raw(file)>>
    [] format = "json"   -> IF file.kind = "array" THEN file.items ELSE <<file>>
    [] OTHER -> LET lines == SelectSeq(file.lines, LAMBDA l : l # "")
                IN [i \in DOMAIN lines |-> Raw(lines[i])]

IsContainer(v) == v.kind \in {"array", "object", "map"}

-----------------------------------------------------------------------------
(* CBOR                                                                    *)

(* The values with at most d containers within each other, JSON and CBOR.  *)
Scalars ==
  {Null} \cup [kind : {"text"}, text : STRING]
    \cup [kind : {"number"}, n : -(IntRange \div 2) .. IntRange - 1]

Json[d \in 0 .. MaxDepth] ==
  IF d = 0 THEN Scalars
  ELSE Scalars \cup [kind : {"array"}, items : Seq(Json[d - 1])]
         \cup [kind : {"object"}, members : Seq(STRING \X Json[d - 1])]

Cbor[d \in 0 .. MaxDepth] ==
  IF d = 0 THEN Scalars
  ELSE Scalars \cup [kind : {"array", "map"}, items : Seq(Cbor[d - 1])]

Signed(n) == ((n + IntRange \div 2) % IntRange) - IntRange \div 2

EncodeItems(items, encode) == [i \in DOMAIN items |-> encode[items[i]]]

(* A map holds the keys and the values of an object in turn.               *)
EncodeMembers(members, encode) ==
  [i \in 1 .. 2 * Len(members) |->
     IF i % 2 = 1 THEN Text(members[(i + 1) \div 2][1]) ELSE encode[members[i \div 2][2]]]

EncodeValue[d \in 0 .. MaxDepth] ==
  [v \in Json[d] |->
     CASE v.kind = "array"  -> Array(EncodeItems(v.items, EncodeValue[d - 1]))
       [] v.kind = "object" -> Map(EncodeMembers(v.members, EncodeValue[d - 1]))
       [] v.kind = "number" -> Num(Signed(v.n))
       [] OTHER             -> v]

(* Where the cursor is after the item it is at.  leave_container has moved *)
(* it past a nested container already, and advance moves it once more.     *)
Advance(items, i) == i + (IF IsContainer(items[i]) THEN 2 ELSE 1)

DecodeItems(items, decode) ==
  LET from[i \in 1 .. Len(items) + 2] ==
        IF i > Len(items) THEN <<>>
        ELSE <<decode[items[i]]>> \o from[Advance(items, i)]
  IN from[1]

(* A key that is last has no value; one that is no text is undefined.      *)
DecodeMembers(items, decode) ==
  LET from[i \in 1 .. Len(items) + 2] ==
        IF i > Len(items) THEN <<>>
        ELSE IF items[i].kind # "text" THEN <<<<"", Garbage>>>>
        ELSE IF i = Len(items) THEN <<<<items[i].text, Null>>>>
        ELSE <<<<items[i].text, decode[items[i + 1]]>>>> \o from[Advance(items, i + 1)]
  IN from[1]

DecodeValue[d \in 0 .. MaxDepth] ==
  [c \in Cbor[d] |->
     CASE c.kind = "array" -> Array(DecodeItems(c.items, DecodeValue[d - 1]))
       [] c.kind = "map"   -> Object(DecodeMembers(c.items, DecodeValue[d - 1]))
       [] OTHER            -> c]

-----------------------------------------------------------------------------
(* The two stages of either side                                           *)

Bytes(form, content) == [kind |-> form, content |-> content]

Serialize(serializer, format, payload) ==
  CASE serializer = "none"     -> payload
    [] serializer = "protobuf" -> [kind |-> "protobuf", content |-> payload, format |-> format]
    [] serializer = "cbor"     -> IF payload.kind = "raw" THEN Failed
                                  ELSE Bytes("cbor", EncodeValue[MaxDepth][payload])

(* Mutant: a dictionary is used to decompress alone.                       *)
CompressPlain(compression, dict, bytes) ==
  IF compression = "zstd" THEN [kind |-> "zstd", dict |-> "", content |-> bytes] ELSE bytes

Compress(compression, dict, bytes) ==
  IF compression = "zstd" THEN [kind |-> "zstd", dict |-> dict, content |-> bytes] ELSE bytes

(* Zstd fails on what is no frame of its own or of another dictionary.     *)
Decompress(compression, dict, bytes) ==
  IF compression = "none" THEN bytes
  ELSE IF bytes.kind = "zstd" /\ bytes.dict = dict THEN bytes.content
  ELSE Failed

(* Protobuf and CBOR given other bytes may fail or find something in them. *)
Deserializations(serializer, bytes) ==
  CASE serializer = "none" -> {bytes}
    [] serializer = "protobuf" ->
         IF bytes.kind = "protobuf" THEN {bytes.content} ELSE {Failed, Garbage}
    [] serializer = "cbor" ->
         IF bytes.kind = "cbor" THEN {DecodeValue[MaxDepth][bytes.content]} ELSE {Failed, Garbage}

(* Sender::send, and what the receiver's compute makes of it.              *)
Encoded(c, payload) ==
  LET bytes == Serialize(c.serializer, c.format, payload)
  IN IF bytes = Failed THEN Failed ELSE Compress(c.compression, c.dict, bytes)

Decodings(c, wire) ==
  LET bytes == Decompress(c.compression, c.dict, wire)
  IN IF bytes = Failed THEN {Failed} ELSE Deserializations(c.serializer, bytes)
===============================================================================
