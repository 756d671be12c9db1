---------------------------- MODULE Configuration ----------------------------
(***************************************************************************)
(* BenchmarkConfig: its fields with their defaults, the two ways it comes  *)
(* into being (command line over file over default), what validate lets    *)
(* through, and its conversion to and from config.json.                    *)
(*                                                                         *)
(* A configuration is a record with one field per member.  Enumerations    *)
(* are their numbers, integers keep their width; the other strings and the *)
(* metadata are opaque, the empty ones being the constant Empty.           *)
(***************************************************************************)
EXTENDS Integers, Sequences

CONSTANTS PortRange,     \* 2^16, the values of a uint16_t
          CountRange,    \* 2^32, the values of a uint32_t
          MinMtu,        \* sizeof(WireHeader) + 24 + 1
          Empty,         \* the empty string, and no metadata
          Invalid        \* what from_json returns in place of a configuration

ASSUME ConfigurationAssumption ==
  /\ PortRange \in Nat /\ CountRange \in Nat /\ MinMtu \in Nat
  /\ 9000 < PortRange /\ 1472 < CountRange     \* the defaults have room

(* The enumerations of Types.hpp, each value at its place counted from 0.  *)
Names ==
  [protocol       |-> <<"mqtt_tcp", "zmq_tcp", "tcp", "udp">>,
   serializer     |-> <<"none", "cbor", "protobuf">>,
   compression    |-> <<"none", "zstd">>,
   payload_format |-> <<"text", "json", "yaml", "kv", "binary", "random">>,
   mqtt_qos       |-> <<"0", "1", "2">>,
   zmq_pattern    |-> <<"push_pull", "pub_sub">>]

Enums == DOMAIN Names
Counts == {"payload_size_bytes", "message_rate_hz", "duration_s", "warmup_s",
           "receiver_timeout_extra_s", "udp_mtu"}
Texts == {"host", "zstd_dict_path", "payload_file", "mqtt_topic", "zmq_topic"}
Fields == Enums \cup Counts \cup Texts \cup {"port", "metadata"}

(* What to_string and the ..._from_string functions do.  The latter throw  *)
(* on a name they do not know.                                             *)
EnumName(f, v) == Names[f][v + 1]
Known(f, s) == \E i \in DOMAIN Names[f] : Names[f][i] = s
Enum(f, s) == (CHOOSE i \in DOMAIN Names[f] : Names[f][i] = s) - 1

Defaults ==
  [protocol |-> Enum("protocol", "tcp"), serializer |-> Enum("serializer", "none"),
   compression |-> Enum("compression", "none"),
   payload_format |-> Enum("payload_format", "random"),
   mqtt_qos |-> Enum("mqtt_qos", "0"), zmq_pattern |-> Enum("zmq_pattern", "push_pull"),
   host |-> "localhost", port |-> 9000, zstd_dict_path |-> Empty, payload_file |-> Empty,
   mqtt_topic |-> "pbt/bench", zmq_topic |-> Empty,
   payload_size_bytes |-> 256, message_rate_hz |-> 100, duration_s |-> 30, warmup_s |-> 5,
   receiver_timeout_extra_s |-> 5, udp_mtu |-> 1472, metadata |-> Empty]

(* The members of both, those of f before those of g.                      *)
Over(f, g) == [m \in DOMAIN f \cup DOMAIN g |-> IF m \in DOMAIN f THEN f[m] ELSE g[m]]

(* An integer given as text or in JSON becomes unsigned of a fixed width.  *)
Fit(f, v) ==
  IF f = "port" THEN v % PortRange ELSE IF f \in Counts THEN v % CountRange ELSE v

-----------------------------------------------------------------------------
(* config.json                                                             *)

ToJson(c) == [f \in Fields |-> IF f \in Enums THEN EnumName(f, c[f]) ELSE c[f]]

Readable(j) == \A f \in Enums \cap DOMAIN j : Known(f, j[f])

ReadField(f, v) == IF f \in Enums THEN Enum(f, v) ELSE Fit(f, v)

(* Mutant: the topic of ZeroMQ is not read back.                           *)
FromJsonButTopic(j) ==
  IF ~Readable(j) THEN Invalid
  ELSE Over([f \in (DOMAIN j \cap Fields) \ {"zmq_topic"} |-> ReadField(f, j[f])], Defaults)

(* Members that are not there keep their defaults, others are ignored.     *)
FromJson(j) ==
  IF ~Readable(j) THEN Invalid
  ELSE Over([f \in DOMAIN j \cap Fields |-> ReadField(f, j[f])], Defaults)

-----------------------------------------------------------------------------
(* The command line                                                        *)

(* Options that are given with a name or a number that is no good end the  *)
(* program; udp_mtu has no option.                                         *)
Options == Fields \ {"udp_mtu"}

Parse(cli) == [f \in DOMAIN cli |-> ReadField(f, cli[f])]

MergeMetadata(over, under) ==
  IF over = Empty THEN under ELSE IF under = Empty THEN over ELSE Over(over, under)

Override(cli, c) ==
  LET given == Parse(cli)
  IN [f \in Fields |->
        IF f \notin DOMAIN given THEN c[f]
        ELSE IF f = "metadata" THEN MergeMetadata(given[f], c[f])
        ELSE given[f]]

(* The configuration main runs with, before validation; files holds what   *)
(* --config names, if that was given.                                      *)
Effective(cli, files) ==
  IF ~Readable(cli) THEN Invalid
  ELSE IF files = <<>> THEN Override(cli, Defaults)
  ELSE IF FromJson(files[1]) = Invalid THEN Invalid
  ELSE Override(cli, FromJson(files[1]))

(* validate(): CBOR wants a payload it can parse, whether there is one or  *)
(* not; the burst rate, zero, is let through.                              *)
Accepted(c) ==
  /\ c.serializer = Enum("serializer", "cbor") =>
       \E s \in {"json", "yaml", "kv"} : c.payload_format = Enum("payload_format", s)
  /\ c.port # 0
  /\ c.duration_s # 0
  /\ c.udp_mtu >= MinMtu

-----------------------------------------------------------------------------
(* What the rest of the program derives from it                            *)

(* The parts run_folder_name joins: of a dictionary only that there is one *)
FolderName(run, c) ==
  <<run, EnumName("protocol", c.protocol), EnumName("serializer", c.serializer),
    EnumName("compression", c.compression), c.zstd_dict_path # Empty>>
===============================================================================
