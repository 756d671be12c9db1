----------------------------- MODULE PureFunctions -----------------------------
(***************************************************************************)
(* The parts of the program without a state of their own, each against a   *)
(* definition of what it should compute: the statistics of summary.json    *)
(* over sequences of samples, the configuration that config.json records   *)
(* over command lines and files, the serializers and compressors over      *)
(* payload files.  A behaviour calls one of them once.                     *)
(***************************************************************************)
EXTENDS Statistics, Configuration, Codec, FiniteSetsExt

CONSTANTS Samples, MaxSamples,   \* values and bound of a sequence of samples
          Settings,              \* what a command line or a file may set
          Numbers, Words,        \* scalars of JSON values
          Keys,                  \* the keys of an object, in ascending order
          MaxItems               \* bound: items of an array or an object

ASSUME FunctionsAssumption ==
  /\ Samples \subseteq Int /\ MaxSamples \in Nat
  /\ \A n \in 1 .. MaxSamples : Scale % n = 0
  /\ \A s \in Settings : \A f \in DOMAIN s : f = "port" \/ f \in Counts => s[f] \in Int
  /\ Numbers \subseteq -(IntRange \div 2) .. IntRange - 1
  /\ Words \subseteq STRING /\ Keys \in Seq(STRING)
  /\ MaxItems \in 1 .. Len(Keys) /\ MaxDepth >= 2

VARIABLES call,     \* the function and its input
          done

callVars == <<call, done>>

NoCall == call = [of |-> "none"] /\ done = FALSE

Call(c) == call' = c /\ done' = TRUE

CallCompute ==
  \E s \in SeqOf(Samples, MaxSamples) : Call([of |-> "compute", samples |-> s])

CallConfigure ==
  \E cli \in Settings, files \in {<<>>} \cup {<<s>> : s \in Settings} :
    DOMAIN cli \subseteq Options /\ Call([of |-> "configure", cli |-> cli, files |-> files])

-----------------------------------------------------------------------------
(* Payloads: arrays and objects over given values.                         *)

Atoms == {Null} \cup {Num(n) : n \in Numbers} \cup {Text(t) : t \in Words}

Containers(values) ==
  {Array(s) : s \in SeqOf(values, MaxItems)}
    \cup {Object([i \in DOMAIN s |-> <<Keys[i], s[i]>>]) : s \in SeqOf(values, MaxItems)}

Payloads ==
  Atoms \cup Containers(Atoms \cup {Array(<<>>), Object(<<<<Keys[1], Null>>>>)})
    \cup {Array(<<o>>) : o \in Containers(Atoms)}

(* A JSON file; lines, some of them empty.                                 *)
PayloadFiles ==
  Payloads \cup {[kind |-> "lines", lines |-> s] : s \in SeqOf({"", "l"}, MaxItems)}

Codings ==
  [serializer : {"none", "cbor", "protobuf"}, compression : {"none", "zstd"},
   dict : {Empty, "dict"}, format : {"json", "kv", "binary", "random"}]

Fits(c, file) == c.format \in {"json", "kv"} => (file.kind = "lines" <=> c.format = "kv")

CallCodec ==
  \E c \in Codings, file \in PayloadFiles :
    Fits(c, file) /\ Call([of |-> "codec", coding |-> c, file |-> file])

CallFunction == ~done /\ (CallCompute \/ CallConfigure \/ CallCodec)

FunctionsSpec == NoCall /\ [][CallFunction]_callVars

-----------------------------------------------------------------------------
(* Properties                                                              *)

Sum(samples) == FoldLeft(+, 0, samples)
SquaredDeviations(samples, mean) ==
  FoldLeft(LAMBDA sum, x : sum + (Scale * x - mean) * (Scale * x - mean), 0, samples)

(* One pass of Welford over the samples, in whatever order they come,      *)
(* gives the mean and the sum of squares that two passes would.            *)
WelfordIsTwoPass ==
  call.of = "compute" =>
    LET acc == Welford(call.samples)
    IN /\ acc.n * acc.mean = Scale * Sum(call.samples)
       /\ acc.m2 = SquaredDeviations(call.samples, acc.mean)

(* The reported percentiles are in order between the least and the largest *)
(* sample, and the middle one is at least half the samples on either side. *)
PercentilesInOrder ==
  call.of = "compute" /\ call.samples # <<>> =>
    LET s == Compute(call.samples)
        Share(P(_)) == Cardinality({i \in DOMAIN call.samples : P(1000 * call.samples[i])})
    IN /\ 1000 * s.min <= s.p50 /\ s.p50 <= s.p95 /\ s.p95 <= s.p99
       /\ s.p99 <= s.p999 /\ s.p999 <= 1000 * s.max
       /\ 2 * Share(LAMBDA v : v <= s.p50) >= Len(call.samples)
       /\ 2 * Share(LAMBDA v : v >= s.p50) >= Len(call.samples)

Unset == [f \in {} |-> 0]
Recorded(c) == Over(ToJson(c), [m \in {"run_id"} |-> "run"])

(* config.json reproduces the run: given back with --config and the same   *)
(* run id it makes the same configuration in the same folder, however that *)
(* was put together, and it is accepted again.                             *)
RecordedConfigReproduces ==
  call.of = "configure" =>
    LET c == Effective(call.cli, call.files)
        again == Effective(Unset, <<Recorded(c)>>)
    IN c # Invalid /\ Accepted(c) =>
         again = c /\ Accepted(again) /\ FolderName("run", again) = FolderName("run", c)

(* Whether a JSON value comes through CBOR: no container stands before     *)
(* another item, and no number is beyond the signed range.                 *)
Survives[d \in 0 .. MaxDepth] ==
  [v \in Json[d] |->
     LET items == CASE v.kind = "array"  -> v.items
                    [] v.kind = "object" -> [i \in DOMAIN v.members |-> v.members[i][2]]
                    [] OTHER -> <<>>
     IN /\ \A i \in DOMAIN items :
             Survives[d - 1][items[i]] /\ (IsContainer(items[i]) => i = Len(items))
        /\ v.kind = "number" => v.n < IntRange \div 2]

(* A receiver configured like the sender gets back each record that was    *)
(* serialised: with CBOR exactly if in each container only the last item   *)
(* is a container itself and no number needs the 64th bit.  With CBOR no   *)
(* record of a file that is not JSON is ever sent, key-value files, which  *)
(* validate() lets through, among them.                                    *)
PayloadComesBack ==
  call.of = "codec" =>
    LET records == RecordsOf(call.coding.format, call.file)
        cbor == call.coding.serializer = "cbor"
    IN \A k \in DOMAIN records :
         LET wire == Encoded(call.coding, records[k])
         IN IF cbor /\ call.coding.format # "json" THEN wire = Failed
            ELSE Decodings(call.coding, wire) = {records[k]}
                   <=> (cbor => Survives[MaxDepth][records[k]])
===============================================================================
