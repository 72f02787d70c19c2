-------------------------------- MODULE Settings --------------------------------
(***************************************************************************)
(* The settings (common/settings.c): what is set, what is read from the    *)
(* configuration file, and what a getter returns.                          *)
(*                                                                         *)
(* A document is, as in libyaml, the sequence of its nodes, and the first  *)
(* is the root.  A node is a record: kind is "scalar", "mapping" or        *)
(* "sequence"; a scalar has a text, a mapping pairs, key and value, and a  *)
(* sequence items, which are numbers of nodes.  A node may be in several   *)
(* (an alias), but not in itself: handle_yaml_node would not return.  The  *)
(* text of a key is a string, that of a value the sequence of its          *)
(* characters, where a word that means nothing to the code counts as one   *)
(* character.                                                              *)
(***************************************************************************)
EXTENDS FileNames

CONSTANTS
  Kilo,        (* the bytes of a kilobyte; a byte size is read into a      *)
               (* uint32_t, which counts to four gigabytes                 *)
  Characters,  (* those of the texts                                       *)
  Null         (* no file, no document, no value                           *)

ASSUME SettingsAssumption ==
  /\ Kilo \in Nat /\ Kilo > 1
  /\ Null \notin Nat /\ Null \notin Seq(Characters)

SettingTypes == {"text", "uint", "dir", "byte_size"}

(* The settings are a function of their section and key; each has a value  *)
(* and a type.                                                             *)
NoSettings == << >>

(* get_value                                                               *)
Get(s, sct, key, type) ==
  IF <<sct, key>> \in DOMAIN s /\ s[<<sct, key>>].type = type THEN s[<<sct, key>>].value ELSE Null

-----------------------------------------------------------------------------
(* Setting                                                                 *)

(* What is there already keeps its type.                                   *)
Valued(s, k, val, type) == [value |-> val, type |-> IF k \in DOMAIN s THEN s[k].type ELSE type]

(* Slip: what is set stays as it is.                                       *)
SetOnce(s, sct, key, val, type) ==
  LET k == <<sct, key>>
  IN  [j \in DOMAIN s \union {k} |-> IF j \in DOMAIN s THEN s[j] ELSE Valued(s, k, val, type)]

(* set_text_impl and set_uint_impl                                         *)
Set(s, sct, key, val, type) ==
  LET k == <<sct, key>>
  IN  [j \in DOMAIN s \union {k} |-> IF j = k THEN Valued(s, k, val, type) ELSE s[j]]

Digits == <<"0", "1", "2", "3", "4", "5", "6", "7", "8", "9">>

DigitValues == [d \in ToSet(Digits) |-> CHOOSE n \in 0..9 : Digits[n + 1] = d]

(* How many of the characters C a text begins with, and how many digits.   *)
Leading(t, C) ==
  CHOOSE n \in 0..Len(t) : /\ \A i \in 1..n : t[i] \in C
                           /\ n < Len(t) => t[n + 1] \notin C

DigitCount(t) == Leading(t, DOMAIN DigitValues)

(* The number a text begins with, zero if it begins with none.             *)
Number(t) ==
  LET number[k \in 0..DigitCount(t)] ==
        IF k = 0 THEN 0 ELSE 10 * number[k - 1] + DigitValues[t[k]]
  IN  number[DigitCount(t)]

Mega == Kilo * Kilo
Giga == Kilo * Mega

UInt64 == (4 * Giga) * (4 * Giga)

(* strtoull: spaces go before the number, and a sign may; a minus has its  *)
(* remainder taken, and a number that is too big is the greatest one.      *)
Strtoull(t) ==
  LET rest == SubSeq(t, Leading(t, {" "}) + 1, Len(t))
      signed == rest # << >> /\ rest[1] \in {"+", "-"}
      n == Number(IF signed THEN Tail(rest) ELSE rest)
  IN  IF n >= UInt64 THEN UInt64 - 1
      ELSE IF signed /\ rest[1] = "-" THEN (UInt64 - n) % UInt64 ELSE n

(* The bytes of what a suffix stands for.                                  *)
Units ==
  [u \in {"b", "B", "k", "K", "m", "M", "g", "G"} |->
     IF u \in {"b", "B"} THEN 1 ELSE IF u \in {"k", "K"} THEN Kilo
     ELSE IF u \in {"m", "M"} THEN Mega ELSE Giga]

(* yella_settings_set_byte_size: the bytes, or zero.  The suffix is a      *)
(* letter, and a b after any other one.                                    *)
ByteSize(t) ==
  LET suffix == SubSeq(t, DigitCount(t) + 1, Len(t))
      valid == /\ Len(suffix) < 3 /\ suffix[1] \in DOMAIN Units
               /\ Len(suffix) = 2 => Units[suffix[1]] > 1 /\ suffix[2] \in {"b", "B"}
      uint32 == 4 * Giga
  IN  IF DigitCount(t) = 0 THEN 0
      ELSE IF suffix = << >> THEN Number(t) % uint32
      ELSE IF ~ valid THEN 0
      ELSE (Number(t) * Units[suffix[1]]) % uint32

(* What comes to zero is not set.                                          *)
SetByteSize(s, sct, key, t) ==
  IF ByteSize(t) = 0 THEN s ELSE Set(s, sct, key, ByteSize(t), "byte_size")

DirText(t) ==
  LET actual == RemoveDuplicateDirSeps(t)
  IN  IF actual # << >> /\ Last(actual) # Sep THEN Append(actual, Sep) ELSE actual

SetDir(s, sct, key, t) == Set(s, sct, key, DirText(t), "dir")

SetText(s, sct, key, t) == Set(s, sct, key, t, "text")

SetUint(s, sct, key, n) == Set(s, sct, key, n, "uint")

(* handle_yaml_node, of a scalar with a description                        *)
SetScalar(s, sct, desc, t) ==
  IF desc.type = "byte_size" THEN SetByteSize(s, sct, desc.key, t)
  ELSE IF desc.type = "dir" THEN SetDir(s, sct, desc.key, t)
  ELSE IF desc.type = "text" THEN SetText(s, sct, desc.key, t)
  ELSE SetUint(s, sct, desc.key, Strtoull(t))

-----------------------------------------------------------------------------
(* Documents                                                               *)

(* The nodes that are in a node.                                           *)
NodesIn(doc, n) ==
  IF doc[n].kind = "mapping" THEN {p.value : p \in ToSet(doc[n].pairs)}
  ELSE IF doc[n].kind = "sequence" THEN ToSet(doc[n].items)
  ELSE {}

(* The nodes that have at most k levels of nodes in them.                  *)
Levels(doc) ==
  LET levels[k \in 0..Len(doc)] ==
        IF k = 0 THEN {} ELSE LET below == levels[k - 1] IN {n \in DOMAIN doc : NodesIn(doc, n) \subseteq below}
  IN  levels

IsDocument(doc) ==
  /\ Len(doc) \in Nat /\ doc = [n \in 1..Len(doc) |-> doc[n]]
  /\ \A n \in DOMAIN doc :
       /\ doc[n].kind \in {"scalar", "mapping", "sequence"}
       /\ doc[n].kind = "mapping" => doc[n].pairs \in Seq([key : DOMAIN doc, value : DOMAIN doc])
       /\ doc[n].kind = "sequence" => doc[n].items \in Seq(DOMAIN doc)
       /\ \A m \in NodesIn(doc, n) : doc[m].kind = "scalar" => doc[m].text \in Seq(Characters)
  /\ Levels(doc)[Len(doc)] = DOMAIN doc

-----------------------------------------------------------------------------
(* The configuration file                                                  *)

(* What is read from a scalar under the key k: one setting or none.        *)
Read(descs, k, node) ==
  LET described == {d \in descs : d.key = k}
  IN  IF described = {} \/ node.kind # "scalar" THEN << >>
      ELSE <<[desc |-> CHOOSE d \in described : TRUE, text |-> node.text]>>

(* handle_yaml_node, of node n: what is read for a section, in that order, *)
(* with what is read from its nodes.  A mapping is entered if its key is   *)
(* the section, whatever it is itself in; a sequence always is.            *)
ReadAt(doc, sct, descs, n, read) ==
  LET FromPair(p) ==
        LET key == doc[p.key] IN
        IF key.kind # "scalar" THEN << >>
        ELSE IF key.text = sct THEN read[p.value]
        ELSE Read(descs, key.text, doc[p.value])
  IN  IF doc[n].kind = "mapping" THEN FlattenSeq([i \in DOMAIN doc[n].pairs |-> FromPair(doc[n].pairs[i])])
      ELSE IF doc[n].kind = "sequence" THEN FlattenSeq([i \in DOMAIN doc[n].items |-> read[doc[n].items[i]]])
      ELSE << >>

HandleYamlNode(doc, sct, descs) ==
  LET read[n \in DOMAIN doc] == ReadAt(doc, sct, descs, n, read)
  IN  IF doc = << >> THEN << >> ELSE read[1]

(* yella_retrieve_settings                                                 *)
RetrieveSettings(s, doc, sct, descs) ==
  IF doc = Null THEN s
  ELSE LET reads == HandleYamlNode(doc, sct, descs)
           after[k \in 0 .. Len(reads)] ==
             IF k = 0 THEN s ELSE SetScalar(after[k - 1], sct, reads[k].desc, reads[k].text)
       IN  after[Len(reads)]

(* yella_load_settings_doc: the document, or none if there is no file, or  *)
(* one that is too big, cannot be read or has no valid contents.           *)
LoadSettingsDoc(file) ==
  IF file = Null \/ file.big \/ ~ file.readable THEN Null ELSE file.doc

-----------------------------------------------------------------------------
(* What the agent and its file plugin set                                  *)

Desc(key, type) == [key |-> key, type |-> type]

(* yella_initialize_platform_settings                                      *)
PlatformSettings(prefix) ==
  LET var == <<Sep, "var", Sep>>
      s1 == SetText(NoSettings, "agent", "config-file", <<Sep, "etc", Sep, "yella.yaml">>)
      s2 == SetDir(s1, "agent", "data-dir", var \o <<"lib", Sep, "yella">>)
      s3 == SetDir(s2, "agent", "spool-dir", var \o <<"spool", Sep, "yella">>)
      s4 == SetDir(s3, "agent", "plugin-dir", prefix \o <<Sep, "plugin">>)
  IN  SetDir(s4, "agent", "bin-dir", prefix \o <<Sep, "bin">>)

AgentDescs ==
  {Desc(k, "dir") : k \in {"data-dir", "plugin-dir", "spool-dir", "bin-dir"}}
    \union {Desc(k, "text") : k \in {"router", "heartbeat-recipient"}}
    \union {Desc(k, "uint") : k \in {"max-spool-partitions", "max-spool-partition-size",
              "heartbeat-seconds", "start-connection-seconds", "max-message-size",
              "reconnect-timeout-seconds", "poll-milliseconds"}}

AgentDefaults(s) ==
  LET s1 == SetUint(s, "agent", "max-spool-partitions", 1000)
      s2 == SetByteSize(s1, "agent", "max-spool-partition-size", <<"2", "M">>)
      s3 == SetUint(s2, "agent", "heartbeat-seconds", 30)
      s4 == SetUint(s3, "agent", "start-connection-seconds", 2)
      s5 == SetByteSize(s4, "agent", "max-message-size", <<"1", "M">>)
      s6 == SetUint(s5, "agent", "reconnect-timeout-seconds", 5)
      s7 == SetUint(s6, "agent", "poll-milliseconds", 500)
  IN  SetText(s7, "agent", "heartbeat-recipient", <<"yella.stethoscope">>)

(* Slip: the file is read before the defaults are set.                     *)
RetrievedFirst(s, doc) == AgentDefaults(RetrieveSettings(s, doc, "agent", AgentDescs))

RetrieveAgentSettings(s, doc) == RetrieveSettings(AgentDefaults(s), doc, "agent", AgentDescs)

FileDescs ==
  {Desc("data-dir", "dir")}
    \union {Desc(k, "uint") : k \in {"max-spool-dbs", "fs-monitor-latency-seconds",
                                     "send-latency-seconds", "max-queued-jobs"}}

FileDefaults(s) ==
  LET s1 == SetDir(s, "file", "data-dir", Append(Get(s, "agent", "data-dir", "dir"), "file"))
      s2 == SetUint(s1, "file", "max-spool-dbs", 100)
      s3 == SetUint(s2, "file", "fs-monitor-latency-seconds", 5)
      s4 == SetUint(s3, "file", "send-latency-seconds", 15)
  IN  SetUint(s4, "file", "max-queued-jobs", 10000)

RetrieveFileSettings(s, doc) == RetrieveSettings(FileDefaults(s), doc, "file", FileDescs)

-----------------------------------------------------------------------------
(* What a document says                                                    *)

(* Where a scalar is: under a key, one that is no scalar like all others,  *)
(* or an item of a sequence.                                               *)
KeyStep(node) == IF node.kind = "scalar" THEN <<"key", node.text>> ELSE <<"no key">>
ItemStep == <<"item">>

Under(step, lines) == [i \in DOMAIN lines |-> [path |-> <<step>> \o lines[i].path, text |-> lines[i].text]]

(* The scalars of a document in their order, each with its way from the    *)
(* root.                                                                   *)
LinesAt(doc, n, lines) ==
  LET node == doc[n]
      OfItem(m) == Under(ItemStep, lines[m])
      OfPair(p) == Under(KeyStep(doc[p.key]), lines[p.value])
  IN  IF node.kind = "mapping" THEN FlattenSeq([i \in DOMAIN node.pairs |-> OfPair(node.pairs[i])])
      ELSE IF node.kind = "sequence" THEN FlattenSeq([i \in DOMAIN node.items |-> OfItem(node.items[i])])
      ELSE <<[path |-> << >>, text |-> node.text]>>

Lines(doc) ==
  LET lines[n \in DOMAIN doc] == LinesAt(doc, n, lines)
  IN  IF doc \in {Null, << >>} THEN << >> ELSE lines[1]

(* What is written for a key of a section: under no other key.             *)
InPlace(path, sct, key) ==
  /\ path # << >> /\ Last(path) = <<"key", key>>
  /\ ToSet(Front(path)) \subseteq {<<"key", sct>>, ItemStep}

Written(lines, sct, key) == {i \in DOMAIN lines : InPlace(lines[i].path, sct, key)}

(* The value a text stands for.                                            *)
Meaning(type, t) ==
  IF type = "uint" THEN Strtoull(t) ELSE IF type = "dir" THEN DirText(t) ELSE t

(* The value of a setting in s is what was written last for it, or its     *)
(* default.                                                                *)
AsWritten(s, default, lines, sct, d) ==
  LET key == <<sct, d.key>>
      written == Written(lines, sct, d.key)
  IN  IF written # {} THEN s[key].value = Meaning(d.type, lines[Max(written)].text)
      ELSE IF key \in DOMAIN default THEN s[key] = default[key]
      ELSE key \notin DOMAIN s

================================================================================
