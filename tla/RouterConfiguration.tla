-------------------------- MODULE RouterConfiguration --------------------------
(***************************************************************************)
(* What the router process is configured with, router/configuration.cpp:   *)
(* its defaults, what the file says, as far as it can be read, and what    *)
(* the command line says.                                                  *)
(*                                                                         *)
(* The file, and the command line, are functions from the settings that    *)
(* are in them to what they say, a list of words, which is of one word but *)
(* for the queues, and empty for an empty text.  Bad is what has not the   *)
(* form it should, NotASequence a value for the queues that is no list.    *)
(***************************************************************************)
EXTENDS Sequences
LOCAL INSTANCE Naturals
LOCAL INSTANCE SequencesExt

CONSTANTS Defaults, None, Bad, NotASequence

(* The settings, in the order the file is looked at for them.              *)
InOrder == <<"agent_port", "agent_face", "worker_threads", "mq_face", "mq_broker", "consumption_queues">>

(* The items of a list up to the first that is not a name.                 *)
Queues(qs) ==
  LET bad == SelectInSeq(qs, LAMBDA q : q = Bad)
  IN  IF bad = 0 THEN qs ELSE SubSeq(qs, 1, bad - 1)

(* One setting of the file.                                                *)
Taken(r, key, value) ==
  IF value = NotASequence THEN r
  ELSE IF value = Bad THEN [r EXCEPT !.failed = TRUE]
  ELSE IF key # "consumption_queues" THEN [r EXCEPT !.set[key] = value]
  ELSE [set |-> [r.set EXCEPT ![key] = Queues(value)], failed |-> Queues(value) # value]

(* parse_config_file: after an exception the rest of the file is not looked*)
(* at, and what was set stays.                                             *)
ParseConfigFile(set, file) ==
  FoldLeft(LAMBDA r, key : IF r.failed \/ key \notin DOMAIN file THEN r ELSE Taken(r, key, file[key]),
           [set |-> set, failed |-> FALSE], InOrder).set

(* parse_command_line, with the file it names; None if the router does not *)
(* start, as an option is wrong or nothing says where the broker is.       *)
Configuration(file, options) ==
  LET read == ParseConfigFile(Defaults, file)
      set == [k \in DOMAIN read |-> IF k \in DOMAIN options THEN options[k] ELSE read[k]]
  IN  IF set["mq_broker"] = << >> \/ \E k \in DOMAIN options : options[k] = Bad THEN None ELSE set

================================================================================
