------------------------------ MODULE MCRouterFace ------------------------------
(* A router with two back-end threads, and the settings it is started with.*)
EXTENDS RouterFace

CONSTANTS Bad, NotASequence

DefaultSettings ==
  [agent_port |-> <<"19567">>, agent_face |-> <<"zeromq">>, worker_threads |-> <<"4">>,
   mq_face |-> <<"rabbitmq">>, mq_broker |-> << >>, consumption_queues |-> <<"yella.agent.configuration">>]

C == INSTANCE RouterConfiguration WITH Defaults <- DefaultSettings

Given(key) ==
  IF key = "consumption_queues" THEN {<< >>, <<"q", "r">>, <<"q", Bad, "r">>, NotASequence} ELSE {<<"given">>, Bad}

(* Files and command lines with two or three of the settings.              *)
Said(keys) == UNION {[K -> UNION {Given(k) : k \in K}] : K \in SUBSET keys}
WellKeyed(said) == \A k \in DOMAIN said : said[k] \in Given(k)
ConfigFiles == {f \in Said({"agent_port", "mq_broker", "consumption_queues"}) : WellKeyed(f)}
CommandLines == {o \in Said({"agent_port", "mq_broker"}) : WellKeyed(o)}

(* What is wrong at one place of the file hides only what is looked for    *)
(* after it; the command line has the last word.                           *)
ASSUME ConfigurationAsSaid ==
  \A f \in ConfigFiles, o \in CommandLines :
    LET set == C!Configuration(f, o)
        Wrong(k) == k \in DOMAIN f /\ (f[k] = Bad \/ f[k] = <<"q", Bad, "r">>)
        Reached(k) == \A i, j \in DOMAIN C!InOrder : C!InOrder[j] = k /\ i < j => ~ Wrong(C!InOrder[i])
        Counts(k) == k \in DOMAIN f /\ Reached(k) /\ ~ Wrong(k) /\ f[k] # NotASequence
    IN  IF set = None
        THEN \/ \E k \in DOMAIN o : o[k] = Bad
             \/ "mq_broker" \notin DOMAIN o /\ ~ Counts("mq_broker")
        ELSE \A k \in DOMAIN DefaultSettings :
               set[k] = IF k \in DOMAIN o THEN o[k]
                        ELSE IF Counts(k) THEN f[k]
                        ELSE IF k = "consumption_queues" /\ Wrong(k) /\ Reached(k) THEN <<"q">>
                        ELSE DefaultSettings[k]

================================================================================
