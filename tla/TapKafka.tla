------------------------------ MODULE TapKafka ------------------------------
(***************************************************************************)
(* tap-kafka: do_sync assigns the partitions of the topic from their       *)
(* bookmarks, or from initial_start_time where there is none, and          *)
(* read_kafka_messages polls them, committing offsets to the broker now    *)
(* and then whether or not the target has loaded the messages.             *)
(*                                                                         *)
(* A bookmark is the offset of the last message consumed, None is -1.      *)
(* Message retention is left out: the low watermark is 0.                  *)
(***************************************************************************)
EXTENDS Integers, FiniteSets, SingerPipe

CONSTANTS
    Partitions,
    Older,                 \* messages of each partition before a given start time
    SEND_STATE_PERIOD,
    MaxMessages, MaxDeaths    \* bounds of the model

VARIABLES
    produced,              \* messages in each partition, the high watermark
    initial_start_time,    \* "beginning", "earliest", "latest" or "timestamp"
    committed,             \* offset of the consumer group in the broker, or None
    begun,                 \* history: where a run without a bookmark last started, or None
    pc,                    \* "idle", "polling" or "closing"
    state,                 \* bookmarks in the memory of the tap
    position,              \* next offset of the consumer
    message,               \* the last message polled, <<partition, offset>>
    consumed_messages,
    deaths

kafkaVars == <<produced, initial_start_time, committed, begun, pc, state, position, message,
               consumed_messages, deaths, pipe>>

None      == -1
NoMessage == <<None, None>>
Larger(a, b) == IF a >= b THEN a ELSE b

Init ==
    /\ produced = [p \in Partitions |-> 0]
    /\ initial_start_time \in {"beginning", "earliest", "latest", "timestamp"}
    /\ committed = [p \in Partitions |-> None]
    /\ begun = committed
    /\ pc = "idle"
    /\ state = [p \in Partitions |-> None]
    /\ position = [p \in Partitions |-> 0]
    /\ message = NoMessage /\ consumed_messages = 0
    /\ deaths = 0
    /\ emitted = {} /\ loaded = {} /\ saved = state

Produce(p) ==
    /\ produced[p] < MaxMessages
    /\ produced' = [produced EXCEPT ![p] = @ + 1]
    /\ UNCHANGED <<initial_start_time, committed, begun, pc, state, position, message,
                   consumed_messages, deaths, pipe>>

\* An offset of -1 is the end of the partition to the consumer.
EndIfNone(o, p) == IF o = None THEN produced[p] ELSE o

\* offsets_for_times finds no offset, -1, unless there is a younger message.
OffsetForTime(p) == IF produced[p] > Older THEN Older ELSE None

InitialOffset(p) ==
    CASE initial_start_time = "beginning" -> 0
      [] initial_start_time = "earliest"  -> Larger(committed[p], 0)
      [] initial_start_time = "latest"    -> EndIfNone(produced[p] - 1, p)
      [] initial_start_time = "timestamp" -> Larger(OffsetForTime(p), 0)

\* Mutant: the broker knows the offset.
GroupOffset(st, p) == IF committed[p] # None THEN committed[p] ELSE InitialOffset(p)

\* set_partition_offsets
StartOffset(st, p) == IF st[p] # None THEN st[p] ELSE InitialOffset(p)

\* The partitions are assigned, and the offset before each is committed unless
\* one has none.
Assign ==
    /\ pc = "idle"
    /\ state' = saved
    /\ position' = [p \in Partitions |-> StartOffset(saved, p)]
    /\ begun' = [p \in Partitions |-> IF saved[p] = None THEN position'[p] ELSE begun[p]]
    /\ committed' = IF \A p \in Partitions : position'[p] >= 1
                    THEN [p \in Partitions |-> position'[p] - 1] ELSE committed
    /\ message' = NoMessage /\ consumed_messages' = 0
    /\ pc' = "polling"
    /\ UNCHANGED <<produced, initial_start_time, deaths, pipe>>

\* commit_consumer_to_bookmarked_state
Commit(st) == committed' = [p \in Partitions |-> IF st[p] = None THEN committed[p] ELSE st[p]]

\* A message: the record, the bookmark, perhaps a commit, now and then a STATE;
\* the loop also ends when max_runtime_ms is exceeded.
Poll(p) ==
    /\ pc = "polling" /\ position[p] < produced[p]
    /\ message' = <<p, position[p]>>
    /\ position' = [position EXCEPT ![p] = @ + 1]
    /\ state' = [state EXCEPT ![p] = position[p]]
    /\ Commit(state') \/ UNCHANGED committed
    /\ consumed_messages' = consumed_messages + 1
    /\ IF consumed_messages' % SEND_STATE_PERIOD = 0
       THEN RecordsAndState({message'}, state')
       ELSE Records({message'})
    /\ pc' \in {"polling", "closing"}
    /\ UNCHANGED <<produced, initial_start_time, begun, deaths>>

\* No message within consumer_timeout_ms.
StopPolling ==
    /\ pc = "polling"
    /\ pc' = "closing"
    /\ UNCHANGED <<produced, initial_start_time, committed, begun, state, position, message,
                   consumed_messages, deaths, pipe>>

Exit ==
    /\ pc' = "idle"
    /\ state' = saved'
    /\ position' = [p \in Partitions |-> 0]
    /\ message' = NoMessage /\ consumed_messages' = 0

\* The last STATE and the last commit, if there was a message at all.
Close ==
    /\ pc = "closing"
    /\ IF message = NoMessage
       THEN UNCHANGED <<committed, pipe>>
       ELSE RecordsAndLastState({}, state) /\ Commit(state)
    /\ Exit
    /\ UNCHANGED <<produced, initial_start_time, begun, deaths>>

Die ==
    /\ pc # "idle" /\ deaths < MaxDeaths
    /\ deaths' = deaths + 1
    /\ Lost /\ Exit
    /\ UNCHANGED <<produced, initial_start_time, committed, begun>>

Next ==
    \/ \E p \in Partitions : Produce(p) \/ Poll(p)
    \/ Assign \/ StopPolling \/ Close
    \/ Die

Spec == Init /\ [][Next]_kafkaVars

-----------------------------------------------------------------------------
(* Properties                                                              *)

\* The first message the warehouse is to have: from a fixed place on, else
\* from where the run started that wrote the first bookmark.
First(p) == CASE initial_start_time = "beginning" -> 0
              [] initial_start_time = "timestamp" -> Older
              [] OTHER -> begun[p]

\* Messages behind the offset the next run starts from and not loaded.
SkippedMessages(p) ==
    IF begun[p] = None THEN {}
    ELSE {o \in First(p)..(produced[p] - 1) : o < StartOffset(saved, p) /\ <<p, o>> \notin loaded}

\* A partition with a bookmark goes on without a gap whatever was committed
\* to the broker, and so does one without when the start is a fixed place.
\* "earliest" and "latest" depend on the broker: a partition that has no
\* bookmark yet loses what was committed or came before the next run
\* (set_partition_offsets, read_kafka_messages).
KafkaBookmarksSkipNothing ==
    \A p \in Partitions :
        saved[p] # None \/ initial_start_time \in {"beginning", "timestamp"}
            => SkippedMessages(p) = {}
=============================================================================
