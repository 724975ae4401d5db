----------------------------- MODULE ChatMessages ------------------------------
(* One direct conversation (chat/chat.controller.ts, chat/chat.gateway.ts,     *)
(* chat/chat.service.ts, chat/message-delivery.processor.ts): it is opened,    *)
(* messages get their sequence numbers, are queued for delivery, counted as    *)
(* unread and read. No step runs in a transaction: what a request has read it  *)
(* uses after later awaits, and unique indexes are all that orders them.       *)
EXTENDS Integers, FiniteSets, FiniteSetsExt

CONSTANTS
  Members,            \* the two users of the conversation
  ChatMessages,       \* messages as their senders' clients name them
  AuthorOf,           \* [ChatMessages -> Members]
  ChatRequests,       \* requests in flight
  Passes,             \* passes of the delivery processor that may overlap
  RetryLimit,         \* deliveries tried before a job has FAILED (5 in the code)
  MaxChatWork,        \* bound: requests made and passes that found something
  MaxChatFaults,      \* bound: requests and passes that die
  NoMessage

ASSUME ChatAssumption ==
  /\ AuthorOf \in [ChatMessages -> Members] /\ RetryLimit \in Nat
  /\ \A u \in Members : \E v \in Members : u # v
  /\ NoMessage \notin ChatMessages

VARIABLES
  direct,             \* direct_conversations and its participants
  sequence,           \* messages.sequenceNo; 0: no such row
  lastMessage,        \* conversations.lastMessageId
  job,                \* message_delivery_jobs, one per message (one receiver)
  receipt,            \* message_receipts
  unread, lastRead,   \* conversation_participants
  chatRequest,        \* what a request holds between two calls
  pass,               \* what a pass holds between two calls
  chatWork, chatFaults,
  counted,            \* history: how often a message was counted as unread
  countedLate,        \* history: counted after its receiver had read past it
  furthestRead,       \* history: the highest read position there was
  readOvertaken,      \* history: a read was saved over a later one
  passesMet           \* history: two passes held one job at the same time

rows == <<sequence, lastMessage, direct>>
delivery == <<job, receipt, pass, passesMet>>
position == <<unread, lastRead, counted, countedLate, furthestRead, readOvertaken>>
chatVars == <<rows, delivery, position, chatRequest, chatWork, chatFaults>>

Receiver(m) == CHOOSE u \in Members : u # AuthorOf[m]
SavedMessages == {m \in ChatMessages : sequence[m] > 0}
NoTries == [m \in {} |-> 0]
Unasked == [pc |-> "idle", m |-> NoMessage, u |-> NoMessage, seq |-> 0]

(* The conversation is new or was opened before. *)
ChatInit ==
  /\ direct \in {"NONE", "JOINED"}
  /\ sequence = [m \in ChatMessages |-> 0]
  /\ lastMessage = NoMessage
  /\ job = [m \in ChatMessages |-> [status |-> "NONE", tries |-> 0]]
  /\ receipt = [m \in ChatMessages |-> FALSE]
  /\ unread = [u \in Members |-> 0] /\ lastRead = [u \in Members |-> 0]
  /\ chatRequest = [r \in ChatRequests |-> Unasked]
  /\ pass = [p \in Passes |-> [pc |-> "idle", jobs |-> {}, tries |-> NoTries, m |-> NoMessage]]
  /\ chatWork = 0 /\ chatFaults = 0
  /\ counted = [m \in ChatMessages |-> 0] /\ countedLate = FALSE
  /\ furthestRead = [u \in Members |-> 0] /\ readOvertaken = FALSE
  /\ passesMet = FALSE

Ask(r, request) ==
  /\ chatRequest[r].pc = "idle" /\ chatWork < MaxChatWork
  /\ chatWork' = chatWork + 1
  /\ chatRequest' = [chatRequest EXCEPT ![r] = request]
  /\ UNCHANGED chatFaults

At(r, pc) == chatRequest[r].pc = pc /\ UNCHANGED <<chatWork, chatFaults>>
Then(r, pc) == chatRequest' = [chatRequest EXCEPT ![r].pc = pc]
Answer(r) == chatRequest' = [chatRequest EXCEPT ![r] = Unasked]

-----------------------------------------------------------------------------
(* createDirect: the conversation, its pair of users and its participants are  *)
(* three saves; the pair is unique.                                            *)

CreateDirect(r) ==
  /\ direct = "NONE"
  /\ Ask(r, [Unasked EXCEPT !.pc = "pair"])
  /\ UNCHANGED <<rows, delivery, position>>

SaveDirect(r) ==
  /\ At(r, "pair")
  /\ IF direct = "NONE"
       THEN direct' = "PAIR" /\ Then(r, "participants")
       ELSE UNCHANGED direct /\ Answer(r)
  /\ UNCHANGED <<sequence, lastMessage, delivery, position>>

SaveParticipants(r) ==
  /\ At(r, "participants")
  /\ direct' = "JOINED"
  /\ Answer(r)
  /\ UNCHANGED <<sequence, lastMessage, delivery, position>>

-----------------------------------------------------------------------------
(* handleSendMessage with createMessage. The same client message may be sent   *)
(* again when the answer was lost; moderation may refuse it.                   *)

SendMessage(r, m) ==
  /\ direct = "JOINED"
  /\ Ask(r, [Unasked EXCEPT !.pc = IF sequence[m] > 0 THEN "queue" ELSE "number", !.m = m])
  /\ UNCHANGED <<rows, delivery, position>>

(* getNextSequenceNo *)
GetNextSequenceNo(r) ==
  /\ At(r, "number")
  /\ chatRequest' = [chatRequest EXCEPT ![r].pc = "insert",
       ![r].seq = 1 + Max({0} \union {sequence[m] : m \in ChatMessages})]
  /\ UNCHANGED <<rows, delivery, position>>

\* Mutant of MessageFits: the index on the sequence numbers is missing.
FitsByClient(m, seq) == sequence[m] = 0

(* UQ_messages_conversation_sequenceNo, UQ_messages_sender_clientMessageId *)
MessageFits(m, seq) == sequence[m] = 0 /\ \A n \in SavedMessages : sequence[n] # seq

(* The save, or the exception the sender's client answers with a retry. *)
SaveMessage(r) ==
  LET m == chatRequest[r].m
      seq == chatRequest[r].seq
  IN /\ At(r, "insert")
     /\ IF MessageFits(m, seq)
          THEN sequence' = [sequence EXCEPT ![m] = seq] /\ Then(r, "last")
          ELSE UNCHANGED sequence /\ Answer(r)
     /\ UNCHANGED <<lastMessage, direct, delivery, position>>

UpdateLastMessage(r) ==
  /\ At(r, "last")
  /\ lastMessage' = chatRequest[r].m
  /\ Then(r, "queue")
  /\ UNCHANGED <<sequence, direct, delivery, position>>

\* Mutant of Queued: jobs are not unique per message and receiver.
QueuedNever(m) == FALSE

(* UQ_message_delivery_jobs_message_receiver_type *)
Queued(m) == job[m].status # "NONE"

(* createDeliveryJobs: a message that has its job ends the request with an     *)
(* exception, before it is counted again.                                      *)
CreateDeliveryJobs(r) ==
  LET m == chatRequest[r].m
  IN /\ At(r, "queue")
     /\ IF Queued(m)
          THEN UNCHANGED job /\ Answer(r)
          ELSE job' = [job EXCEPT ![m] = [status |-> "PENDING", tries |-> 0]] /\ Then(r, "count")
     /\ UNCHANGED <<rows, receipt, pass, passesMet, position>>

(* The increment is one statement. *)
IncrementUnread(r) ==
  LET m == chatRequest[r].m
      u == Receiver(m)
  IN /\ At(r, "count")
     /\ unread' = [unread EXCEPT ![u] = @ + 1]
     /\ counted' = [counted EXCEPT ![m] = @ + 1]
     /\ countedLate' = (countedLate \/ sequence[m] <= lastRead[u])
     /\ Answer(r)
     /\ UNCHANGED <<rows, delivery, lastRead, furthestRead, readOvertaken>>

-----------------------------------------------------------------------------
(* markConversationRead: the participant is loaded first, then the message     *)
(* that was named, or the conversation's last one.                             *)

LoadParticipant(r, u, m) ==
  /\ direct = "JOINED"
  /\ m # NoMessage => sequence[m] > 0
  /\ Ask(r, [pc |-> "target", m |-> m, u |-> u, seq |-> lastRead[u]])
  /\ UNCHANGED <<rows, delivery, position>>

\* Mutant of MovesForward: the read position may move either way.
MovesAnywhere(from, to) == to > 0 /\ from # to

MovesForward(from, to) == from < to

FindTarget(r) ==
  LET target == IF chatRequest[r].m # NoMessage THEN chatRequest[r].m ELSE lastMessage
      to == IF target = NoMessage THEN 0 ELSE sequence[target]
  IN /\ At(r, "target")
     /\ IF MovesForward(chatRequest[r].seq, to)
          THEN chatRequest' = [chatRequest EXCEPT ![r].pc = "save", ![r].m = target]
          ELSE Answer(r)
     /\ UNCHANGED <<rows, delivery, position>>

\* Mutant of SaveRead: the unread counter is left alone.
SaveReadOnly(r) ==
  LET u == chatRequest[r].u
      to == sequence[chatRequest[r].m]
  IN /\ At(r, "save")
     /\ lastRead' = [lastRead EXCEPT ![u] = to]
     /\ furthestRead' = [furthestRead EXCEPT ![u] = Max({@, to})]
     /\ readOvertaken' = (readOvertaken \/ lastRead[u] # chatRequest[r].seq)
     /\ Answer(r)
     /\ UNCHANGED <<rows, delivery, unread, counted, countedLate>>

(* The copy of the participant is saved: whatever was counted or read since it *)
(* was loaded is overwritten.                                                  *)
SaveRead(r) ==
  LET u == chatRequest[r].u
      to == sequence[chatRequest[r].m]
  IN /\ At(r, "save")
     /\ lastRead' = [lastRead EXCEPT ![u] = to]
     /\ unread' = [unread EXCEPT ![u] = 0]
     /\ furthestRead' = [furthestRead EXCEPT ![u] = Max({@, to})]
     /\ readOvertaken' = (readOvertaken \/ lastRead[u] # chatRequest[r].seq)
     /\ Answer(r)
     /\ UNCHANGED <<rows, delivery, counted, countedLate>>

ChatRequestDies(r) ==
  /\ chatRequest[r].pc # "idle" /\ chatFaults < MaxChatFaults
  /\ chatFaults' = chatFaults + 1
  /\ Answer(r)
  /\ UNCHANGED <<rows, delivery, position, chatWork>>

-----------------------------------------------------------------------------
(* processJobs, every two seconds whether or not the last pass has ended. A    *)
(* job is saved from the copy the pass has loaded.                             *)

InPass(p, pc) == pass[p].pc = pc /\ UNCHANGED <<rows, position, chatRequest>>

(* The jobs whose time to be retried has come. *)
FindJobs(p) ==
  LET pending == {m \in ChatMessages : job[m].status = "PENDING"}
  IN /\ InPass(p, "idle")
     /\ chatWork < MaxChatWork /\ chatWork' = chatWork + 1
     /\ \E due \in SUBSET pending :
          /\ due # {} /\ {m \in pending : job[m].tries = 0} \subseteq due
          /\ pass' = [pass EXCEPT ![p] =
               [pc |-> "next", jobs |-> due, tries |-> [m \in due |-> job[m].tries],
                m |-> NoMessage]]
          /\ passesMet' = (passesMet \/ \E q \in Passes \ {p} : pass[q].jobs \intersect due # {})
     /\ UNCHANGED <<job, receipt, chatFaults>>

(* Saves m's job from the pass's copy. *)
SaveJob(p, m, status, tries) == job' = [job EXCEPT ![m] = [status |-> status, tries |-> tries]]

TakeJob(p, m) ==
  /\ InPass(p, "next") /\ m \in pass[p].jobs
  /\ SaveJob(p, m, "PROCESSING", pass[p].tries[m])
  /\ pass' = [pass EXCEPT ![p].pc = "send", ![p].m = m]
  /\ UNCHANGED <<receipt, passesMet, chatWork, chatFaults>>

LeaveJob(p) ==
  LET left == pass[p].jobs \ {pass[p].m}
  IN pass' = [pass EXCEPT ![p] =
       [pc |-> IF left = {} THEN "idle" ELSE "next", jobs |-> left,
        tries |-> [m \in left |-> pass[p].tries[m]], m |-> NoMessage]]

\* Mutant of StatusUnsent: a job whose receiver is away is given up one try late.
StatusUnsentLate(tries) == IF tries > RetryLimit + 1 THEN "FAILED" ELSE "PENDING"

StatusUnsent(tries) == IF tries > RetryLimit THEN "FAILED" ELSE "PENDING"

(* sendToUser, and the save of what it answered. *)
SendToUser(p, online) ==
  LET m == pass[p].m
      tries == pass[p].tries[m] + 1
  IN /\ InPass(p, "send")
     /\ IF online
          THEN SaveJob(p, m, "COMPLETED", pass[p].tries[m])
               /\ pass' = [pass EXCEPT ![p].pc = "receipt"]
          ELSE SaveJob(p, m, StatusUnsent(tries), tries) /\ LeaveJob(p)
     /\ UNCHANGED <<receipt, passesMet, chatWork, chatFaults>>

(* UQ_message_receipts_message_user: the second receipt throws, and the catch  *)
(* saves the job as FAILED.                                                    *)
SaveReceipt(p) ==
  LET m == pass[p].m
  IN /\ InPass(p, "receipt")
     /\ receipt' = [receipt EXCEPT ![m] = TRUE]
     /\ IF receipt[m] THEN SaveJob(p, m, "FAILED", pass[p].tries[m]) ELSE UNCHANGED job
     /\ LeaveJob(p)
     /\ UNCHANGED <<passesMet, chatWork, chatFaults>>

(* The server stops; a job it has saved as PROCESSING is found by no pass.     *)
PassDies(p) ==
  /\ pass[p].pc # "idle" /\ chatFaults < MaxChatFaults
  /\ chatFaults' = chatFaults + 1
  /\ pass' = [pass EXCEPT ![p] = [pc |-> "idle", jobs |-> {}, tries |-> NoTries, m |-> NoMessage]]
  /\ UNCHANGED <<rows, position, chatRequest, chatWork, job, receipt, passesMet>>

ChatNext ==
  \/ \E r \in ChatRequests :
       \/ CreateDirect(r) \/ SaveDirect(r) \/ SaveParticipants(r)
       \/ \E m \in ChatMessages : SendMessage(r, m)
       \/ GetNextSequenceNo(r) \/ SaveMessage(r) \/ UpdateLastMessage(r)
       \/ CreateDeliveryJobs(r) \/ IncrementUnread(r)
       \/ \E u \in Members, m \in ChatMessages \union {NoMessage} : LoadParticipant(r, u, m)
       \/ FindTarget(r) \/ SaveRead(r) \/ ChatRequestDies(r)
  \/ \E p \in Passes :
       \/ FindJobs(p) \/ SaveReceipt(p) \/ PassDies(p)
       \/ \E m \in ChatMessages : TakeJob(p, m)
       \/ \E online \in BOOLEAN : SendToUser(p, online)

ChatSpec == ChatInit /\ [][ChatNext]_chatVars

-----------------------------------------------------------------------------
(* Properties *)

ChatTypeOK ==
  /\ direct \in {"NONE", "PAIR", "JOINED"}
  /\ sequence \in [ChatMessages -> 0..Cardinality(SavedMessages)]
  /\ job \in [ChatMessages ->
       [status : {"NONE", "PENDING", "PROCESSING", "COMPLETED", "FAILED"}, tries : Nat]]
  /\ lastMessage \in SavedMessages \union {NoMessage}

UnreadAtMost(u) ==
  Cardinality({m \in SavedMessages : Receiver(m) = u /\ counted[m] > 0 /\ sequence[m] > lastRead[u]})

\* However requests, retries and passes interleave: a message has one place in
\* the conversation and is counted once; the read position goes back and the
\* counter exceeds what is beyond it only when reads overlapped or a message was
\* read before it was counted; a delivered message has its job COMPLETED and one
\* given up was tried as often as the code says, unless two passes held it.
MessagesConsistent ==
  /\ ChatTypeOK
  /\ \A m, n \in SavedMessages : m # n => sequence[m] # sequence[n]
  /\ \A m \in ChatMessages : counted[m] <= 1
  /\ ~readOvertaken => lastRead = furthestRead
  /\ ~countedLate => \A u \in Members : unread[u] <= UnreadAtMost(u)
  /\ ~passesMet => \A m \in ChatMessages :
       /\ receipt[m] => job[m].status = "COMPLETED"
       /\ job[m].status = "FAILED" => job[m].tries = RetryLimit + 1
  /\ chatFaults = 0 /\ direct = "PAIR" => \E r \in ChatRequests : chatRequest[r].pc = "participants"
  /\ chatFaults = 0 => \A m \in ChatMessages :
       job[m].status = "PROCESSING" => \E p \in Passes : pass[p].m = m \/ m \in pass[p].jobs
=============================================================================
