------------------------- MODULE Conversations_proofs -------------------------
(***************************************************************************)
(* What holds of a customer's conversations for any number of workers,     *)
(* processes, messages and deliveries.                                     *)
(***************************************************************************)
EXTENDS ConversationsProps, FiniteSetTheorems, TLAPS

-----------------------------------------------------------------------------
(* The rows, webhooks and tasks keep their types.                          *)

(* A message that waits, or that a webhook or a task is at, is stored with *)
(* a conversation that is there.  A task began when it was with the bot.   *)
StoredInv ==
    /\ \A d \in Deliveries : stored[d] # None => status[stored[d]] # "none"
    /\ \A d \in queue : stored[d] # None
    /\ \A w \in Workers :
        /\ ctx[w].at = "enqueue" => stored[ctx[w].row] # None
        /\ ctx[w].conversation # None => status[ctx[w].conversation] # "none"
    /\ \A p \in Processes : task[p].at # "idle" =>
         stored[task[p].row] # None /\ task[p].status = "bot"

TypeInv == TypeOK /\ StoredInv

LEMMA Nothing ==
  /\ NoWebhook \in Webhook /\ NoWebhook.at = "idle" /\ NoWebhook.conversation = None
  /\ ~ NoWebhook.awaited
  /\ NoTask \in Task /\ NoTask.at = "idle"
BY DEF NoWebhook, Webhook, NoTask, Task

LEMMA Under ==
  ASSUME TypeOK
  PROVE  /\ \A w \in Workers : ctx[w].at # "idle" => ctx[w].row \in Deliveries
         /\ \A p \in Processes : task[p].at # "idle" =>
              task[p].row \in Deliveries /\ task[p].conversation \in Conversations
BY Nothing DEF TypeOK, Webhook, Task

LEMMA WebhookMoves ==
  ASSUME ctx \in [Workers -> Webhook], NEW w \in Workers, ctx[w].at # "idle",
         NEW at \in {"commit", "enqueue", "answer"}, ctx' = [ctx EXCEPT ![w].at = at]
  PROVE  /\ ctx' \in [Workers -> Webhook] /\ ctx'[w].at = at /\ ctx'[w].row = ctx[w].row
         /\ ctx'[w].conversation = ctx[w].conversation /\ ctx'[w].awaited = ctx[w].awaited
         /\ \A v \in Workers : v # w => ctx'[v] = ctx[v]
<1>1. ctx[w] \in Webhook /\ ctx[w] # NoWebhook
  BY DEF NoWebhook
<1>2. [ctx[w] EXCEPT !.at = at] \in Webhook
  BY <1>1 DEF Webhook
<1>3. ctx' = [ctx EXCEPT ![w] = [ctx[w] EXCEPT !.at = at]]
  OBVIOUS
<1> QED BY <1>1, <1>2, <1>3 DEF Webhook

LEMMA TaskMoves ==
  ASSUME task \in [Processes -> Task], NEW p \in Processes, NEW new \in Task,
         task' = [task EXCEPT ![p] = new]
  PROVE  /\ task' \in [Processes -> Task] /\ task'[p] = new
         /\ \A q \in Processes : q # p => task'[q] = task[q]
OBVIOUS

LEMMA TypeInit == Init => TypeInv
<1> SUFFICES ASSUME Init PROVE TypeInv
  OBVIOUS
<1> USE DEF Init
<1>1. ctx \in [Workers -> Webhook] /\ task \in [Processes -> Task]
  BY Nothing
<1>2. deliveries \in [Messages -> 0 .. MaxDeliveries] /\ handoffs \in [Conversations -> 0 .. MaxHandoffs]
      /\ crashes \in 0 .. MaxCrashes
  BY ConversationsAssumption
<1>3. TypeOK
  BY <1>1, <1>2 DEF TypeOK
<1>4. StoredInv
  BY Nothing DEF StoredInv
<1> QED BY <1>3, <1>4 DEF TypeInv

(* The steps of a webhook.                                                 *)
WebhookStep(w) ==
    \/ twilio_webhook(w) \/ time_out(w) \/ get_or_create_conversation(w) \/ commit(w)
    \/ enqueue(w) \/ answer(w) \/ crash(w)

(* Which message Twilio sends, and how the delivery ends or begins.        *)
LEMMA Sends ==
  ASSUME TypeInv, NEW w \in Workers, twilio_webhook(w)
  PROVE  \E m \in Messages \ answered :
           /\ deliveries[m] < MaxDeliveries /\ deliveries' = [deliveries EXCEPT ![m] = @ + 1]
           /\ \A v \in Workers : ctx[v].awaited => ctx[v].row[1] # m
           /\ ctx[w].at = "idle" /\ \A v \in Workers : v # w => ctx'[v] = ctx[v]
           /\ \/ /\ ctx'[w] \in Webhook /\ ctx'[w].at = "find" /\ ctx'[w].awaited
                 /\ ctx'[w].row = <<m, deliveries[m] + 1>> /\ ctx'[w].row \in Deliveries
                 /\ ctx'[w].conversation = None /\ UNCHANGED notices
              \/ UNCHANGED <<ctx, notices>>
              \/ notices' = [notices EXCEPT ![m] = @ + 1] /\ UNCHANGED ctx
<1>1. PICK m \in Messages \ answered :
        /\ deliveries[m] < MaxDeliveries /\ deliveries' = [deliveries EXCEPT ![m] = @ + 1]
        /\ \A v \in Workers : ctx[v].awaited => ctx[v].row[1] # m
        /\ \/ /\ ctx' = [ctx EXCEPT ![w] = [NoWebhook EXCEPT !.at = "find", !.awaited = TRUE,
                                                !.row = <<m, deliveries[m] + 1>>]]
              /\ UNCHANGED notices
           \/ UNCHANGED <<ctx, notices>>
           \/ notices' = [notices EXCEPT ![m] = @ + 1] /\ UNCHANGED ctx
  BY DEF twilio_webhook
<1> DEFINE new == [NoWebhook EXCEPT !.at = "find", !.awaited = TRUE,
                                    !.row = <<m, deliveries[m] + 1>>]
<1>2. ctx \in [Workers -> Webhook] /\ ctx[w].at = "idle"
  BY DEF TypeInv, TypeOK, twilio_webhook
<1>3. deliveries[m] \in 0 .. MaxDeliveries /\ MaxDeliveries \in Nat
  BY ConversationsAssumption DEF TypeInv, TypeOK
<1>4. <<m, deliveries[m] + 1>> \in Deliveries
  BY <1>1, <1>3 DEF Deliveries
<1>5. new \in Webhook /\ new.at = "find" /\ new.awaited /\ new.conversation = None
      /\ new.row = <<m, deliveries[m] + 1>>
  BY <1>4 DEF NoWebhook, Webhook
<1>6. \/ ctx' = [ctx EXCEPT ![w] = new] /\ UNCHANGED notices
      \/ UNCHANGED <<ctx, notices>>
      \/ notices' = [notices EXCEPT ![m] = @ + 1] /\ UNCHANGED ctx
  BY <1>1
<1> HIDE DEF new
<1>7. CASE ctx' = [ctx EXCEPT ![w] = new] /\ UNCHANGED notices
  BY <1>1, <1>2, <1>4, <1>5, <1>7
<1> QED BY <1>1, <1>2, <1>6, <1>7

(* The lookup leaves the webhook its message.                              *)
LEMMA Finds ==
  ASSUME TypeInv, NEW w \in Workers, get_or_create_conversation(w)
  PROVE  \E c \in Conversations \cup {None} :
           /\ c # None => status[c] = "bot"
           /\ ctx' \in [Workers -> Webhook] /\ ctx[w].at = "find" /\ ctx'[w].at = "commit"
           /\ ctx'[w].row = ctx[w].row /\ ctx'[w].awaited = ctx[w].awaited
           /\ ctx'[w].conversation = c
           /\ \A v \in Workers : v # w => ctx'[v] = ctx[v]
<1>1. PICK k \in Customers \cup {None}, c \in Conversations \cup {None} :
        /\ c # None => status[c] = "bot"
        /\ ctx' = [ctx EXCEPT ![w].at = "commit", ![w].customer = k, ![w].conversation = c]
  BY DEF get_or_create_conversation, by_phone, Live, TypeInv, TypeOK
<1>2. ctx \in [Workers -> Webhook] /\ ctx[w].at = "find"
  BY DEF get_or_create_conversation, TypeInv, TypeOK
<1>3. ctx[w] \in Webhook /\ ctx[w] # NoWebhook
  BY <1>2, Nothing
<1> DEFINE new == [ctx[w] EXCEPT !.at = "commit", !.customer = k, !.conversation = c]
<1>4. ctx' = [ctx EXCEPT ![w] = new]
  BY <1>1, <1>2
<1>5. new \in Webhook /\ new.at = "commit" /\ new.conversation = c
      /\ new.row = ctx[w].row /\ new.awaited = ctx[w].awaited
  BY <1>3 DEF Webhook
<1> HIDE DEF new
<1>6. /\ ctx' \in [Workers -> Webhook] /\ ctx'[w] = new
      /\ \A v \in Workers : v # w => ctx'[v] = ctx[v]
  BY <1>2, <1>4, <1>5
<1> QED BY <1>1, <1>2, <1>5, <1>6

(* Nobody waits for the answer any more.                                   *)
LEMMA TimesOut ==
  ASSUME TypeInv, NEW w \in Workers, time_out(w)
  PROVE  /\ ctx' \in [Workers -> Webhook] /\ ctx[w].awaited /\ ~ ctx'[w].awaited
         /\ ctx[w].at # "idle" /\ ctx'[w].at = ctx[w].at /\ ctx'[w].row = ctx[w].row
         /\ ctx'[w].conversation = ctx[w].conversation
         /\ \A v \in Workers : v # w => ctx'[v] = ctx[v]
<1>1. ctx \in [Workers -> Webhook] /\ ctx[w].awaited /\ ctx' = [ctx EXCEPT ![w].awaited = FALSE]
  BY DEF time_out, TypeInv, TypeOK
<1>2. ctx[w] \in Webhook /\ ctx[w] # NoWebhook
  BY <1>1, Nothing
<1> DEFINE new == [ctx[w] EXCEPT !.awaited = FALSE]
<1>3. ctx' = [ctx EXCEPT ![w] = new]
  BY <1>1
<1>4. new \in Webhook /\ ~ new.awaited /\ new.at = ctx[w].at /\ new.row = ctx[w].row
      /\ new.conversation = ctx[w].conversation /\ ctx[w].at # "idle"
  BY <1>2 DEF Webhook
<1> HIDE DEF new
<1> QED BY <1>1, <1>3, <1>4

LEMMA WebhookType ==
  ASSUME TypeInv, NEW w \in Workers, WebhookStep(w)
  PROVE  TypeInv'
<1> USE DEF TypeInv, rows, twilio, counts, ended
<1>0. ctx \in [Workers -> Webhook]
  BY DEF TypeOK
<1>1. CASE twilio_webhook(w)
  <2>1. PICK m \in Messages \ answered :
          /\ deliveries[m] < MaxDeliveries /\ deliveries' = [deliveries EXCEPT ![m] = @ + 1]
          /\ \A v \in Workers : v # w => ctx'[v] = ctx[v]
          /\ \/ /\ ctx'[w] \in Webhook /\ ctx'[w].at = "find" /\ ctx'[w].conversation = None
                /\ UNCHANGED notices
             \/ UNCHANGED <<ctx, notices>>
             \/ notices' = [notices EXCEPT ![m] = @ + 1] /\ UNCHANGED ctx
    BY <1>1, Sends
  <2>2. deliveries[m] \in 0 .. MaxDeliveries /\ MaxDeliveries \in Nat
    BY ConversationsAssumption DEF TypeOK
  <2>3. /\ ctx' \in [Workers -> Webhook]
        /\ \A v \in Workers : \/ ctx'[v] = ctx[v]
                              \/ ctx'[v].at = "find" /\ ctx'[v].conversation = None
    <3>1. \E new : ctx' = [ctx EXCEPT ![w] = new]
      BY <1>0, <1>1 DEF twilio_webhook
    <3> QED BY <1>0, <2>1, <3>1
  <2>4. deliveries' \in [Messages -> 0 .. MaxDeliveries] /\ notices' \in [Messages -> Nat]
    BY <2>1, <2>2 DEF TypeOK
  <2>5. UNCHANGED <<rows, queue, ended, timeouts, answered, counts, task, crashes>>
    BY <1>1 DEF twilio_webhook
  <2>6. TypeOK'
    BY <2>3, <2>4, <2>5 DEF TypeOK
  <2>7. StoredInv'
    BY <2>3, <2>5 DEF StoredInv
  <2> QED BY <2>6, <2>7
<1>2. CASE get_or_create_conversation(w)
  <2>1. PICK c \in Conversations \cup {None} :
          /\ c # None => status[c] = "bot"
          /\ ctx' \in [Workers -> Webhook] /\ ctx'[w].at = "commit" /\ ctx'[w].conversation = c
          /\ \A v \in Workers : v # w => ctx'[v] = ctx[v]
    BY <1>2, Finds
  <2>2. UNCHANGED <<rows, queue, ended, twilio, counts, task, crashes>>
    BY <1>2 DEF get_or_create_conversation
  <2>3. TypeOK'
    BY <2>1, <2>2 DEF TypeOK
  <2>4. StoredInv'
    BY <2>1, <2>2 DEF StoredInv
  <2> QED BY <2>3, <2>4
<1>3. CASE commit(w)
  <2>1. ctx[w].at = "commit" /\ ctx[w].row \in Deliveries
    BY <1>3, Under DEF commit
  <2>2. UNCHANGED <<queue, ended, escalated, twilio, counts, task, crashes>>
    BY <1>3 DEF commit
  <2>3. CASE ctx' = [ctx EXCEPT ![w].at = "answer"] /\ UNCHANGED <<customers, status, owner, stored>>
    <3>1. /\ ctx' \in [Workers -> Webhook] /\ ctx'[w].at = "answer"
          /\ ctx'[w].conversation = ctx[w].conversation
          /\ \A v \in Workers : v # w => ctx'[v] = ctx[v]
      BY <1>0, <2>1, <2>3, WebhookMoves
    <3>2. TypeOK'
      BY <2>2, <2>3, <3>1 DEF TypeOK
    <3>3. StoredInv'
      BY <2>2, <2>3, <3>1 DEF StoredInv
    <3> QED BY <3>2, <3>3
  <2>4. CASE ~ (ctx' = [ctx EXCEPT ![w].at = "answer"] /\ UNCHANGED <<customers, status, owner, stored>>)
    <3>0. ctx[w].customer \in Customers \cup {None} /\ ctx[w].conversation \in Conversations \cup {None}
      BY <1>0, <2>1, Nothing DEF Webhook
    <3>1. PICK k \in Customers, c \in Conversations :
            /\ customers' = customers \cup {k}
            /\ \/ /\ status' = [status EXCEPT ![c] = "bot"]
                  /\ owner' = [owner EXCEPT ![c] = k]
               \/ /\ ctx[w].conversation # None
                  /\ c = ctx[w].conversation /\ UNCHANGED <<status, owner>>
            /\ stored' = [stored EXCEPT ![ctx[w].row] = c]
            /\ ctx' = [ctx EXCEPT ![w].at = "enqueue"]
      <4> DEFINE d == ctx[w].row
                 k == IF ctx[w].customer = None THEN d ELSE ctx[w].customer
                 c == IF ctx[w].conversation = None THEN d ELSE ctx[w].conversation
      <4>1. k \in Customers /\ c \in Conversations
        BY <2>1, <3>0 DEF Customers, Conversations
      <4>2. /\ customers' = customers \cup {k}
            /\ \/ status' = [status EXCEPT ![c] = "bot"] /\ owner' = [owner EXCEPT ![c] = k]
               \/ ctx[w].conversation # None /\ UNCHANGED <<status, owner>>
            /\ stored' = [stored EXCEPT ![d] = c] /\ ctx' = [ctx EXCEPT ![w].at = "enqueue"]
        BY <1>3, <2>4 DEF commit
      <4> QED BY <4>1, <4>2
    <3>2. /\ ctx' \in [Workers -> Webhook] /\ ctx'[w].at = "enqueue"
          /\ ctx'[w].row = ctx[w].row
          /\ ctx'[w].conversation = ctx[w].conversation
          /\ \A v \in Workers : v # w => ctx'[v] = ctx[v]
      BY <1>0, <2>1, <3>1, WebhookMoves
    <3>3. /\ stored' \in [Deliveries -> Conversations \cup {None}] /\ stored'[ctx[w].row] = c
          /\ \A d \in Deliveries : d # ctx[w].row => stored'[d] = stored[d]
      BY <2>1, <3>1 DEF TypeOK
    <3>4. /\ status' \in [Conversations -> Statuses \cup {"none"}] /\ status'[c] # "none"
          /\ \A b \in Conversations : status[b] # "none" => status'[b] # "none"
      BY <3>1 DEF TypeOK, StoredInv, Statuses
    <3>5. owner' \in [Conversations -> Customers \cup {None}]
      BY <3>1 DEF TypeOK
    <3>6. customers' \subseteq Customers
      BY <3>1 DEF TypeOK
    <3>7. TypeOK'
      BY <2>2, <3>2, <3>3, <3>4, <3>5, <3>6 DEF TypeOK
    <3>8. c # None
      BY ConversationsAssumption DEF Conversations, Deliveries
    <3>9. \A d \in Deliveries : stored[d] # None => stored'[d] # None
      BY <3>3, <3>8
    <3>10. \A v \in Workers : ctx[v].conversation \in Conversations \cup {None}
      BY <1>0, Nothing DEF Webhook, NoWebhook
    <3>11. StoredInv'
      <4>1. \A d \in Deliveries : stored'[d] # None => status'[stored'[d]] # "none"
        BY <3>3, <3>4 DEF StoredInv, TypeOK
      <4>2. \A d \in queue' : stored'[d] # None
        BY <2>2, <3>9 DEF StoredInv, TypeOK
      <4>3. \A v \in Workers : /\ ctx'[v].at = "enqueue" => stored'[ctx'[v].row] # None
                               /\ ctx'[v].conversation # None => status'[ctx'[v].conversation] # "none"
        BY <2>1, <3>2, <3>3, <3>4, <3>8, <3>9, <3>10, Under DEF StoredInv
      <4>4. \A p \in Processes : task'[p].at # "idle" =>
              stored'[task'[p].row] # None /\ task'[p].status = "bot"
        BY <2>2, <3>9, Under DEF StoredInv
      <4> QED BY <4>1, <4>2, <4>3, <4>4 DEF StoredInv
    <3> QED BY <3>7, <3>11
  <2> QED BY <2>3, <2>4
<1>4. CASE enqueue(w)
  <2>1. /\ ctx[w].at = "enqueue" /\ ctx[w].row \in Deliveries
        /\ queue' = queue \cup {ctx[w].row} \/ UNCHANGED queue
        /\ UNCHANGED <<rows, ended, twilio, counts, task, crashes>>
    BY <1>4, Under DEF enqueue
  <2>2. /\ ctx' \in [Workers -> Webhook] /\ ctx'[w].at = "answer"
        /\ ctx'[w].conversation = ctx[w].conversation
        /\ \A v \in Workers : v # w => ctx'[v] = ctx[v]
    BY <1>0, <1>4, <2>1, WebhookMoves DEF enqueue
  <2>3. TypeOK'
    BY <2>1, <2>2 DEF TypeOK
  <2>4. StoredInv'
    BY <2>1, <2>2 DEF StoredInv
  <2> QED BY <2>3, <2>4
<1>5. CASE answer(w) \/ crash(w)
  <2>1. /\ ctx' = [ctx EXCEPT ![w] = NoWebhook] /\ ctx[w].at # "idle"
        /\ UNCHANGED <<rows, queue, ended, deliveries, timeouts, notices, counts, task>>
    BY <1>5 DEF answer, crash
  <2>2. answered' \subseteq Messages /\ crashes' \in 0 .. MaxCrashes
    <3>1. ctx[w].row \in Deliveries
      BY <2>1, Under
    <3>2. ctx[w].row[1] \in Messages
      BY <3>1 DEF Deliveries
    <3> QED BY <1>5, <3>2, ConversationsAssumption DEF answer, crash, TypeOK
  <2>3. TypeOK'
    BY <1>0, <2>1, <2>2, Nothing DEF TypeOK
  <2>4. StoredInv'
    BY <1>0, <2>1, Nothing DEF StoredInv
  <2> QED BY <2>3, <2>4
<1>6. CASE time_out(w)
  <2>1. /\ ctx' \in [Workers -> Webhook] /\ ctx'[w].at = ctx[w].at /\ ctx'[w].row = ctx[w].row
        /\ ctx'[w].conversation = ctx[w].conversation /\ ctx[w].at # "idle"
        /\ \A v \in Workers : v # w => ctx'[v] = ctx[v]
    BY <1>6, TimesOut
  <2>2. UNCHANGED <<rows, queue, ended, deliveries, answered, notices, counts, task, crashes>>
    BY <1>6 DEF time_out
  <2>3. timeouts' \in [Messages -> Nat]
    <3>1. ctx[w].row \in Deliveries
      BY <2>1, Under
    <3>2. ctx[w].row[1] \in Messages
      BY <3>1 DEF Deliveries
    <3> QED BY <1>6, <3>2 DEF time_out, TypeOK
  <2>4. TypeOK'
    BY <2>1, <2>2, <2>3 DEF TypeOK
  <2>5. StoredInv'
    BY <2>1, <2>2 DEF StoredInv
  <2> QED BY <2>4, <2>5
<1> QED BY <1>1, <1>2, <1>3, <1>4, <1>5, <1>6 DEF WebhookStep

(* A task that goes on keeps its message, its conversation and the status  *)
(* it read; one that ends has no message.                                  *)
TaskGoesOn(p) ==
    \/ task' = [task EXCEPT ![p] = NoTask]
    \/ \E new \in Task :
        /\ task' = [task EXCEPT ![p] = new]
        /\ new.row = task[p].row /\ new.conversation = task[p].conversation
        /\ new.status = task[p].status

(* The step is no begin of a task, so that fewer tasks are about to reply. *)
Forward(p) ==
    task'[p].at \in {"session", "process", "send"} => task[p].at \in {"session", "process"}

LEMMA WorkGoesOn ==
  ASSUME TypeInv, NEW p \in Processes, Work(p) \/ crash_task(p)
  PROVE  TaskGoesOn(p) /\ Forward(p) /\ task[p].at # "idle"
<1>0. task \in [Processes -> Task] /\ task[p] \in Task
  BY DEF TypeInv, TypeOK
<1>1. CASE get_session(p)
  <2> DEFINE c == task[p].conversation
             new == [task[p] EXCEPT !.at = "process", !.escalated = escalated[c]]
  <2>1. task[p].at = "session" /\ task[p] # NoTask /\ c \in Conversations
    BY <1>1, Nothing, Under DEF get_session, TypeInv
  <2>2. new \in Task /\ new.at = "process" /\ new.row = task[p].row
        /\ new.conversation = c /\ new.status = task[p].status
    BY <1>0, <2>1 DEF Task, TypeInv, TypeOK
  <2>3. task' = [task EXCEPT ![p] = new]
    BY <1>0, <1>1 DEF get_session
  <2> HIDE DEF new
  <2>4. task'[p].at = "process"
    BY <1>0, <2>2, <2>3
  <2> QED BY <2>1, <2>2, <2>3, <2>4 DEF TaskGoesOn, Forward
<1>2. CASE process_message(p)
  <2>1. PICK escalates \in BOOLEAN, responds \in BOOLEAN :
          task' = [task EXCEPT ![p].at = IF responds THEN "send" ELSE "save",
                               ![p].escalated = @ \/ escalates]
    BY <1>2 DEF process_message
  <2> DEFINE at == IF responds THEN "send" ELSE "save"
             new == [task[p] EXCEPT !.at = at, !.escalated = @ \/ escalates]
  <2>2. task[p].at = "process" /\ task[p] # NoTask /\ task[p].row \in Deliveries
    BY <1>2, Nothing, Under DEF process_message, TypeInv
  <2>3. new \in Task /\ new.at \in {"send", "save"} /\ new.row = task[p].row
        /\ new.conversation = task[p].conversation /\ new.status = task[p].status
    BY <1>0, <2>2 DEF Task
  <2>4. task' = [task EXCEPT ![p] = new]
    BY <1>0, <2>1
  <2> HIDE DEF new
  <2> QED BY <1>0, <2>2, <2>3, <2>4 DEF TaskGoesOn, Forward
<1>3. ASSUME NEW at \in {"save", "escalate"}, task' = [task EXCEPT ![p].at = at],
             task[p].at # "idle"
      PROVE  TaskGoesOn(p) /\ Forward(p)
  <2> DEFINE new == [task[p] EXCEPT !.at = at]
  <2>1. new \in Task /\ new.at = at /\ new.row = task[p].row
        /\ new.conversation = task[p].conversation /\ new.status = task[p].status
    BY <1>0, <1>3, Nothing DEF Task
  <2>2. task' = [task EXCEPT ![p] = new]
    BY <1>0, <1>3
  <2> HIDE DEF new
  <2> QED BY <1>0, <2>1, <2>2 DEF TaskGoesOn, Forward
<1>4. ASSUME task' = [task EXCEPT ![p] = NoTask] PROVE TaskGoesOn(p) /\ Forward(p)
  BY <1>0, <1>4, Nothing DEF TaskGoesOn, Forward
<1>5. CASE send_whatsapp(p) \/ save_session(p)
  BY <1>3, <1>4, <1>5 DEF send_whatsapp, save_session, Finish
<1>6. CASE fail(p) \/ escalate(p) \/ crash_task(p)
  BY <1>4, <1>6 DEF fail, escalate, crash_task, Finish, Idle
<1> QED BY <1>1, <1>2, <1>5, <1>6 DEF Work, get_session, process_message

(* The steps of a task and of the staff.                                   *)
LEMMA TaskType ==
  ASSUME TypeInv, NEW p \in Processes, Work(p) \/ crash_task(p)
  PROVE  TypeInv'
<1> USE DEF TypeInv, rows, twilio, counts, ended
<1>0. /\ task \in [Processes -> Task] /\ task[p] \in Task
      /\ task[p].row \in Deliveries /\ task[p].conversation \in Conversations
      /\ task[p].at # "idle" /\ TaskGoesOn(p) /\ stored[task[p].row] # None
      /\ task[p].status = "bot"
  BY WorkGoesOn, Under DEF TypeOK, StoredInv
<1>1. /\ task' \in [Processes -> Task]
      /\ \A q \in Processes : \/ task'[q] = task[q] \/ task'[q] = NoTask
                              \/ /\ task'[q].row = task[q].row
                                 /\ task'[q].status = task[q].status
                                 /\ task[q].at # "idle"
  BY <1>0, Nothing DEF TaskGoesOn
<1>2. /\ UNCHANGED <<customers, owner, stored, twilio, handoffs, ctx>>
      /\ crashes' \in 0 .. MaxCrashes
      /\ queue' \subseteq queue \cup {task[p].row} /\ finished' \subseteq finished \cup {task[p].row}
      /\ lost' \subseteq lost \cup {task[p].row}
  <2>1. CASE get_session(p) \/ process_message(p)
    BY <2>1 DEF get_session, process_message, TypeOK
  <2>2. CASE fail(p)
    BY <2>2 DEF fail, Finish, TypeOK
  <2>3. CASE send_whatsapp(p)
    BY <2>3 DEF send_whatsapp, Finish, TypeOK
  <2>4. CASE save_session(p)
    BY <2>4 DEF save_session, Finish, TypeOK
  <2>5. CASE escalate(p)
    BY <2>5 DEF escalate, Finish, TypeOK
  <2>6. CASE crash_task(p)
    <3>1. crashes < MaxCrashes /\ crashes' = crashes + 1 /\ crashes \in 0 .. MaxCrashes
      BY <2>6 DEF crash_task, TypeOK
    <3>2. crashes' \in 0 .. MaxCrashes
      BY <3>1, ConversationsAssumption
    <3> QED BY <2>6, <3>2 DEF crash_task
  <2> QED BY <2>1, <2>2, <2>3, <2>4, <2>5, <2>6 DEF Work
<1>3. /\ status' \in [Conversations -> Statuses \cup {"none"}]
      /\ \A c \in Conversations : status[c] # "none" => status'[c] # "none"
  <2>1. UNCHANGED status \/ status' = [status EXCEPT ![task[p].conversation] = "bot"]
    BY <1>0 DEF Work, get_session, process_message, send_whatsapp, fail, save_session, escalate,
                crash_task
  <2> QED BY <1>0, <2>1 DEF TypeOK, Statuses
<1>4. escalated' \in [Conversations -> BOOLEAN] /\ undone' \subseteq Conversations
  <2>1. CASE save_session(p)
    <3>1. task[p].escalated \in BOOLEAN
      BY <1>0, Nothing DEF Task
    <3> QED BY <2>1, <3>1 DEF save_session, TypeOK
  <2>2. CASE ~ save_session(p)
    BY <1>0, <2>2 DEF Work, get_session, process_message, send_whatsapp, fail, escalate,
                      crash_task, TypeOK
  <2> QED BY <2>1, <2>2
<1>5. replies' \in [Deliveries -> Nat] /\ late' \in [Conversations -> Nat]
  <2>1. CASE send_whatsapp(p)
    <3>1. replies' = [replies EXCEPT ![task[p].row] = @ + 1]
      BY <2>1 DEF send_whatsapp
    <3>2. UNCHANGED late \/ late' = [late EXCEPT ![task[p].conversation] = @ + 1]
      BY <2>1 DEF send_whatsapp
    <3> QED BY <1>0, <3>1, <3>2 DEF TypeOK
  <2>2. CASE ~ send_whatsapp(p)
    <3>1. UNCHANGED <<replies, late>>
      BY <2>2 DEF Work, get_session, process_message, fail, save_session, escalate, crash_task
    <3> QED BY <3>1 DEF TypeOK
  <2> QED BY <2>1, <2>2
<1>6. TypeOK'
  BY <1>0, <1>1, <1>2, <1>3, <1>4, <1>5 DEF TypeOK
<1>7. StoredInv'
  <2>1. \A d \in Deliveries : stored'[d] # None => status'[stored'[d]] # "none"
    BY <1>2, <1>3 DEF StoredInv, TypeOK
  <2>2. \A d \in queue' : stored'[d] # None
    BY <1>0, <1>2 DEF StoredInv
  <2>3. \A v \in Workers : ctx[v].conversation \in Conversations \cup {None}
    BY Nothing DEF TypeOK, Webhook, NoWebhook
  <2>4. \A v \in Workers : /\ ctx'[v].at = "enqueue" => stored'[ctx'[v].row] # None
                           /\ ctx'[v].conversation # None => status'[ctx'[v].conversation] # "none"
    BY <1>2, <1>3, <2>3 DEF StoredInv
  <2>5. \A q \in Processes : task'[q].at # "idle" =>
          stored'[task'[q].row] # None /\ task'[q].status = "bot"
    BY <1>1, <1>2, Nothing DEF StoredInv
  <2> QED BY <2>1, <2>2, <2>4, <2>5 DEF StoredInv
<1> QED BY <1>6, <1>7

LEMMA BeginType ==
  ASSUME TypeInv, NEW p \in Processes, process_inbound_message(p)
  PROVE  /\ TypeInv'
         /\ UNCHANGED <<status, late, handoffs, undone>>
         /\ \A q \in Processes : q # p => task'[q] = task[q]
         /\ task[p].at = "idle"
         /\ \/ task'[p] = task[p]
            \/ status[task'[p].conversation] # "handoff"
<1> USE DEF TypeInv, rows, twilio, counts, ended
<1>1. PICK d \in queue :
        /\ queue' = queue \ {d}
        /\ \/ finished' = finished \cup {d} /\ UNCHANGED <<lost, task>>
           \/ /\ status[stored[d]] # "handoff" /\ UNCHANGED ended
              /\ task' = [task EXCEPT ![p] = [NoTask EXCEPT !.at = "session", !.row = d,
                                !.conversation = stored[d], !.status = status[stored[d]]]]
  BY DEF process_inbound_message
<1>2. /\ UNCHANGED <<rows, twilio, counts, ctx, crashes>> /\ task[p].at = "idle"
      /\ task \in [Processes -> Task]
  BY DEF process_inbound_message, Idle, TypeOK
<1>3. d \in Deliveries /\ stored[d] \in Conversations /\ status[stored[d]] \in Statuses
  BY DEF TypeOK, StoredInv
<1>4. CASE UNCHANGED task
  <2>1. TypeOK'
    BY <1>1, <1>2, <1>3, <1>4 DEF TypeOK
  <2>2. StoredInv'
    BY <1>1, <1>2, <1>4 DEF StoredInv
  <2> QED BY <1>2, <1>4, <2>1, <2>2
<1>5. CASE ~ UNCHANGED task
  <2> DEFINE new == [NoTask EXCEPT !.at = "session", !.row = d,
                                   !.conversation = stored[d], !.status = status[stored[d]]]
  <2>1. new \in Task /\ new.row = d /\ new.conversation = stored[d] /\ new.status = status[stored[d]]
    BY <1>3 DEF NoTask, Task
  <2>2. task' = [task EXCEPT ![p] = new] /\ status[stored[d]] = "bot" /\ UNCHANGED ended
    BY <1>1, <1>3, <1>5 DEF Statuses
  <2> HIDE DEF new
  <2>3. /\ task' \in [Processes -> Task] /\ task'[p] = new
        /\ \A q \in Processes : q # p => task'[q] = task[q]
    BY <1>2, <2>1, <2>2
  <2>4. TypeOK'
    BY <1>1, <1>2, <2>2, <2>3 DEF TypeOK
  <2>5. StoredInv'
    BY <1>1, <1>2, <2>1, <2>2, <2>3 DEF StoredInv
  <2> QED BY <1>2, <2>1, <2>2, <2>3, <2>4, <2>5
<1> QED BY <1>4, <1>5

LEMMA HandoffType ==
  ASSUME TypeInv, NEW c \in Conversations, mark_handoff(c)
  PROVE  TypeInv'
<1> USE DEF TypeInv
<1>1. /\ status' = [status EXCEPT ![c] = "handoff"] /\ handoffs' = [handoffs EXCEPT ![c] = @ + 1]
      /\ handoffs[c] < MaxHandoffs /\ status[c] # "none"
      /\ UNCHANGED <<customers, owner, stored, escalated, queue, ended, twilio,
                     replies, late, undone, ctx, task, crashes>>
  BY DEF mark_handoff
<1>2. /\ status' \in [Conversations -> Statuses \cup {"none"}]
      /\ \A b \in Conversations : status[b] # "none" => status'[b] # "none"
  BY <1>1 DEF TypeOK, Statuses
<1>3. handoffs' \in [Conversations -> 0 .. MaxHandoffs]
  BY <1>1, ConversationsAssumption DEF TypeOK
<1>4. TypeOK'
  BY <1>1, <1>2, <1>3 DEF TypeOK, twilio, ended
<1>5. \A v \in Workers : ctx[v].conversation \in Conversations \cup {None}
  BY Nothing DEF TypeOK, Webhook, NoWebhook
<1>6. StoredInv'
  BY <1>1, <1>2, <1>5 DEF StoredInv, TypeOK
<1> QED BY <1>4, <1>6

LEMMA TypeNext == TypeInv /\ [Next]_vars => TypeInv'
<1> SUFFICES ASSUME TypeInv, [Next]_vars PROVE TypeInv'
  OBVIOUS
<1>1. CASE UNCHANGED vars
  BY <1>1 DEF vars, rows, twilio, counts, ended, TypeInv, TypeOK, StoredInv
<1> QED BY <1>1, WebhookType, TaskType, BeginType, HandoffType DEF Next, WebhookStep

(* TypeOK holds in every reachable state (messaging/models.py,             *)
(* tenants/models.py).                                                     *)
THEOREM TypeCorrect == Spec => []TypeOK
<1>1. Spec => []TypeInv
  BY TypeInit, TypeNext, PTL DEF Spec
<1> QED BY <1>1, PTL DEF TypeInv

-----------------------------------------------------------------------------
(* Every delivery has a row of its own, and a conversation that is named   *)
(* for it is not there before its webhook commits.                         *)
RowsInv ==
    /\ \A w \in Workers : ctx[w].at # "idle" => ctx[w].row[2] <= deliveries[ctx[w].row[1]]
    /\ \A w \in Workers : ctx[w].at \in {"find", "commit"} => status[ctx[w].row] = "none"
    /\ \A v, w \in Workers :
         v # w /\ ctx[v].at # "idle" /\ ctx[w].at # "idle" => ctx[v].row # ctx[w].row
    /\ \A c \in Conversations : status[c] # "none" => c[2] <= deliveries[c[1]]
    /\ \A p \in Processes : task[p].at # "idle" => status[task[p].conversation] # "none"

LEMMA RowsInit == Init => RowsInv
BY Nothing DEF Init, RowsInv

(* A webhook that goes on keeps its row, and commits it at most.           *)
LEMMA WebhookGoes ==
  ASSUME TypeInv, NEW w \in Workers, WebhookStep(w), ~ twilio_webhook(w)
  PROVE  /\ \A v \in Workers : v # w => ctx'[v] = ctx[v]
         /\ ctx[w].at # "idle" /\ ctx[w].row \in Deliveries /\ UNCHANGED <<task, deliveries>>
         /\ \/ ctx'[w].at = "idle" /\ UNCHANGED status
            \/ /\ ctx'[w].at # "idle" /\ ctx'[w].row = ctx[w].row /\ UNCHANGED status
               /\ ctx'[w].at \in {"find", "commit"} => ctx[w].at \in {"find", "commit"}
            \/ /\ ctx[w].at = "commit" /\ ctx'[w].at = "enqueue" /\ ctx'[w].row = ctx[w].row
               /\ status' = [status EXCEPT ![ctx[w].row] = "bot"]
         /\ ctx'[w].at \in {"find", "commit", "enqueue"} => ctx[w].at \in {"find", "commit", "enqueue"}
         /\ ctx'[w].at # "idle" => ctx'[w].awaited = ctx[w].awaited \/ time_out(w)
<1> USE DEF rows, twilio
<1>0. ctx \in [Workers -> Webhook]
  BY DEF TypeInv, TypeOK
<1>1. CASE time_out(w)
  BY <1>1, TimesOut, Under DEF time_out, TypeInv
<1>2. CASE get_or_create_conversation(w)
  BY <1>2, Finds, Under DEF get_or_create_conversation, TypeInv
<1>3. ASSUME NEW at \in {"enqueue", "answer"}, ctx[w].at # "idle", ctx' = [ctx EXCEPT ![w].at = at]
      PROVE  /\ \A v \in Workers : v # w => ctx'[v] = ctx[v]
             /\ ctx'[w].at = at /\ ctx'[w].row = ctx[w].row /\ ctx'[w].awaited = ctx[w].awaited
  BY <1>0, <1>3, WebhookMoves
<1>4. CASE commit(w)
  <2>1. /\ ctx[w].at = "commit" /\ ctx[w].row \in Deliveries /\ UNCHANGED <<task, deliveries>>
        /\ \/ /\ ctx' = [ctx EXCEPT ![w].at = "enqueue"]
              /\ UNCHANGED status \/ status' = [status EXCEPT ![ctx[w].row] = "bot"]
           \/ ctx' = [ctx EXCEPT ![w].at = "answer"] /\ UNCHANGED status
    BY <1>4, Under DEF commit, TypeInv
  <2> QED BY <1>3, <2>1
<1>5. CASE enqueue(w)
  <2>1. /\ ctx[w].at = "enqueue" /\ ctx[w].row \in Deliveries /\ UNCHANGED <<task, deliveries, status>>
        /\ ctx' = [ctx EXCEPT ![w].at = "answer"]
    BY <1>5, Under DEF enqueue, TypeInv
  <2> QED BY <1>3, <2>1
<1>6. CASE answer(w) \/ crash(w)
  BY <1>0, <1>6, Nothing, Under DEF answer, crash, TypeInv
<1> QED BY <1>1, <1>2, <1>4, <1>5, <1>6 DEF WebhookStep

LEMMA RowsWebhook ==
  ASSUME TypeInv, RowsInv, NEW w \in Workers, WebhookStep(w)
  PROVE  RowsInv'
<1>1. CASE twilio_webhook(w)
  <2>1. PICK m \in Messages :
          /\ deliveries' = [deliveries EXCEPT ![m] = @ + 1]
          /\ \A v \in Workers : v # w => ctx'[v] = ctx[v]
          /\ \/ ctx'[w].at = "find" /\ ctx'[w].row = <<m, deliveries[m] + 1>>
                /\ ctx'[w].row \in Deliveries
             \/ UNCHANGED ctx
    BY <1>1, Sends
  <2>2. deliveries \in [Messages -> Int] /\ UNCHANGED <<status, task>>
    BY <1>1, ConversationsAssumption DEF TypeInv, TypeOK, twilio_webhook, rows
  <2>3. \A n \in Messages : deliveries[n] <= deliveries'[n]
    BY <2>1, <2>2
  <2>4. \A d \in Deliveries : d[1] \in Messages /\ d[2] \in Int
    BY ConversationsAssumption DEF Deliveries
  <2>5. \A d \in Deliveries : d[2] <= deliveries[d[1]] => d[2] <= deliveries'[d[1]]
    BY <2>1, <2>2, <2>3, <2>4
  <2>6. \A v \in Workers : ctx[v].at # "idle" => ctx[v].row \in Deliveries
    BY Under DEF TypeInv
  <2>7. \A d \in Deliveries : d[2] <= deliveries[d[1]] => d # <<m, deliveries[m] + 1>>
    BY <2>2, <2>4
  <2>8. CASE UNCHANGED ctx
    BY <2>2, <2>5, <2>6, <2>8 DEF RowsInv, Conversations
  <2>9. CASE /\ ctx'[w].at = "find" /\ ctx'[w].row = <<m, deliveries[m] + 1>>
             /\ ctx'[w].row \in Deliveries
    <3>1. deliveries'[m] = deliveries[m] + 1
      BY <2>1, <2>2
    <3>2. ctx'[w].row[2] <= deliveries'[ctx'[w].row[1]]
      BY <2>2, <2>9, <3>1
    <3>3. \A v \in Workers : ctx'[v].at # "idle" => ctx'[v].row[2] <= deliveries'[ctx'[v].row[1]]
      BY <2>1, <2>5, <2>6, <3>2 DEF RowsInv
    <3>4. status[ctx'[w].row] = "none"
      BY <2>7, <2>9 DEF RowsInv, Conversations
    <3>5. \A v \in Workers : v # w /\ ctx[v].at # "idle" => ctx[v].row # ctx'[w].row
      BY <2>6, <2>7, <2>9 DEF RowsInv
    <3>6. \A v, u \in Workers :
            v # u /\ ctx'[v].at # "idle" /\ ctx'[u].at # "idle" => ctx'[v].row # ctx'[u].row
      BY <2>1, <3>5 DEF RowsInv
    <3>7. \A v \in Workers : ctx'[v].at \in {"find", "commit"} => status[ctx'[v].row] = "none"
      BY <2>1, <3>4 DEF RowsInv
    <3>8. \A c \in Conversations : status[c] # "none" => c[2] <= deliveries'[c[1]]
      BY <2>5 DEF RowsInv, Conversations
    <3> QED BY <2>2, <3>3, <3>6, <3>7, <3>8 DEF RowsInv
  <2> QED BY <2>1, <2>8, <2>9
<1>2. CASE ~ twilio_webhook(w)
  <2>1. /\ \A v \in Workers : v # w => ctx'[v] = ctx[v]
        /\ ctx[w].at # "idle" /\ ctx[w].row \in Deliveries /\ UNCHANGED <<task, deliveries>>
        /\ ctx'[w].at # "idle" => ctx'[w].row = ctx[w].row
        /\ ctx'[w].at \in {"find", "commit"} => ctx[w].at \in {"find", "commit"} /\ UNCHANGED status
        /\ \/ UNCHANGED status
           \/ status' = [status EXCEPT ![ctx[w].row] = "bot"]
    BY <1>2, WebhookGoes
  <2>2. /\ status \in [Conversations -> Statuses \cup {"none"}] /\ ctx[w].row \in Conversations
        /\ \A v \in Workers : ctx[v].at # "idle" => ctx[v].row \in Conversations
        /\ \A p \in Processes : task[p].at # "idle" => task[p].conversation \in Conversations
    BY <2>1, Under DEF TypeInv, TypeOK, Conversations
  <2>3. \A c \in Conversations : /\ c # ctx[w].row => status'[c] = status[c]
                                 /\ status[c] # "none" => status'[c] # "none"
    BY <2>1, <2>2
  <2>4. \A v \in Workers : ctx'[v].at # "idle" =>
          ctx[v].at # "idle" /\ ctx'[v].row = ctx[v].row
    BY <2>1
  <2>5. \A v \in Workers : ctx'[v].at # "idle" => ctx'[v].row[2] <= deliveries'[ctx'[v].row[1]]
    BY <2>1, <2>4 DEF RowsInv
  <2>6. \A v \in Workers : ctx'[v].at \in {"find", "commit"} => status'[ctx'[v].row] = "none"
    <3>1. ASSUME NEW v \in Workers, v # w, ctx'[v].at \in {"find", "commit"}
          PROVE  status'[ctx'[v].row] = "none"
      <4>1. ctx'[v] = ctx[v] /\ ctx[v].at \in {"find", "commit"} /\ ctx[v].row # ctx[w].row
        BY <2>1, <3>1 DEF RowsInv
      <4> QED BY <2>2, <2>3, <4>1 DEF RowsInv
    <3>2. ctx'[w].at \in {"find", "commit"} => status'[ctx'[w].row] = "none"
      BY <2>1 DEF RowsInv
    <3> QED BY <3>1, <3>2
  <2>7. \A v, u \in Workers :
          v # u /\ ctx'[v].at # "idle" /\ ctx'[u].at # "idle" => ctx'[v].row # ctx'[u].row
    BY <2>4 DEF RowsInv
  <2>8. \A c \in Conversations : status'[c] # "none" => c[2] <= deliveries'[c[1]]
    BY <2>1, <2>3 DEF RowsInv
  <2>9. \A p \in Processes : task'[p].at # "idle" => status'[task'[p].conversation] # "none"
    BY <2>1, <2>2, <2>3 DEF RowsInv
  <2> QED BY <2>5, <2>6, <2>7, <2>8, <2>9 DEF RowsInv
<1> QED BY <1>1, <1>2

(* The tasks and the staff make no conversation.                           *)
LEMMA RowsOthers ==
  ASSUME TypeInv, RowsInv, UNCHANGED <<ctx, deliveries>>,
         \A c \in Conversations : status'[c] = "none" <=> status[c] = "none",
         \A p \in Processes : task'[p].at # "idle" =>
            task'[p].conversation \in Conversations /\ status[task'[p].conversation] # "none"
  PROVE  RowsInv'
<1>1. \A w \in Workers : ctx[w].at # "idle" => ctx[w].row \in Conversations
  BY Under DEF TypeInv, Conversations
<1>2. \A w \in Workers : ctx'[w].at \in {"find", "commit"} => status'[ctx'[w].row] = "none"
  BY <1>1 DEF RowsInv
<1> QED BY <1>2 DEF RowsInv

LEMMA RowsTasks ==
  ASSUME TypeInv, RowsInv, NEW p \in Processes,
         process_inbound_message(p) \/ Work(p) \/ crash_task(p)
  PROVE  RowsInv'
<1> USE DEF rows, twilio
<1>0. /\ \A q \in Processes : task[q].at # "idle" => task[q].conversation \in Conversations
      /\ status \in [Conversations -> Statuses \cup {"none"}] /\ task \in [Processes -> Task]
  BY Under DEF TypeInv, TypeOK
<1>1. CASE process_inbound_message(p)
  <2>1. PICK d \in queue :
          \/ UNCHANGED task
          \/ task' = [task EXCEPT ![p] = [NoTask EXCEPT !.at = "session", !.row = d,
                                !.conversation = stored[d], !.status = status[stored[d]]]]
    BY <1>1 DEF process_inbound_message
  <2>2. stored[d] \in Conversations /\ status[stored[d]] # "none"
    BY DEF TypeInv, TypeOK, StoredInv
  <2> DEFINE new == [NoTask EXCEPT !.at = "session", !.row = d,
                                   !.conversation = stored[d], !.status = status[stored[d]]]
  <2>3. new.conversation = stored[d]
    BY DEF NoTask
  <2>4. UNCHANGED task \/ task' = [task EXCEPT ![p] = new]
    BY <2>1
  <2> HIDE DEF new
  <2>5. \A q \in Processes : task'[q] = task[q] \/ task'[q].conversation = stored[d]
    BY <1>0, <2>3, <2>4
  <2>6. UNCHANGED <<ctx, deliveries, status>>
    BY <1>1 DEF process_inbound_message
  <2> QED BY <1>0, <2>2, <2>5, <2>6, RowsOthers DEF RowsInv
<1>2. CASE Work(p) \/ crash_task(p)
  <2>1. /\ TaskGoesOn(p) /\ task[p].at # "idle" /\ task[p].conversation \in Conversations
        /\ task[p].status = "bot"
    BY <1>0, <1>2, WorkGoesOn DEF TypeInv, StoredInv
  <2>2. \A q \in Processes : \/ task'[q] = task[q] \/ task'[q].at = "idle"
                             \/ task[q].at # "idle" /\ task'[q].conversation = task[q].conversation
    BY <1>0, <2>1, Nothing DEF TaskGoesOn
  <2>3. UNCHANGED status \/ status' = [status EXCEPT ![task[p].conversation] = "bot"]
    BY <1>2, <2>1 DEF Work, get_session, process_message, send_whatsapp, fail, save_session,
                      escalate, crash_task
  <2>4. status[task[p].conversation] # "none"
    BY <2>1 DEF RowsInv
  <2>5. \A c \in Conversations : status'[c] = "none" <=> status[c] = "none"
    BY <1>0, <2>1, <2>3, <2>4
  <2>6. UNCHANGED <<ctx, deliveries>>
    BY <1>2 DEF Work, get_session, process_message, send_whatsapp, fail, save_session, escalate,
                crash_task
  <2> QED BY <1>0, <2>2, <2>5, <2>6, RowsOthers DEF RowsInv
<1> QED BY <1>1, <1>2

LEMMA RowsNext == TypeInv /\ RowsInv /\ [Next]_vars => RowsInv'
<1> SUFFICES ASSUME TypeInv, RowsInv, [Next]_vars PROVE RowsInv'
  OBVIOUS
<1>1. CASE UNCHANGED vars
  BY <1>1 DEF vars, rows, twilio, RowsInv
<1>2. ASSUME NEW c \in Conversations, mark_handoff(c) PROVE RowsInv'
  <2>1. /\ UNCHANGED <<ctx, deliveries, task>> /\ status[c] # "none"
        /\ status' = [status EXCEPT ![c] = "handoff"]
    BY <1>2 DEF mark_handoff, twilio
  <2>2. \A b \in Conversations : status'[b] = "none" <=> status[b] = "none"
    BY <2>1 DEF TypeInv, TypeOK
  <2>3. \A p \in Processes : task[p].at # "idle" => task[p].conversation \in Conversations
    BY Under DEF TypeInv
  <2> QED BY <2>1, <2>2, <2>3, RowsOthers DEF RowsInv
<1> QED BY <1>1, <1>2, RowsWebhook, RowsTasks DEF Next, WebhookStep

-----------------------------------------------------------------------------
(* Replies in a conversation that staff have taken over.                   *)

(* The processes whose task may still reply in the conversation.           *)
Bot(c) == {p \in Processes : /\ task[p].at \in {"session", "process", "send"}
                             /\ task[p].conversation = c}

(* Every handoff allows each process one late reply; those that are about  *)
(* to reply in a conversation that was handed off have theirs left.        *)
Kept(c) == late[c] + (IF handoffs[c] > 0 THEN Cardinality(Bot(c)) ELSE 0)
              <= Cardinality(Processes) * handoffs[c]

(* A conversation that no stale save took back stays in handoff.           *)
QuietInv ==
    \A c \in Conversations \ undone : (handoffs[c] > 0 => status[c] = "handoff") /\ Kept(c)

LEMMA Bots ==
  /\ Cardinality(Processes) \in Nat
  /\ \A c : IsFiniteSet(Bot(c)) /\ Cardinality(Bot(c)) \in 0 .. Cardinality(Processes)
<1>1. Cardinality(Processes) \in Nat
  BY ConversationsAssumption, FS_CardinalityType
<1>2. ASSUME NEW c PROVE IsFiniteSet(Bot(c)) /\ Cardinality(Bot(c)) \in 0 .. Cardinality(Processes)
  <2>1. Bot(c) \subseteq Processes
    BY DEF Bot
  <2>2. IsFiniteSet(Bot(c)) /\ Cardinality(Bot(c)) <= Cardinality(Processes)
    BY <2>1, FS_Subset, ConversationsAssumption
  <2> QED BY <1>1, <2>2, FS_CardinalityType
<1> QED BY <1>1, <1>2

(* The numbers that Kept compares, and what follows from it.               *)
LEMMA Amounts ==
  ASSUME TypeInv, NEW c \in Conversations
  PROVE  /\ late[c] \in Nat /\ handoffs[c] \in Nat /\ Cardinality(Bot(c)) \in Nat
         /\ Cardinality(Processes) * handoffs[c] \in Nat
         /\ Kept(c) => late[c] <= Cardinality(Processes) * handoffs[c]
<1> DEFINE bound == Cardinality(Processes) * handoffs[c]
<1>1. late[c] \in Nat /\ handoffs[c] \in Nat /\ Cardinality(Bot(c)) \in Nat
  BY Bots, ConversationsAssumption DEF TypeInv, TypeOK
<1>2. bound \in Nat
  BY <1>1, Bots
<1>3. Kept(c) => late[c] + (IF handoffs[c] > 0 THEN Cardinality(Bot(c)) ELSE 0) <= bound
  BY DEF Kept
<1> HIDE DEF bound
<1>4. Kept(c) => late[c] <= bound
  BY <1>1, <1>2, <1>3
<1> QED BY <1>1, <1>2, <1>4 DEF bound

(* A step keeps the bound where no reply is sent, staff ask for nothing    *)
(* and no task begins in a conversation that was handed off.               *)
LEMMA Silence ==
  ASSUME TypeInv, NEW c \in Conversations, Kept(c),
         late'[c] = late[c], handoffs'[c] = handoffs[c],
         handoffs[c] > 0 => Bot(c)' \subseteq Bot(c)
  PROVE  Kept(c)'
<1> DEFINE bound == Cardinality(Processes) * handoffs[c]
<1>1. late[c] \in Nat /\ handoffs[c] \in Nat /\ Cardinality(Bot(c)) \in Nat /\ bound \in Nat
  BY Amounts
<1>2. late[c] + (IF handoffs[c] > 0 THEN Cardinality(Bot(c)) ELSE 0) <= bound
  BY DEF Kept
<1> HIDE DEF bound
<1>3. CASE handoffs[c] > 0
  <2>1. Cardinality(Bot(c)') <= Cardinality(Bot(c)) /\ Cardinality(Bot(c)') \in Nat
    BY <1>3, Bots, FS_Subset, FS_CardinalityType
  <2>2. late'[c] + Cardinality(Bot(c)') <= bound
    BY <1>1, <1>2, <1>3, <2>1
  <2> QED BY <1>3, <2>2 DEF bound, Kept
<1>4. CASE ~ (handoffs[c] > 0)
  <2>1. late'[c] + 0 <= bound
    BY <1>1, <1>2, <1>4
  <2> QED BY <1>4, <2>1 DEF bound, Kept
<1> QED BY <1>3, <1>4

LEMMA QuietInit == Init => QuietInv
<1> SUFFICES ASSUME Init, NEW c \in Conversations
             PROVE  (handoffs[c] > 0 => status[c] = "handoff") /\ Kept(c)
  BY DEF QuietInv
<1>1. late[c] = 0 /\ handoffs[c] = 0
  BY DEF Init
<1> QED BY <1>1, Bots DEF Kept

(* The reply leaves one task less that may send one.                       *)
LEMMA QuietSend ==
  ASSUME TypeInv, NEW p \in Processes, send_whatsapp(p),
         NEW c \in Conversations, c = task[p].conversation, handoffs[c] > 0, Kept(c),
         Bot(c)' \subseteq Bot(c)
  PROVE  Kept(c)'
<1>0. task \in [Processes -> Task] /\ late \in [Conversations -> Nat]
  BY DEF TypeInv, TypeOK
<1>1. /\ task[p].at = "send" /\ UNCHANGED handoffs
      /\ late' = [late EXCEPT ![c] = @ + 1]
      /\ task' = [task EXCEPT ![p].at = "save"] \/ task' = [task EXCEPT ![p] = NoTask]
  BY DEF send_whatsapp, Finish
<1>2. task'[p].at \notin {"session", "process", "send"}
  BY <1>1, WorkGoesOn DEF Forward, Work
<1>3. p \in Bot(c) /\ p \notin Bot(c)'
  BY <1>1, <1>2 DEF Bot
<1>4. Bot(c)' \subseteq Bot(c) \ {p}
  BY <1>3
<1>5. /\ IsFiniteSet(Bot(c) \ {p})
      /\ Cardinality(Bot(c) \ {p}) = Cardinality(Bot(c)) - 1
  BY <1>3, Bots, FS_RemoveElement
<1>6. Cardinality(Bot(c)') <= Cardinality(Bot(c)) - 1 /\ Cardinality(Bot(c)') \in Nat
  BY <1>4, <1>5, FS_Subset, FS_CardinalityType
<1> DEFINE bound == Cardinality(Processes) * handoffs[c]
<1>7. late[c] \in Nat /\ Cardinality(Bot(c)) \in Nat /\ bound \in Nat
  BY Amounts
<1>8. late[c] + Cardinality(Bot(c)) <= bound
  BY DEF Kept
<1>9. late'[c] = late[c] + 1
  BY <1>0, <1>1
<1> HIDE DEF bound
<1>10. late'[c] + Cardinality(Bot(c)') <= bound
  BY <1>6, <1>7, <1>8, <1>9
<1> QED BY <1>1, <1>10 DEF bound, Kept

LEMMA QuietWork ==
  ASSUME TypeInv, QuietInv, NEW p \in Processes, Work(p) \/ crash_task(p)
  PROVE  QuietInv'
<1> USE DEF rows, counts
<1>0. /\ task \in [Processes -> Task] /\ task[p].conversation \in Conversations
      /\ late \in [Conversations -> Nat]
      /\ status \in [Conversations -> Statuses \cup {"none"}]
  BY WorkGoesOn, Under DEF TypeInv, TypeOK
<1>1. undone \subseteq undone' /\ UNCHANGED handoffs
  BY DEF Work, get_session, process_message, send_whatsapp, fail, save_session, escalate,
         crash_task
<1> SUFFICES ASSUME NEW c \in Conversations, c \notin undone'
             PROVE  (handoffs'[c] > 0 => status'[c] = "handoff") /\ Kept(c)'
  BY DEF QuietInv
<1>2. c \notin undone /\ (handoffs[c] > 0 => status[c] = "handoff") /\ Kept(c)
  BY <1>1 DEF QuietInv
<1>3. handoffs'[c] > 0 => status'[c] = "handoff"
  <2>1. CASE escalate(p)
    <3>1. /\ status' = [status EXCEPT ![task[p].conversation] = task[p].status]
          /\ status[task[p].conversation] = "handoff" => task[p].conversation \in undone'
      BY <2>1 DEF escalate
    <3>2. CASE c = task[p].conversation
      BY <1>1, <1>2, <3>1, <3>2
    <3>3. CASE c # task[p].conversation
      BY <1>0, <1>1, <1>2, <3>1, <3>3
    <3> QED BY <3>2, <3>3
  <2>2. CASE ~ escalate(p)
    <3>1. UNCHANGED status
      BY <2>2 DEF Work, get_session, process_message, send_whatsapp, fail, save_session,
                  crash_task
    <3> QED BY <1>1, <1>2, <3>1
  <2> QED BY <2>1, <2>2
<1>4. Bot(c)' \subseteq Bot(c)
  <2>1. \A q \in Processes : q # p => task'[q] = task[q]
    BY <1>0, WorkGoesOn DEF TaskGoesOn
  <2>2. task'[p].at # "idle" => task'[p].conversation = task[p].conversation
    BY <1>0, WorkGoesOn, Nothing DEF TaskGoesOn
  <2> QED BY <2>1, <2>2, WorkGoesOn DEF Bot, Forward
<1>5. CASE late'[c] = late[c]
  BY <1>1, <1>2, <1>3, <1>4, <1>5, Silence
<1>6. CASE late'[c] # late[c]
  <2>1. send_whatsapp(p)
    BY <1>6 DEF Work, get_session, process_message, fail, save_session, escalate, crash_task
  <2>2. c = task[p].conversation /\ handoffs[c] > 0
    BY <1>0, <1>6, <2>1 DEF send_whatsapp
  <2> QED BY <1>2, <1>3, <1>4, <2>1, <2>2, QuietSend
<1> QED BY <1>5, <1>6

LEMMA QuietHandoff ==
  ASSUME TypeInv, QuietInv, NEW b \in Conversations, mark_handoff(b)
  PROVE  QuietInv'
<1>1. /\ status' = [status EXCEPT ![b] = "handoff"] /\ handoffs' = [handoffs EXCEPT ![b] = @ + 1]
      /\ UNCHANGED <<late, undone, task>>
  BY DEF mark_handoff
<1> SUFFICES ASSUME NEW c \in Conversations \ undone
             PROVE  (handoffs'[c] > 0 => status'[c] = "handoff") /\ Kept(c)'
  BY <1>1 DEF QuietInv
<1>2. Bot(c)' = Bot(c) /\ Kept(c) /\ (handoffs[c] > 0 => status[c] = "handoff")
  BY <1>1 DEF Bot, QuietInv
<1>3. CASE c # b
  <2>1. handoffs'[c] = handoffs[c] /\ status'[c] = status[c]
    BY <1>1, <1>3 DEF TypeInv, TypeOK
  <2> QED BY <1>1, <1>2, <2>1, Silence
<1>4. CASE c = b
  <2> DEFINE n == Cardinality(Processes)
  <2>1. handoffs'[c] = handoffs[c] + 1 /\ status'[c] = "handoff"
    BY <1>1, <1>4 DEF TypeInv, TypeOK
  <2>2. late[c] \in Nat /\ handoffs[c] \in Nat /\ n \in Nat /\ Cardinality(Bot(c)) \in 0 .. n
    BY Bots, Amounts
  <2>3. late[c] <= n * handoffs[c]
    BY <1>2, Amounts
  <2> HIDE DEF n
  <2>4. n * (handoffs[c] + 1) = n * handoffs[c] + n /\ n * handoffs[c] \in Nat
    BY <2>2
  <2>5. late[c] + Cardinality(Bot(c)) <= n * (handoffs[c] + 1)
    BY <2>2, <2>3, <2>4
  <2>6. handoffs'[c] > 0
    BY <2>1, <2>2
  <2> QED BY <1>1, <1>2, <2>1, <2>5, <2>6 DEF n, Kept
<1> QED BY <1>3, <1>4

(* A conversation that is made was not there to be handed off.             *)
LEMMA QuietWebhook ==
  ASSUME TypeInv, RowsInv, QuietInv, NEW w \in Workers, WebhookStep(w)
  PROVE  QuietInv'
<1>1. UNCHANGED <<late, handoffs, undone, task>>
  BY DEF WebhookStep, twilio_webhook, time_out, get_or_create_conversation, commit, enqueue,
         answer, crash, counts
<1> SUFFICES ASSUME NEW c \in Conversations \ undone
             PROVE  (handoffs'[c] > 0 => status'[c] = "handoff") /\ Kept(c)'
  BY <1>1 DEF QuietInv
<1>2. Bot(c)' = Bot(c) /\ Kept(c) /\ (handoffs[c] > 0 => status[c] = "handoff")
  BY <1>1 DEF Bot, QuietInv
<1>3. status[c] = "handoff" => status'[c] = "handoff"
  <2>1. CASE twilio_webhook(w)
    BY <2>1 DEF twilio_webhook, rows
  <2>2. CASE ~ twilio_webhook(w)
    <3>1. \/ UNCHANGED status
          \/ /\ ctx[w].at = "commit" /\ ctx[w].row \in Deliveries
             /\ status' = [status EXCEPT ![ctx[w].row] = "bot"]
      BY <2>2, WebhookGoes
    <3>2. ctx[w].at = "commit" => status[ctx[w].row] = "none"
      BY DEF RowsInv
    <3> QED BY <3>1, <3>2 DEF TypeInv, TypeOK, Conversations
  <2> QED BY <2>1, <2>2
<1>4. Kept(c)'
  BY <1>1, <1>2, Silence
<1> QED BY <1>1, <1>2, <1>3, <1>4

LEMMA QuietBegin ==
  ASSUME TypeInv, QuietInv, NEW p \in Processes, process_inbound_message(p)
  PROVE  QuietInv'
<1>1. /\ UNCHANGED <<status, late, handoffs, undone>>
      /\ \A q \in Processes : q # p => task'[q] = task[q]
      /\ task'[p] = task[p] \/ status[task'[p].conversation] # "handoff"
  BY BeginType
<1> SUFFICES ASSUME NEW c \in Conversations \ undone
             PROVE  (handoffs'[c] > 0 => status'[c] = "handoff") /\ Kept(c)'
  BY <1>1 DEF QuietInv
<1>2. Kept(c) /\ (handoffs[c] > 0 => status[c] = "handoff")
  BY DEF QuietInv
<1>3. handoffs[c] > 0 => Bot(c)' \subseteq Bot(c)
  BY <1>1, <1>2 DEF Bot
<1>4. Kept(c)'
  BY <1>1, <1>2, <1>3, Silence
<1> QED BY <1>1, <1>2, <1>4

LEMMA QuietNext == TypeInv /\ RowsInv /\ QuietInv /\ [Next]_vars => QuietInv'
<1> SUFFICES ASSUME TypeInv, RowsInv, QuietInv, [Next]_vars PROVE QuietInv'
  OBVIOUS
<1>1. CASE UNCHANGED vars
  BY <1>1 DEF vars, rows, counts, QuietInv, Kept, Bot
<1> QED BY <1>1, QuietWebhook, QuietBegin, QuietWork, QuietHandoff DEF Next, WebhookStep

(* Once staff have taken a conversation over the bot says in it what it    *)
(* was about to say, one reply per process and request for a handoff, and  *)
(* no more, unless a save of an earlier copy gives it back to the bot,     *)
(* however many messages, workers and deaths there are                     *)
(* (process_inbound_message, ConversationHandoffView.post).                *)
THEOREM HandoffIsQuiet == Spec => []TakenOverIsQuiet
<1>1. TypeInv /\ QuietInv => TakenOverIsQuiet
  BY Amounts DEF QuietInv, TakenOverIsQuiet
<1>2. Spec => [](TypeInv /\ RowsInv /\ QuietInv)
  BY TypeInit, TypeNext, RowsInit, RowsNext, QuietInit, QuietNext, PTL DEF Spec
<1> QED BY <1>1, <1>2, PTL

-----------------------------------------------------------------------------
(* Replies to one message.                                                 *)

(* What may still become a reply to the message: a webhook that has not    *)
(* queued it yet, a task that waits and one that is at work.               *)
Coming(m) == {w \in Workers : ctx[w].at \in {"find", "commit", "enqueue"} /\ ctx[w].row[1] = m}
Waiting(m) == {d \in queue : d[1] = m}
Owing(m) == {p \in Processes : task[p].at \in {"session", "process", "send"} /\ task[p].row[1] = m}

Finite(m) == IsFiniteSet(Replies(m)) /\ IsFiniteSet(Waiting(m))

Said(m) == Cardinality(Replies(m)) + Cardinality(Owing(m))
             + Cardinality(Waiting(m)) + Cardinality(Coming(m))

(* Twilio may send it again: it got no 200 and waits for none.             *)
Sendable(m) == m \notin answered /\ \A w \in Workers : ctx[w].awaited => ctx[w].row[1] # m
Chance(m) == IF Sendable(m) THEN 1 ELSE 0

(* The first delivery, every time-out and every death allow a reply, and   *)
(* what Twilio may still send needs one of these.                          *)
Budget(m) ==
    /\ Finite(m)
    /\ Said(m) + Chance(m) <= 1 + timeouts[m] + crashes
    /\ Said(m) + notices[m] <= deliveries[m] + crashes

ReplyInv == \A m \in Messages : Budget(m)

LEMMA Grows ==
  ASSUME NEW S, NEW T, NEW x, IsFiniteSet(S), T \subseteq S \cup {x}
  PROVE  /\ IsFiniteSet(T) /\ Cardinality(S) \in Nat /\ Cardinality(T) \in Nat
         /\ Cardinality(T) <= Cardinality(S) + 1
         /\ T \subseteq S => Cardinality(T) <= Cardinality(S)
         /\ T \subseteq S \ {x} /\ x \in S => Cardinality(T) + 1 <= Cardinality(S)
<1>1. /\ IsFiniteSet(S \cup {x}) /\ Cardinality(S) \in Nat
      /\ Cardinality(S \cup {x}) \in {Cardinality(S), Cardinality(S) + 1}
  BY FS_AddElement, FS_CardinalityType
<1>2. /\ IsFiniteSet(T) /\ Cardinality(T) \in Nat
      /\ Cardinality(T) <= Cardinality(S \cup {x})
  BY <1>1, FS_Subset, FS_CardinalityType
<1>3. Cardinality(T) <= Cardinality(S) + 1
  BY <1>1, <1>2
<1>4. T \subseteq S => Cardinality(T) <= Cardinality(S)
  BY FS_Subset
<1>5. ASSUME T \subseteq S \ {x}, x \in S PROVE Cardinality(T) + 1 <= Cardinality(S)
  <2>1. IsFiniteSet(S \ {x}) /\ Cardinality(S \ {x}) = Cardinality(S) - 1
    BY <1>5, FS_RemoveElement
  <2>2. Cardinality(T) <= Cardinality(S \ {x})
    BY <1>5, <2>1, FS_Subset
  <2> QED BY <1>1, <1>2, <2>1, <2>2
<1> QED BY <1>1, <1>2, <1>3, <1>4, <1>5

LEMMA Counted ==
  ASSUME NEW m, Finite(m)
  PROVE  /\ IsFiniteSet(Coming(m)) /\ IsFiniteSet(Owing(m))
         /\ Cardinality(Replies(m)) \in Nat /\ Cardinality(Owing(m)) \in Nat
         /\ Cardinality(Waiting(m)) \in Nat /\ Cardinality(Coming(m)) \in Nat
         /\ Said(m) \in Nat
<1>1. Coming(m) \subseteq Workers /\ Owing(m) \subseteq Processes
  BY DEF Coming, Owing
<1>2. IsFiniteSet(Coming(m)) /\ IsFiniteSet(Owing(m))
  BY <1>1, ConversationsAssumption, FS_Subset
<1> QED BY <1>2, FS_CardinalityType DEF Finite, Said

(* A step that adds nothing to what may be said.                           *)
LEMMA SaidKept ==
  ASSUME NEW m, Finite(m),
         Replies(m)' \subseteq Replies(m), Owing(m)' \subseteq Owing(m),
         Waiting(m)' \subseteq Waiting(m), Coming(m)' \subseteq Coming(m)
  PROVE  Finite(m)' /\ Said(m)' \in Nat /\ Said(m)' <= Said(m)
<1>1. ASSUME NEW S, NEW T, IsFiniteSet(S), T \subseteq S
      PROVE  IsFiniteSet(T) /\ Cardinality(T) \in Nat /\ Cardinality(T) <= Cardinality(S)
  BY <1>1, Grows
<1>2. /\ IsFiniteSet(Replies(m)') /\ Cardinality(Replies(m)') \in Nat
      /\ Cardinality(Replies(m)') <= Cardinality(Replies(m))
  BY <1>1 DEF Finite
<1>3. /\ IsFiniteSet(Waiting(m)') /\ Cardinality(Waiting(m)') \in Nat
      /\ Cardinality(Waiting(m)') <= Cardinality(Waiting(m))
  BY <1>1 DEF Finite
<1>4. Cardinality(Owing(m)') \in Nat /\ Cardinality(Owing(m)') <= Cardinality(Owing(m))
  BY <1>1, Counted
<1>5. Cardinality(Coming(m)') \in Nat /\ Cardinality(Coming(m)') <= Cardinality(Coming(m))
  BY <1>1, Counted
<1> QED BY <1>2, <1>3, <1>4, <1>5, Counted DEF Finite, Said

(* One delivery or one queued task more.                                   *)
LEMMA SaidGrows ==
  ASSUME NEW m, NEW x, Finite(m),
         Replies(m)' \subseteq Replies(m), Owing(m)' \subseteq Owing(m),
         \/ Waiting(m)' \subseteq Waiting(m) \cup {x} /\ Coming(m)' \subseteq Coming(m)
         \/ Waiting(m)' \subseteq Waiting(m) /\ Coming(m)' \subseteq Coming(m) \cup {x}
  PROVE  Finite(m)' /\ Said(m)' \in Nat /\ Said(m)' <= Said(m) + 1
<1>1. ASSUME NEW S, NEW T, IsFiniteSet(S), T \subseteq S
      PROVE  IsFiniteSet(T) /\ Cardinality(T) \in Nat /\ Cardinality(T) <= Cardinality(S)
  BY <1>1, Grows
<1>2. Cardinality(Replies(m)') \in Nat /\ Cardinality(Replies(m)') <= Cardinality(Replies(m))
      /\ IsFiniteSet(Replies(m)')
  BY <1>1 DEF Finite
<1>3. Cardinality(Owing(m)') \in Nat /\ Cardinality(Owing(m)') <= Cardinality(Owing(m))
  BY <1>1, Counted
<1>4. /\ IsFiniteSet(Waiting(m)') /\ Cardinality(Waiting(m)') \in Nat
      /\ Cardinality(Coming(m)') \in Nat
      /\ \/ /\ Cardinality(Waiting(m)') <= Cardinality(Waiting(m)) + 1
            /\ Cardinality(Coming(m)') <= Cardinality(Coming(m))
         \/ /\ Cardinality(Waiting(m)') <= Cardinality(Waiting(m))
            /\ Cardinality(Coming(m)') <= Cardinality(Coming(m)) + 1
  <2>1. IsFiniteSet(Waiting(m)) /\ IsFiniteSet(Coming(m))
    BY Counted DEF Finite
  <2>2. CASE Waiting(m)' \subseteq Waiting(m) \cup {x} /\ Coming(m)' \subseteq Coming(m)
    BY <1>1, <2>1, <2>2, Grows
  <2>3. CASE Waiting(m)' \subseteq Waiting(m) /\ Coming(m)' \subseteq Coming(m) \cup {x}
    BY <1>1, <2>1, <2>3, Grows
  <2> QED BY <2>2, <2>3
<1> QED BY <1>2, <1>3, <1>4, Counted DEF Finite, Said

(* What comes is queued, what waits is taken up, what was taken up is said.*)
LEMMA SaidMoves ==
  ASSUME NEW m, NEW x, NEW y, Finite(m),
         \/ /\ Replies(m)' \subseteq Replies(m) /\ Owing(m)' \subseteq Owing(m)
            /\ Waiting(m)' \subseteq Waiting(m) \cup {y}
            /\ x \in Coming(m) /\ Coming(m)' \subseteq Coming(m) \ {x}
         \/ /\ Replies(m)' \subseteq Replies(m) /\ Owing(m)' \subseteq Owing(m) \cup {y}
            /\ x \in Waiting(m) /\ Waiting(m)' \subseteq Waiting(m) \ {x}
            /\ Coming(m)' \subseteq Coming(m)
         \/ /\ Replies(m)' \subseteq Replies(m) \cup {y}
            /\ x \in Owing(m) /\ Owing(m)' \subseteq Owing(m) \ {x}
            /\ Waiting(m)' \subseteq Waiting(m) /\ Coming(m)' \subseteq Coming(m)
  PROVE  Finite(m)' /\ Said(m)' \in Nat /\ Said(m)' <= Said(m)
<1> DEFINE R == Cardinality(Replies(m))
           O == Cardinality(Owing(m))
           W == Cardinality(Waiting(m))
           C == Cardinality(Coming(m))
<1>1. ASSUME NEW S, NEW T, IsFiniteSet(S), T \subseteq S
      PROVE  IsFiniteSet(T) /\ Cardinality(T) \in Nat /\ Cardinality(T) <= Cardinality(S)
  BY <1>1, Grows
<1>2. /\ IsFiniteSet(Replies(m)) /\ IsFiniteSet(Owing(m))
      /\ IsFiniteSet(Waiting(m)) /\ IsFiniteSet(Coming(m))
      /\ R \in Nat /\ O \in Nat /\ W \in Nat /\ C \in Nat
  BY Counted DEF Finite
<1>3. /\ IsFiniteSet(Replies(m)') /\ IsFiniteSet(Waiting(m)')
      /\ R' \in Nat /\ O' \in Nat /\ W' \in Nat /\ C' \in Nat
      /\ \/ R' <= R /\ O' <= O /\ W' <= W + 1 /\ C' + 1 <= C
         \/ R' <= R /\ O' <= O + 1 /\ W' + 1 <= W /\ C' <= C
         \/ R' <= R + 1 /\ O' + 1 <= O /\ W' <= W /\ C' <= C
  <2>1. CASE /\ Replies(m)' \subseteq Replies(m) /\ Owing(m)' \subseteq Owing(m)
             /\ Waiting(m)' \subseteq Waiting(m) \cup {y}
             /\ x \in Coming(m) /\ Coming(m)' \subseteq Coming(m) \ {x}
    <3>1. R' \in Nat /\ R' <= R /\ IsFiniteSet(Replies(m)') /\ O' \in Nat /\ O' <= O
      BY <1>1, <1>2, <2>1
    <3>2. IsFiniteSet(Waiting(m)') /\ W' \in Nat /\ W' <= W + 1
      BY <1>2, <2>1, Grows
    <3>3. Coming(m)' \subseteq Coming(m) \cup {x}
      BY <2>1
    <3>4. C' \in Nat /\ C' + 1 <= C
      BY <1>2, <2>1, <3>3, Grows
    <3> QED BY <3>1, <3>2, <3>4
  <2>2. CASE /\ Replies(m)' \subseteq Replies(m) /\ Owing(m)' \subseteq Owing(m) \cup {y}
             /\ x \in Waiting(m) /\ Waiting(m)' \subseteq Waiting(m) \ {x}
             /\ Coming(m)' \subseteq Coming(m)
    <3>1. R' \in Nat /\ R' <= R /\ IsFiniteSet(Replies(m)') /\ C' \in Nat /\ C' <= C
      BY <1>1, <1>2, <2>2
    <3>2. O' \in Nat /\ O' <= O + 1
      BY <1>2, <2>2, Grows
    <3>3. Waiting(m)' \subseteq Waiting(m) \cup {x}
      BY <2>2
    <3>4. IsFiniteSet(Waiting(m)') /\ W' \in Nat /\ W' + 1 <= W
      BY <1>2, <2>2, <3>3, Grows
    <3> QED BY <3>1, <3>2, <3>4
  <2>3. CASE /\ Replies(m)' \subseteq Replies(m) \cup {y}
             /\ x \in Owing(m) /\ Owing(m)' \subseteq Owing(m) \ {x}
             /\ Waiting(m)' \subseteq Waiting(m) /\ Coming(m)' \subseteq Coming(m)
    <3>1. W' \in Nat /\ W' <= W /\ IsFiniteSet(Waiting(m)') /\ C' \in Nat /\ C' <= C
      BY <1>1, <1>2, <2>3
    <3>2. IsFiniteSet(Replies(m)') /\ R' \in Nat /\ R' <= R + 1
      BY <1>2, <2>3, Grows
    <3>3. Owing(m)' \subseteq Owing(m) \cup {x}
      BY <2>3
    <3>4. O' \in Nat /\ O' + 1 <= O
      BY <1>2, <2>3, <3>3, Grows
    <3> QED BY <3>1, <3>2, <3>4
  <2> QED BY <2>1, <2>2, <2>3
<1>4. Said(m) = R + O + W + C /\ Said(m)' = R' + O' + W' + C'
  BY DEF Said
<1> HIDE DEF R, O, W, C
<1>5. PICK r \in Nat, o \in Nat, w \in Nat, c \in Nat,
           r2 \in Nat, o2 \in Nat, w2 \in Nat, c2 \in Nat :
        /\ r = R /\ o = O /\ w = W /\ c = C /\ r2 = R' /\ o2 = O' /\ w2 = W' /\ c2 = C'
  BY <1>2, <1>3
<1>6. \/ r2 <= r /\ o2 <= o /\ w2 <= w + 1 /\ c2 + 1 <= c
      \/ r2 <= r /\ o2 <= o + 1 /\ w2 + 1 <= w /\ c2 <= c
      \/ r2 <= r + 1 /\ o2 + 1 <= o /\ w2 <= w /\ c2 <= c
  BY <1>3, <1>5
<1>7. r2 + o2 + w2 + c2 \in Nat /\ r2 + o2 + w2 + c2 <= r + o + w + c
  BY <1>6
<1>8. Said(m) = r + o + w + c /\ Said(m)' = r2 + o2 + w2 + c2
  BY <1>4, <1>5
<1> QED BY <1>3, <1>7, <1>8 DEF Finite

(* The budget is kept where what may be said grows by no more than what    *)
(* allows it.                                                              *)
LEMMA BudgetStep ==
  ASSUME TypeInv, TypeInv', NEW m \in Messages, Budget(m), NEW g \in {0, 1},
         Finite(m)', Said(m)' \in Nat, Said(m)' <= Said(m) + g,
         Chance(m)' + g + timeouts[m] + crashes <= Chance(m) + timeouts'[m] + crashes',
         g + notices'[m] + deliveries[m] + crashes <= notices[m] + deliveries'[m] + crashes'
  PROVE  Budget(m)'
<1>1. /\ timeouts[m] \in Nat /\ notices[m] \in Nat /\ deliveries[m] \in Int /\ crashes \in Int
      /\ timeouts'[m] \in Nat /\ notices'[m] \in Nat /\ deliveries'[m] \in Int /\ crashes' \in Int
  BY ConversationsAssumption DEF TypeInv, TypeOK
<1>2. Said(m) \in Nat /\ Chance(m) \in Nat /\ Chance(m)' \in Nat
  BY Counted DEF Budget, Chance
<1>3. Said(m)' + Chance(m)' <= 1 + timeouts'[m] + crashes'
  BY <1>1, <1>2 DEF Budget
<1>4. Said(m)' + notices'[m] <= deliveries'[m] + crashes'
  BY <1>1, <1>2 DEF Budget
<1> QED BY <1>3, <1>4 DEF Budget

(* A step that changes none of the counters and sends nothing again.       *)
LEMMA BudgetKept ==
  ASSUME TypeInv, TypeInv', NEW m \in Messages, Budget(m),
         Finite(m)', Said(m)' \in Nat, Said(m)' <= Said(m), Sendable(m)' => Sendable(m),
         timeouts'[m] = timeouts[m], UNCHANGED <<notices, deliveries, crashes>>
  PROVE  Budget(m)'
<1>1. /\ timeouts[m] \in Nat /\ notices[m] \in Nat /\ deliveries[m] \in Int /\ crashes \in Int
  BY ConversationsAssumption DEF TypeInv, TypeOK
<1>2. Said(m) \in Nat /\ Said(m)' <= Said(m) + 0
  BY Counted DEF Budget
<1>3. Chance(m)' <= Chance(m) /\ Chance(m) \in Nat /\ Chance(m)' \in Nat
  BY DEF Chance
<1> QED BY <1>1, <1>2, <1>3, BudgetStep

LEMMA RowsOfMessages ==
  ASSUME TypeInv
  PROVE  /\ \A d \in Deliveries : d[1] \in Messages
         /\ \A m \in Messages :
              \A d : d \in {m} \X (1 .. MaxDeliveries) <=> (d \in Deliveries /\ d[1] = m)
BY DEF Deliveries

LEMMA ReplyInit == Init => ReplyInv
<1> SUFFICES ASSUME Init, NEW m \in Messages PROVE Budget(m)
  BY DEF ReplyInv
<1>1. Replies(m) = {}
  <2>1. ASSUME NEW d \in {m} \X (1 .. MaxDeliveries) PROVE 1 .. replies[d] = {}
    BY <2>1 DEF Init, Deliveries
  <2> QED BY <2>1 DEF Replies
<1>2. Waiting(m) = {} /\ Owing(m) = {} /\ Coming(m) = {}
  BY Nothing DEF Init, Waiting, Owing, Coming
<1>3. Finite(m) /\ Said(m) = 0
  BY <1>1, <1>2, FS_EmptySet DEF Finite, Said
<1>4. crashes = 0 /\ timeouts[m] = 0 /\ notices[m] = 0 /\ deliveries[m] = 0
  BY DEF Init
<1>5. Chance(m) \in {0, 1}
  BY DEF Chance
<1> QED BY <1>3, <1>4, <1>5 DEF Budget

(* A delivery that is taken up uses what allowed it.                       *)
LEMMA ReplySends ==
  ASSUME TypeInv, TypeInv', ReplyInv, NEW w \in Workers, twilio_webhook(w), NEW m \in Messages
  PROVE  Budget(m)'
<1>1. PICK n \in Messages \ answered :
        /\ deliveries' = [deliveries EXCEPT ![n] = @ + 1]
        /\ \A v \in Workers : ctx[v].awaited => ctx[v].row[1] # n
        /\ ctx[w].at = "idle" /\ \A v \in Workers : v # w => ctx'[v] = ctx[v]
        /\ \/ /\ ctx'[w].at = "find" /\ ctx'[w].awaited /\ ctx'[w].row = <<n, deliveries[n] + 1>>
              /\ UNCHANGED notices
           \/ UNCHANGED <<ctx, notices>>
           \/ notices' = [notices EXCEPT ![n] = @ + 1] /\ UNCHANGED ctx
  BY Sends
<1>2. UNCHANGED <<queue, task, replies, timeouts, answered, crashes>>
  BY DEF twilio_webhook, counts
<1>3. /\ Replies(m)' = Replies(m) /\ Owing(m)' = Owing(m) /\ Waiting(m)' = Waiting(m)
      /\ Budget(m) /\ Finite(m)
  BY <1>2 DEF Replies, Owing, Waiting, ReplyInv, Budget
<1>4. /\ deliveries[m] \in Int /\ notices[m] \in Nat /\ timeouts[m] \in Nat /\ crashes \in Int
      /\ deliveries \in [Messages -> Int] /\ notices \in [Messages -> Nat]
  BY ConversationsAssumption DEF TypeInv, TypeOK
<1>5. Chance(m) \in {0, 1} /\ Chance(m)' \in {0, 1}
  BY DEF Chance
<1>6. CASE UNCHANGED ctx
  <2>1. Coming(m)' = Coming(m) /\ Chance(m)' = Chance(m)
    BY <1>2, <1>6 DEF Coming, Chance, Sendable
  <2>2. Finite(m)' /\ Said(m)' \in Nat /\ Said(m)' <= Said(m)
    BY <1>3, <2>1, SaidKept
  <2>3. Said(m)' <= Said(m) + 0
    BY <1>3, <2>2, Counted
  <2>4. \/ deliveries'[m] = deliveries[m] /\ notices'[m] = notices[m]
        \/ deliveries'[m] = deliveries[m] + 1 /\ notices'[m] \in {notices[m], notices[m] + 1}
    <3>1. \/ ctx'[w].at = "find" /\ UNCHANGED notices
          \/ UNCHANGED notices
          \/ notices' = [notices EXCEPT ![n] = @ + 1]
      BY <1>1
    <3>2. CASE n = m
      BY <1>1, <1>4, <3>1, <3>2
    <3>3. CASE n # m
      BY <1>1, <1>4, <3>1, <3>3
    <3> QED BY <3>2, <3>3
  <2>5. 0 + notices'[m] + deliveries[m] + crashes <= notices[m] + deliveries'[m] + crashes'
    BY <1>2, <1>4, <2>4
  <2>6. Chance(m)' + 0 + timeouts[m] + crashes <= Chance(m) + timeouts'[m] + crashes'
    BY <1>2, <1>4, <1>5, <2>1
  <2> QED BY <1>3, <2>2, <2>3, <2>5, <2>6, BudgetStep
<1>7. CASE /\ ctx'[w].at = "find" /\ ctx'[w].awaited /\ ctx'[w].row = <<n, deliveries[n] + 1>>
           /\ UNCHANGED notices
  <2>0. ctx'[w].row[1] = n
    BY <1>7
  <2>1. CASE n = m
    <3>1. Coming(m)' \subseteq Coming(m) \cup {w}
      BY <1>1 DEF Coming
    <3>2. Finite(m)' /\ Said(m)' \in Nat /\ Said(m)' <= Said(m) + 1
      BY <1>3, <3>1, SaidGrows
    <3>3. Chance(m) = 1 /\ Chance(m)' = 0
      BY <1>1, <1>7, <2>0, <2>1 DEF Chance, Sendable
    <3>4. deliveries'[m] = deliveries[m] + 1 /\ notices'[m] = notices[m]
      BY <1>1, <1>4, <1>7, <2>1
    <3>5. 1 + notices'[m] + deliveries[m] + crashes <= notices[m] + deliveries'[m] + crashes'
      BY <1>2, <1>4, <3>4
    <3>6. Chance(m)' + 1 + timeouts[m] + crashes <= Chance(m) + timeouts'[m] + crashes'
      BY <1>2, <1>4, <3>3
    <3> QED BY <1>3, <3>2, <3>5, <3>6, BudgetStep
  <2>2. CASE n # m
    <3>1. Coming(m)' \subseteq Coming(m)
      BY <1>1, <2>0, <2>2 DEF Coming
    <3>2. Finite(m)' /\ Said(m)' \in Nat /\ Said(m)' <= Said(m) + 0
      <4>1. Finite(m)' /\ Said(m)' \in Nat /\ Said(m)' <= Said(m)
        BY <1>3, <3>1, SaidKept
      <4> QED BY <1>3, <4>1, Counted
    <3>3. Chance(m)' <= Chance(m)
      <4>1. ctx[w] = NoWebhook
        BY <1>1 DEF TypeInv, TypeOK, Webhook
      <4>2. ~ ctx[w].awaited
        BY <4>1, Nothing
      <4>3. Sendable(m)' => Sendable(m)
        BY <1>1, <1>2, <4>2 DEF Sendable
      <4> QED BY <4>3 DEF Chance
    <3>4. deliveries'[m] = deliveries[m] /\ notices'[m] = notices[m]
      BY <1>1, <1>4, <1>7, <2>2
    <3>5. 0 + notices'[m] + deliveries[m] + crashes <= notices[m] + deliveries'[m] + crashes'
      BY <1>2, <1>4, <3>4
    <3>6. Chance(m)' + 0 + timeouts[m] + crashes <= Chance(m) + timeouts'[m] + crashes'
      BY <1>2, <1>4, <1>5, <3>3
    <3> QED BY <1>3, <3>2, <3>5, <3>6, BudgetStep
  <2> QED BY <2>1, <2>2
<1> QED BY <1>1, <1>6, <1>7

(* Only an answer that is not waited for, or lost with its worker, lets    *)
(* Twilio send again.                                                      *)
LEMMA ReplyWebhook ==
  ASSUME TypeInv, TypeInv', ReplyInv, NEW w \in Workers, WebhookStep(w), ~ twilio_webhook(w),
         NEW m \in Messages
  PROVE  Budget(m)'
<1> USE DEF rows, twilio, counts
<1>0. Budget(m) /\ Finite(m)
  BY DEF ReplyInv, Budget
<1>1. /\ \A v \in Workers : v # w => ctx'[v] = ctx[v]
      /\ ctx[w].at # "idle" /\ ctx[w].row \in Deliveries /\ UNCHANGED <<task, deliveries>>
      /\ ctx'[w].at # "idle" => ctx'[w].row = ctx[w].row
      /\ ctx'[w].at \in {"find", "commit", "enqueue"} => ctx[w].at \in {"find", "commit", "enqueue"}
      /\ ctx'[w].at # "idle" => ctx'[w].awaited = ctx[w].awaited \/ time_out(w)
  BY WebhookGoes
<1>2. UNCHANGED <<replies, notices>>
  BY DEF WebhookStep, time_out, get_or_create_conversation, commit, enqueue, answer, crash
<1>3. Replies(m)' = Replies(m) /\ Owing(m)' = Owing(m) /\ Coming(m)' \subseteq Coming(m)
  BY <1>1, <1>2 DEF Replies, Owing, Coming
<1>4. /\ notices[m] \in Nat /\ timeouts[m] \in Nat /\ deliveries[m] \in Int /\ crashes \in Int
      /\ timeouts \in [Messages -> Nat]
      /\ Chance(m) \in {0, 1} /\ Chance(m)' \in {0, 1}
  BY ConversationsAssumption DEF TypeInv, TypeOK, Chance
<1>5. Finite(m)' /\ Said(m)' \in Nat /\ Said(m)' <= Said(m)
  <2>1. CASE enqueue(w)
    <3>1. /\ ctx[w].at = "enqueue" /\ queue' \subseteq queue \cup {ctx[w].row}
          /\ ctx' = [ctx EXCEPT ![w].at = "answer"]
      BY <2>1 DEF enqueue
    <3>2. ctx'[w].at = "answer"
      BY <1>1, <3>1, WebhookMoves DEF TypeInv, TypeOK
    <3>3. CASE ctx[w].row[1] = m
      <4>1. /\ Waiting(m)' \subseteq Waiting(m) \cup {ctx[w].row}
            /\ w \in Coming(m) /\ Coming(m)' \subseteq Coming(m) \ {w}
        BY <1>3, <3>1, <3>2, <3>3 DEF Waiting, Coming
      <4> QED BY <1>0, <1>3, <4>1, SaidMoves
    <3>4. CASE ctx[w].row[1] # m
      <4>1. Waiting(m)' \subseteq Waiting(m)
        BY <3>1, <3>4 DEF Waiting
      <4> QED BY <1>0, <1>3, <4>1, SaidKept
    <3> QED BY <3>3, <3>4
  <2>2. CASE ~ enqueue(w)
    <3>1. UNCHANGED queue
      BY <2>2 DEF WebhookStep, time_out, get_or_create_conversation, commit, answer, crash
    <3>2. Waiting(m)' = Waiting(m)
      BY <3>1 DEF Waiting
    <3> QED BY <1>0, <1>3, <3>2, SaidKept
  <2> QED BY <2>1, <2>2
<1>6. Said(m)' <= Said(m) + 0
  BY <1>0, <1>5, Counted
<1>7. CASE time_out(w)
  <2>1. /\ timeouts' = [timeouts EXCEPT ![ctx[w].row[1]] = @ + 1] /\ UNCHANGED <<answered, crashes>>
        /\ ctx[w].row[1] \in Messages
    BY <1>1, <1>7, RowsOfMessages DEF time_out
  <2>2. CASE ctx[w].row[1] = m
    <3>1. timeouts'[m] = timeouts[m] + 1
      BY <1>4, <2>1, <2>2
    <3>2. Chance(m)' + 0 + timeouts[m] + crashes <= Chance(m) + timeouts'[m] + crashes'
      BY <1>4, <2>1, <3>1
    <3>3. 0 + notices'[m] + deliveries[m] + crashes <= notices[m] + deliveries'[m] + crashes'
      BY <1>1, <1>2, <1>4, <2>1
    <3> QED BY <1>0, <1>5, <1>6, <3>2, <3>3, BudgetStep
  <2>3. CASE ctx[w].row[1] # m
    <3>1. timeouts'[m] = timeouts[m]
      BY <1>4, <2>1, <2>3
    <3>2. Sendable(m)' => Sendable(m)
      BY <1>1, <2>1, <2>3 DEF Sendable
    <3> QED BY <1>0, <1>1, <1>2, <1>5, <2>1, <3>1, <3>2, BudgetKept
  <2> QED BY <2>2, <2>3
<1>8. CASE crash(w)
  <2>1. crashes' = crashes + 1 /\ UNCHANGED timeouts
    BY <1>8 DEF crash
  <2>2. Chance(m)' + 0 + timeouts[m] + crashes <= Chance(m) + timeouts'[m] + crashes'
    BY <1>4, <2>1
  <2>3. 0 + notices'[m] + deliveries[m] + crashes <= notices[m] + deliveries'[m] + crashes'
    BY <1>1, <1>2, <1>4, <2>1
  <2> QED BY <1>0, <1>5, <1>6, <2>2, <2>3, BudgetStep
<1>9. CASE answer(w)
  <2>1. /\ answered' = IF ctx[w].awaited THEN answered \cup {ctx[w].row[1]} ELSE answered
        /\ UNCHANGED <<timeouts, crashes>>
    BY <1>9 DEF answer
  <2>2. Sendable(m)' => Sendable(m)
    BY <1>1, <2>1 DEF Sendable
  <2> QED BY <1>0, <1>1, <1>2, <1>5, <2>1, <2>2, BudgetKept
<1>10. CASE get_or_create_conversation(w) \/ commit(w) \/ enqueue(w)
  <2>1. UNCHANGED <<timeouts, answered, crashes>>
    BY <1>10 DEF get_or_create_conversation, commit, enqueue
  <2>2. ctx'[w].at # "idle" /\ ~ time_out(w)
    <3>1. CASE get_or_create_conversation(w)
      <4>1. ctx'[w].at = "commit" /\ ctx[w].at = "find"
        BY <3>1, Finds
      <4>2. ~ time_out(w)
        BY <4>1, TimesOut
      <4> QED BY <4>1, <4>2
    <3>2. CASE commit(w) \/ enqueue(w)
      <4>1. PICK at \in {"enqueue", "answer"} : at # ctx[w].at /\ ctx' = [ctx EXCEPT ![w].at = at]
        BY <3>2 DEF commit, enqueue
      <4>2. ctx'[w].at = at
        BY <1>1, <4>1, WebhookMoves DEF TypeInv, TypeOK
      <4>3. ~ time_out(w)
        BY <4>1, <4>2, TimesOut
      <4> QED BY <4>2, <4>3
    <3> QED BY <1>10, <3>1, <3>2
  <2>3. Sendable(m)' => Sendable(m)
    BY <1>1, <2>1, <2>2 DEF Sendable
  <2> QED BY <1>0, <1>1, <1>2, <1>5, <2>1, <2>3, BudgetKept
<1> QED BY <1>7, <1>8, <1>9, <1>10 DEF WebhookStep

LEMMA ReplyBegin ==
  ASSUME TypeInv, TypeInv', ReplyInv, NEW p \in Processes, process_inbound_message(p),
         NEW m \in Messages
  PROVE  Budget(m)'
<1>1. /\ UNCHANGED <<replies, ctx, answered, timeouts, notices, deliveries, crashes>>
      /\ \A q \in Processes : q # p => task'[q] = task[q]
      /\ task[p].at = "idle"
  BY BeginType DEF process_inbound_message, counts, twilio
<1>2. /\ Budget(m) /\ Finite(m) /\ Replies(m)' = Replies(m) /\ Coming(m)' = Coming(m)
      /\ Sendable(m)' => Sendable(m)
  BY <1>1 DEF ReplyInv, Budget, Replies, Coming, Sendable
<1>3. PICK d \in queue :
        /\ queue' = queue \ {d}
        /\ \/ UNCHANGED task
           \/ task' = [task EXCEPT ![p] = [NoTask EXCEPT !.at = "session", !.row = d,
                                !.conversation = stored[d], !.status = status[stored[d]]]]
  BY DEF process_inbound_message
<1>4. UNCHANGED task \/ task'[p].row = d
  <2> DEFINE new == [NoTask EXCEPT !.at = "session", !.row = d,
                                   !.conversation = stored[d], !.status = status[stored[d]]]
  <2>1. new.row = d
    BY DEF NoTask
  <2>2. task \in [Processes -> Task]
    BY DEF TypeInv, TypeOK
  <2>3. UNCHANGED task \/ task' = [task EXCEPT ![p] = new]
    BY <1>3
  <2> HIDE DEF new
  <2> QED BY <2>1, <2>2, <2>3
<1>5. Finite(m)' /\ Said(m)' \in Nat /\ Said(m)' <= Said(m)
  <2>1. CASE d[1] = m
    <3>1. d \in Waiting(m) /\ Waiting(m)' \subseteq Waiting(m) \ {d}
      BY <1>3, <2>1 DEF Waiting
    <3>2. Owing(m)' \subseteq Owing(m) \cup {p}
      BY <1>1 DEF Owing
    <3> QED BY <1>2, <3>1, <3>2, SaidMoves
  <2>2. CASE d[1] # m
    <3>1. Waiting(m)' \subseteq Waiting(m)
      BY <1>3 DEF Waiting
    <3>2. Owing(m)' \subseteq Owing(m)
      BY <1>1, <1>4, <2>2 DEF Owing
    <3> QED BY <1>2, <3>1, <3>2, SaidKept
  <2> QED BY <2>1, <2>2
<1> QED BY <1>1, <1>2, <1>5, BudgetKept

(* A reply more is one element more.                                       *)
LEMMA OneMoreReply ==
  ASSUME TypeInv, NEW m \in Messages, NEW d \in Deliveries,
         replies' = [replies EXCEPT ![d] = @ + 1]
  PROVE  /\ Replies(m)' \subseteq Replies(m) \cup {<<d, replies[d] + 1>>}
         /\ d[1] # m => Replies(m)' \subseteq Replies(m)
<1>1. replies \in [Deliveries -> Nat]
  BY DEF TypeInv, TypeOK
<1>2. \A e : e \in {m} \X (1 .. MaxDeliveries) <=> e \in Deliveries /\ e[1] = m
  BY RowsOfMessages
<1>3. \A x : x \in Replies(m)' <=>
         \E e \in {m} \X (1 .. MaxDeliveries) : \E i \in 1 .. replies'[e] : x = <<e, i>>
  BY DEF Replies
<1>4. \A x : x \in Replies(m) <=>
         \E e \in {m} \X (1 .. MaxDeliveries) : \E i \in 1 .. replies[e] : x = <<e, i>>
  BY DEF Replies
<1>5. ASSUME NEW e \in Deliveries, NEW i \in 1 .. replies'[e]
      PROVE  i \in 1 .. replies[e] \/ <<e, i>> = <<d, replies[d] + 1>>
  BY <1>1
<1> QED BY <1>2, <1>3, <1>4, <1>5

LEMMA ReplyWork ==
  ASSUME TypeInv, TypeInv', ReplyInv, NEW p \in Processes, Work(p) \/ crash_task(p),
         NEW m \in Messages
  PROVE  Budget(m)'
<1> USE DEF rows, twilio, counts
<1>1. UNCHANGED <<ctx, deliveries, timeouts, answered, notices>>
  BY DEF Work, get_session, process_message, send_whatsapp, fail, save_session, escalate,
         crash_task
<1>2. /\ Budget(m) /\ Finite(m) /\ Coming(m)' = Coming(m) /\ (Sendable(m)' <=> Sendable(m))
      /\ Chance(m)' = Chance(m)
  BY <1>1 DEF ReplyInv, Budget, Coming, Sendable, Chance
<1>3. /\ task \in [Processes -> Task] /\ task[p].at # "idle" /\ task[p].row \in Deliveries
      /\ \A q \in Processes : q # p => task'[q] = task[q]
      /\ task'[p].at # "idle" => task'[p].row = task[p].row
  <2>1. task \in [Processes -> Task] /\ TaskGoesOn(p) /\ task[p].at # "idle"
        /\ task[p].row \in Deliveries
    BY WorkGoesOn, Under DEF TypeInv, TypeOK
  <2> QED BY <2>1, Nothing DEF TaskGoesOn
<1>4. Owing(m)' \subseteq Owing(m)
  BY <1>3, WorkGoesOn DEF Owing, Forward
<1>5. CASE send_whatsapp(p)
  <2>1. /\ task[p].at = "send" /\ replies' = [replies EXCEPT ![task[p].row] = @ + 1]
        /\ UNCHANGED <<queue, crashes>>
    BY <1>5 DEF send_whatsapp
  <2>2. Waiting(m)' = Waiting(m)
    BY <2>1 DEF Waiting
  <2>3. task'[p].at \notin {"session", "process", "send"}
    BY <2>1, WorkGoesOn DEF Forward
  <2>4. Finite(m)' /\ Said(m)' \in Nat /\ Said(m)' <= Said(m)
    <3>1. CASE task[p].row[1] = m
      <4>1. p \in Owing(m) /\ Owing(m)' \subseteq Owing(m) \ {p}
        BY <1>4, <2>1, <2>3, <3>1 DEF Owing
      <4>2. PICK r : Replies(m)' \subseteq Replies(m) \cup {r}
        BY <1>3, <2>1, OneMoreReply
      <4> QED BY <1>2, <2>2, <4>1, <4>2, SaidMoves
    <3>2. CASE task[p].row[1] # m
      <4>1. Replies(m)' \subseteq Replies(m)
        BY <1>3, <2>1, <3>2, OneMoreReply
      <4> QED BY <1>2, <1>4, <2>2, <4>1, SaidKept
    <3> QED BY <3>1, <3>2
  <2> QED BY <1>1, <1>2, <2>1, <2>4, BudgetKept
<1>6. CASE ~ send_whatsapp(p)
  <2>1. UNCHANGED replies
    BY <1>6 DEF Work, get_session, process_message, fail, save_session, escalate, crash_task
  <2>2. Replies(m)' = Replies(m)
    BY <2>1 DEF Replies
  <2>3. CASE crash_task(p)
    <3>1. crashes' = crashes + 1 /\ queue' \subseteq queue \cup {task[p].row}
      BY <2>3 DEF crash_task
    <3>2. Waiting(m)' \subseteq Waiting(m) \cup {task[p].row}
      BY <3>1 DEF Waiting
    <3>3. Finite(m)' /\ Said(m)' \in Nat /\ Said(m)' <= Said(m) + 1
      BY <1>2, <1>4, <2>2, <3>2, SaidGrows
    <3>4. /\ notices[m] \in Nat /\ timeouts[m] \in Nat /\ deliveries[m] \in Int /\ crashes \in Int
          /\ Chance(m) \in {0, 1}
      BY ConversationsAssumption DEF TypeInv, TypeOK, Chance
    <3>5. Chance(m)' + 1 + timeouts[m] + crashes <= Chance(m) + timeouts'[m] + crashes'
      BY <1>1, <1>2, <3>1, <3>4
    <3>6. 1 + notices'[m] + deliveries[m] + crashes <= notices[m] + deliveries'[m] + crashes'
      BY <1>1, <3>1, <3>4
    <3> QED BY <1>2, <3>3, <3>5, <3>6, BudgetStep
  <2>4. CASE ~ crash_task(p)
    <3>1. UNCHANGED <<queue, crashes>>
      BY <1>6, <2>4 DEF Work, get_session, process_message, fail, save_session, escalate
    <3>2. Waiting(m)' = Waiting(m)
      BY <3>1 DEF Waiting
    <3>3. Finite(m)' /\ Said(m)' \in Nat /\ Said(m)' <= Said(m)
      BY <1>2, <1>4, <2>2, <3>2, SaidKept
    <3> QED BY <1>1, <1>2, <3>1, <3>3, BudgetKept
  <2> QED BY <2>3, <2>4
<1> QED BY <1>5, <1>6

LEMMA ReplyNext == TypeInv /\ TypeInv' /\ ReplyInv /\ [Next]_vars => ReplyInv'
<1> SUFFICES ASSUME TypeInv, TypeInv', ReplyInv, [Next]_vars, NEW m \in Messages
             PROVE  Budget(m)'
  BY DEF ReplyInv
<1>1. ASSUME UNCHANGED <<replies, queue, task, ctx, twilio, crashes>> PROVE Budget(m)'
  <2>1. /\ Replies(m)' = Replies(m) /\ Waiting(m)' = Waiting(m) /\ Owing(m)' = Owing(m)
        /\ Coming(m)' = Coming(m) /\ (Sendable(m)' <=> Sendable(m)) /\ Budget(m) /\ Finite(m)
    BY <1>1 DEF Replies, Waiting, Owing, Coming, Sendable, ReplyInv, Budget, twilio
  <2>2. Finite(m)' /\ Said(m)' \in Nat /\ Said(m)' <= Said(m)
    BY <2>1, SaidKept
  <2> QED BY <1>1, <2>1, <2>2, BudgetKept DEF twilio
<1>2. ASSUME NEW c \in Conversations, mark_handoff(c) PROVE Budget(m)'
  BY <1>1, <1>2 DEF mark_handoff
<1>3. CASE UNCHANGED vars
  BY <1>1, <1>3 DEF vars, rows, counts
<1> QED BY <1>2, <1>3, ReplySends, ReplyWebhook, ReplyBegin, ReplyWork DEF Next, WebhookStep

(* What the customer wrote is replied to once, and once more for every     *)
(* answer that Twilio did not wait for and every worker or process that    *)
(* dies, and with the notices not more often than it was delivered and     *)
(* they died, however many workers take it up (twilio_webhook,             *)
(* process_inbound_message).                                               *)
THEOREM RepliesStayBounded == Spec => []RepliesAreBounded
<1>1. TypeInv /\ ReplyInv => RepliesAreBounded
  <2> SUFFICES ASSUME TypeInv, ReplyInv, NEW m \in Messages
               PROVE  /\ Cardinality(Replies(m)) <= 1 + timeouts[m] + crashes
                      /\ Cardinality(Replies(m)) + notices[m] <= deliveries[m] + crashes
    BY DEF RepliesAreBounded
  <2>1. /\ timeouts[m] \in Nat /\ notices[m] \in Nat /\ deliveries[m] \in Int /\ crashes \in Int
        /\ Chance(m) \in {0, 1}
    BY ConversationsAssumption DEF TypeInv, TypeOK, Chance
  <2>2. /\ Cardinality(Replies(m)) \in Nat /\ Said(m) \in Nat
        /\ Cardinality(Replies(m)) <= Said(m)
    BY Counted DEF ReplyInv, Budget, Said
  <2>3. /\ Said(m) + Chance(m) <= 1 + timeouts[m] + crashes
        /\ Said(m) + notices[m] <= deliveries[m] + crashes
    BY DEF ReplyInv, Budget
  <2> QED BY <2>1, <2>2, <2>3
<1>2. Spec => [](TypeInv /\ ReplyInv)
  BY TypeInit, TypeNext, ReplyInit, ReplyNext, PTL DEF Spec
<1> QED BY <1>1, <1>2, PTL
=============================================================================
