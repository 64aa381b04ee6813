---------------------------- MODULE Campaigns_proofs ----------------------------
(***************************************************************************)
(* What the executions of a campaign guarantee for any number of requests  *)
(* and customers, whoever raises and whoever dies.                         *)
(***************************************************************************)
EXTENDS Campaigns, FiniteSetTheorems, TLAPS

Unsent == {"draft", "scheduled"}

(* An execution comes to one customer at a time, and to each once.         *)
CustomerInv ==
    \A w \in Workers :
      /\ ctx[w].customer = {} \/ \E k \in Customers : ctx[w].customer = {k}
      /\ ctx[w].customer \cap ctx[w].left = {}
      /\ ctx[w].at \in {"idle", "read", "select"} => ctx[w].customer = {}

(* Nothing goes out before the campaign is marked as being sent.           *)
UnsentInv ==
    status \in Unsent =>
      /\ \A k \in Customers : sent[k] = 0
      /\ \A w \in Workers : ctx[w].at \in {"idle", "read"}

(* The executions that may still send to a customer.                       *)
ToSend == {"consent", "conversation", "create", "send"}

Comes(w, k) ==
    \/ ctx[w].at = "read" /\ ctx[w].status \in Unsent
    \/ ctx[w].at = "select"
    \/ k \in ctx[w].left
    \/ ctx[w].at \in ToSend /\ k \in ctx[w].customer

Coming(k) == {w \in Workers : Comes(w, k)}

ComingInv == \A k \in Customers : sent[k] + Cardinality(Coming(k)) <= Cardinality(Workers)

(* Who is where.                                                           *)
Among(phases) == {w \in Workers : ctx[w].at \in phases}

Counted == ToSend \cup {"sent", "failed"}

CountInv ==
    /\ IsFiniteSet(Sends)
    /\ delivered + Cardinality(Among({"sent"})) <= Cardinality(Sends)
    /\ Cardinality(Sends) <= delivered + failed + Cardinality(Among({"sent", "failed"})) + crashes
    /\ delivered + failed + Cardinality(Among(Counted)) <= targeted + errors

(* What each variable may hold; the bound on an execution's customers is   *)
(* CustomerInv.                                                            *)
Shapes ==
    /\ status \in Statuses
    /\ targeted \in Nat /\ delivered \in Nat /\ failed \in Nat
    /\ listed \subseteq Customers
    /\ conversations \in [Customers -> Nat]
    /\ sent \in [Customers -> Nat]
    /\ ctx \in [Workers -> Execution]
    /\ errors \in 0 .. MaxErrors /\ crashes \in 0 .. MaxCrashes

-----------------------------------------------------------------------------
(* A step of a request changes its own execution only.                     *)

Moves(w, e) == ctx' = [ctx EXCEPT ![w] = e]

LEMMA ShapeParts ==
    ASSUME Shapes, NEW w \in Workers
    PROVE  /\ ctx[w].left \subseteq Customers /\ ctx[w].customer \subseteq Customers
           /\ ctx[w].listed \subseteq Customers /\ ctx[w].status \in Statuses
BY DEF Shapes, Execution

LEMMA NoExecutionType == NoExecution \in Execution
BY DEF NoExecution, Execution, Statuses

(* An execution that only advances.                                        *)
LEMMA AdvanceMoves ==
    ASSUME Shapes, NEW w \in Workers, NEW at, Advance(w, at),
           at \in {"idle", "read", "select", "each", "consent", "conversation", "create",
                   "send", "sent", "track", "failed"}
    PROVE  \E e \in Execution :
              /\ Moves(w, e) /\ e.at = at
              /\ e.left = ctx[w].left /\ e.customer = ctx[w].customer
<1> DEFINE e == [ctx[w] EXCEPT !.at = at]
<1>1. e \in Execution /\ e.at = at /\ e.left = ctx[w].left /\ e.customer = ctx[w].customer
  BY DEF Shapes, Execution
<1>2. Moves(w, e)
  BY DEF Moves, Advance, Shapes
<1> HIDE DEF e
<1> QED BY <1>1, <1>2

(* The steps of a request, by what they do to its execution and to the     *)
(* counters.                                                               *)
Quiet == UNCHANGED <<counts, sent, bounds>>

(* It begins, executes or ends.                                            *)
Posts(w, e) ==
    /\ ctx[w].at = "idle" /\ e.at = "read" /\ e.status = status
    /\ e.left = {} /\ e.customer = {}
    /\ UNCHANGED status /\ Quiet

Ends(w, e) ==
    /\ ctx[w].at # "idle"
    /\ e.at = "idle" /\ e.left = {} /\ e.customer = {} /\ UNCHANGED <<counts, sent, errors>>
    /\ \/ ctx[w].at = "read" /\ UNCHANGED <<status, crashes>>
       \/ UNCHANGED crashes /\ ctx[w].at = "each" /\ status' = "completed"
       \/ UNCHANGED status /\ crashes' = crashes + 1

Executes(w, e) ==
    /\ ctx[w].at = "read" /\ ctx[w].status \in Unsent
    /\ e.at = "select" /\ e.left = ctx[w].left /\ e.customer = ctx[w].customer
    /\ status' = "sending" /\ Quiet

(* It selects its customers and takes the next.                            *)
Selects(w, e) ==
    /\ ctx[w].at = "select" /\ e.at = "each" /\ e.customer = ctx[w].customer
    /\ UNCHANGED status /\ Quiet

Takes(w, e) ==
    /\ ctx[w].at = "each"
    /\ \E k \in ctx[w].left : e.left = ctx[w].left \ {k} /\ e.customer = {k}
    /\ e.at = "consent" /\ targeted' = targeted + 1
    /\ UNCHANGED <<status, delivered, failed, sent, bounds>>

(* It sends, counts, or goes on.                                           *)
Stays(w, e) == e.left = ctx[w].left /\ e.customer = ctx[w].customer

Goes(w, e) ==
    /\ Stays(w, e)
    /\ \/ ctx[w].at \in ToSend /\ e.at \in ToSend \cup {"each", "failed"}
       \/ ctx[w].at = "track" /\ e.at = "each"
    /\ UNCHANGED status /\ Quiet

SendsOne(w, e) ==
    /\ Stays(w, e) /\ ctx[w].at = "send"
    /\ \E k \in ctx[w].customer : sent' = [sent EXCEPT ![k] = @ + 1]
    /\ \/ e.at = "sent" /\ UNCHANGED errors
       \/ e.at = "failed" /\ errors' = errors + 1
    /\ UNCHANGED <<status, counts, crashes>>

Counts(w, e) ==
    /\ Stays(w, e)
    /\ \/ /\ ctx[w].at = "sent" /\ e.at \in {"track", "each"}
          /\ delivered' = delivered + 1 /\ UNCHANGED failed
       \/ /\ ctx[w].at = "failed" /\ e.at = "each"
          /\ failed' = failed + 1 /\ UNCHANGED delivered
    /\ UNCHANGED <<status, targeted, sent, bounds>>

Raises(w, e) ==
    /\ Stays(w, e)
    /\ ctx[w].at \in {"sent", "track"} /\ e.at = "failed" /\ errors' = errors + 1
    /\ UNCHANGED <<status, counts, sent, crashes>>

Shape(w, e) ==
    \/ Posts(w, e) \/ Ends(w, e) \/ Executes(w, e) \/ Selects(w, e) \/ Takes(w, e)
    \/ Goes(w, e) \/ SendsOne(w, e) \/ Counts(w, e) \/ Raises(w, e)

Steps(w) == \E e \in Execution : Moves(w, e) /\ Shape(w, e)

LEMMA ProceedShape ==
    ASSUME Shapes, NEW w \in Workers, post(w) \/ Proceed(w) \/ crash(w)
    PROVE  Steps(w) /\ Shapes'
<1> USE DEF Shapes, counts, bounds, Steps, Shape, Quiet, Stays
<1>1. /\ ctx[w] \in Execution
      /\ ctx[w].left \subseteq Customers /\ ctx[w].customer \subseteq Customers
      /\ ctx[w].listed \subseteq Customers
      /\ MaxErrors \in Nat /\ MaxCrashes \in Nat
  BY ShapeParts, CampaignsAssumption
<1>2. ASSUME NEW e \in Execution, Moves(w, e) PROVE ctx' \in [Workers -> Execution]
  BY <1>2 DEF Moves
<1>3. CASE post(w)
  <2> DEFINE e == [NoExecution EXCEPT !.at = "read", !.status = status, !.listed = listed]
  <2>1. e \in Execution /\ e.at = "read" /\ e.status = status /\ e.left = {} /\ e.customer = {}
    BY DEF NoExecution, Execution
  <2>2. Moves(w, e)
    BY <1>3 DEF post, Moves
  <2> HIDE DEF e
  <2>3. Posts(w, e)
    BY <1>3, <2>1 DEF post, Posts
  <2> QED BY <1>2, <1>3, <2>1, <2>2, <2>3 DEF post
<1>4. ASSUME ctx' = [ctx EXCEPT ![w] = NoExecution], ctx[w].at # "idle",
             UNCHANGED <<counts, sent, errors>>,
             \/ ctx[w].at = "read" /\ UNCHANGED <<status, crashes>>
             \/ UNCHANGED crashes /\ ctx[w].at = "each" /\ status' = "completed"
             \/ UNCHANGED status /\ crashes' = crashes + 1
      PROVE  Steps(w)
  <2>1. Moves(w, NoExecution) /\ Ends(w, NoExecution)
    BY <1>4 DEF Moves, Ends, NoExecution
  <2> QED BY <2>1, NoExecutionType
<1>5. CASE execute_campaign(w)
  <2>1. CASE ctx[w].status \in {"draft", "scheduled"}
    <3>1. PICK e \in Execution : Moves(w, e) /\ e.at = "select"
                                 /\ e.left = ctx[w].left /\ e.customer = ctx[w].customer
      BY <1>5, <2>1, AdvanceMoves DEF execute_campaign
    <3>2. Executes(w, e)
      BY <1>5, <2>1, <3>1 DEF execute_campaign, Executes, Unsent
    <3> QED BY <1>2, <1>5, <2>1, <3>1, <3>2 DEF execute_campaign, Statuses
  <2>2. CASE ctx[w].status \notin {"draft", "scheduled"}
    BY <1>4, <1>5, <2>2, NoExecutionType DEF execute_campaign
  <2> QED BY <2>1, <2>2
<1>6. CASE apply_target_criteria(w)
  <2>1. PICK matching \in SUBSET Customers :
            ctx' = [ctx EXCEPT ![w].at = "each", ![w].left = matching]
    BY <1>6 DEF apply_target_criteria
  <2> DEFINE e == [ctx[w] EXCEPT !.at = "each", !.left = matching]
  <2>2. e \in Execution /\ e.at = "each" /\ e.customer = ctx[w].customer
    BY <1>1 DEF Execution
  <2>3. Moves(w, e)
    BY <2>1 DEF Moves
  <2> HIDE DEF e
  <2>4. Selects(w, e)
    BY <1>6, <2>2 DEF apply_target_criteria, Selects
  <2> QED BY <1>2, <1>6, <2>2, <2>3, <2>4 DEF apply_target_criteria
<1>7. CASE increment_delivery(w)
  <2>1. PICK k \in ctx[w].left :
            ctx' = [ctx EXCEPT ![w].at = "consent", ![w].left = @ \ {k}, ![w].customer = {k}]
    BY <1>7 DEF increment_delivery
  <2> DEFINE e == [ctx[w] EXCEPT !.at = "consent", !.left = ctx[w].left \ {k}, !.customer = {k}]
  <2>2. e \in Execution /\ e.at = "consent" /\ e.left = ctx[w].left \ {k} /\ e.customer = {k}
    BY <1>1 DEF Execution
  <2>3. Moves(w, e)
    BY <1>1, <2>1 DEF Moves, Execution
  <2> HIDE DEF e
  <2>4. Takes(w, e)
    BY <1>7, <2>2 DEF increment_delivery, Takes
  <2> QED BY <1>2, <1>7, <2>2, <2>3, <2>4 DEF increment_delivery
(* The steps that only advance.                                            *)
<1>8. ASSUME NEW at \in ToSend \cup {"each", "failed"}, ctx[w].at \in ToSend, Advance(w, at),
             UNCHANGED status, Quiet
      PROVE  Steps(w) /\ ctx' \in [Workers -> Execution]
  <2>1. PICK e \in Execution : Moves(w, e) /\ e.at = at
                               /\ e.left = ctx[w].left /\ e.customer = ctx[w].customer
    BY <1>8, AdvanceMoves DEF ToSend
  <2>2. Goes(w, e)
    BY <1>8, <2>1 DEF Goes
  <2> QED BY <1>2, <2>1, <2>2
<1>9. CASE get_preferences(w)
  BY <1>8, <1>9 DEF get_preferences, ToSend
<1>10. CASE get_conversation(w)
  BY <1>8, <1>10 DEF get_conversation, ToSend
<1>11. CASE create_conversation(w)
  <2>1. conversations' \in [Customers -> Nat]
    BY <1>1, <1>11 DEF create_conversation
  <2> QED BY <1>8, <1>11, <2>1 DEF create_conversation, ToSend
<1>12. CASE send_message(w)
  <2>1. CASE Advance(w, "failed") /\ UNCHANGED <<sent, errors>>
    BY <1>8, <1>12, <2>1 DEF send_message, ToSend
  <2>2. CASE /\ \E k \in ctx[w].customer : sent' = [sent EXCEPT ![k] = @ + 1]
             /\ \/ Advance(w, "sent") /\ UNCHANGED errors
                \/ errors < MaxErrors /\ errors' = errors + 1 /\ Advance(w, "failed")
    <3>1. sent' \in [Customers -> Nat] /\ errors' \in 0 .. MaxErrors
      BY <1>1, <2>2
    <3>2. PICK e \in Execution : /\ Moves(w, e)
                                 /\ e.left = ctx[w].left /\ e.customer = ctx[w].customer
                                 /\ \/ e.at = "sent" /\ UNCHANGED errors
                                    \/ e.at = "failed" /\ errors' = errors + 1
      BY <2>2, AdvanceMoves
    <3>3. SendsOne(w, e)
      BY <1>12, <2>2, <3>2 DEF send_message, SendsOne
    <3> QED BY <1>2, <1>12, <3>1, <3>2, <3>3 DEF send_message
  <2> QED BY <1>12, <2>1, <2>2 DEF send_message
<1>13. CASE increment_delivered(w)
  <2>1. PICK e \in Execution : /\ Moves(w, e) /\ e.at \in {"track", "each"}
                               /\ e.left = ctx[w].left /\ e.customer = ctx[w].customer
    BY <1>13, AdvanceMoves DEF increment_delivered
  <2>2. Counts(w, e)
    BY <1>13, <2>1 DEF increment_delivered, Counts
  <2> QED BY <1>2, <1>13, <2>1, <2>2 DEF increment_delivered
<1>14. CASE track_variant(w)
  <2> DEFINE e == [ctx[w] EXCEPT !.at = "each", !.listed = ctx[w].listed \cup ctx[w].customer]
  <2>1. /\ e \in Execution /\ e.at = "each"
        /\ e.left = ctx[w].left /\ e.customer = ctx[w].customer
    BY <1>1 DEF Execution
  <2>2. Moves(w, e)
    BY <1>1, <1>14 DEF Moves, track_variant
  <2> HIDE DEF e
  <2>3. Goes(w, e)
    BY <1>14, <2>1 DEF track_variant, Goes
  <2> QED BY <1>1, <1>2, <1>14, <2>1, <2>2, <2>3 DEF track_variant
<1>15. CASE error(w)
  <2>1. PICK e \in Execution : /\ Moves(w, e) /\ e.at = "failed"
                               /\ e.left = ctx[w].left /\ e.customer = ctx[w].customer
    BY <1>15, AdvanceMoves DEF error
  <2>2. Raises(w, e)
    BY <1>15, <2>1 DEF error, Raises
  <2> QED BY <1>1, <1>2, <1>15, <2>1, <2>2 DEF error
<1>16. CASE increment_failed(w)
  <2>1. PICK e \in Execution : /\ Moves(w, e) /\ e.at = "each"
                               /\ e.left = ctx[w].left /\ e.customer = ctx[w].customer
    BY <1>16, AdvanceMoves DEF increment_failed
  <2>2. Counts(w, e)
    BY <1>16, <2>1 DEF increment_failed, Counts
  <2> QED BY <1>2, <1>16, <2>1, <2>2 DEF increment_failed
<1>17. CASE mark_completed(w)
  BY <1>4, <1>17, NoExecutionType DEF mark_completed, Statuses
<1>18. CASE crash(w)
  BY <1>1, <1>4, <1>18, NoExecutionType DEF crash
<1> QED BY <1>3, <1>5, <1>6, <1>7, <1>9, <1>10, <1>11, <1>12, <1>13, <1>14, <1>15, <1>16, <1>17, <1>18
        DEF Proceed

LEMMA NextShape ==
    ASSUME Shapes, [Next]_vars
    PROVE  UNCHANGED vars \/ (Shapes' /\ \E w \in Workers : Steps(w))
BY ProceedShape DEF Next

LEMMA ShapesInit == Init => Shapes
BY NoExecutionType, CampaignsAssumption DEF Init, Shapes, Statuses

LEMMA ShapesNext == Shapes /\ [Next]_vars => Shapes'
<1>1. Shapes /\ UNCHANGED vars => Shapes'
  BY DEF Shapes, vars, counts, bounds
<1> QED BY <1>1, NextShape

LEMMA Moved ==
    ASSUME Shapes, NEW w \in Workers, NEW e, Moves(w, e)
    PROVE  ctx'[w] = e /\ \A v \in Workers : v # w => ctx'[v] = ctx[v]
BY DEF Shapes, Moves

-----------------------------------------------------------------------------
(* Type correctness.                                                       *)

LEMMA CustomerInit == Init => CustomerInv
BY DEF Init, CustomerInv, NoExecution

LEMMA CustomerNext == Shapes /\ CustomerInv /\ [Next]_vars => CustomerInv'
<1> SUFFICES ASSUME Shapes, CustomerInv, [Next]_vars PROVE CustomerInv'
  OBVIOUS
<1>1. CASE UNCHANGED vars
  BY <1>1 DEF vars, CustomerInv
<1>2. ASSUME NEW w \in Workers, NEW e \in Execution, Moves(w, e), Shape(w, e) PROVE CustomerInv'
  <2>1. ctx'[w] = e /\ \A v \in Workers : v # w => ctx'[v] = ctx[v]
    BY <1>2, Moved
  <2>2. /\ e.customer = {} \/ \E k \in Customers : e.customer = {k}
        /\ e.customer \cap e.left = {}
        /\ e.at \in {"idle", "read", "select"} => e.customer = {}
    BY <1>2, ShapeParts DEF CustomerInv, Shape, Posts, Ends, Executes, Selects, Takes, Goes,
                            SendsOne, Counts, Raises, Stays, ToSend
  <2> QED BY <2>1, <2>2 DEF CustomerInv
<1> QED BY <1>1, <1>2, NextShape DEF Steps

(* The campaign, its counters and its executions always have the shapes    *)
(* the models give them, and an execution is at one customer at most.      *)
THEOREM TypeCorrect == Spec => []TypeOK
<1>1. Shapes /\ CustomerInv => TypeOK
  <2> SUFFICES ASSUME CustomerInv, NEW w \in Workers PROVE Cardinality(ctx[w].customer) <= 1
    BY DEF Shapes, TypeOK
  <2>1. ctx[w].customer = {} \/ \E k \in Customers : ctx[w].customer = {k}
    BY DEF CustomerInv
  <2>2. Cardinality({}) = 0 /\ \A k : Cardinality({k}) = 1
    BY FS_EmptySet, FS_Singleton
  <2> QED BY <2>1, <2>2
<1> QED BY <1>1, ShapesInit, ShapesNext, CustomerInit, CustomerNext, PTL DEF Spec

-----------------------------------------------------------------------------
(* At most one message a customer for each request at a time.              *)

LEMMA UnsentInit == Init => UnsentInv
BY DEF Init, UnsentInv, NoExecution

LEMMA UnsentNext == Shapes /\ UnsentInv /\ [Next]_vars => UnsentInv'
<1> SUFFICES ASSUME Shapes, UnsentInv, [Next]_vars PROVE UnsentInv'
  OBVIOUS
<1>1. CASE UNCHANGED vars
  BY <1>1 DEF vars, UnsentInv
<1>2. ASSUME NEW w \in Workers, NEW e \in Execution, Moves(w, e), Shape(w, e) PROVE UnsentInv'
  <2>1. ctx'[w] = e /\ \A v \in Workers : v # w => ctx'[v] = ctx[v]
    BY <1>2, Moved
  <2>2. "sending" \notin Unsent /\ "completed" \notin Unsent
    BY DEF Unsent
  <2> QED BY <1>2, <2>1, <2>2
          DEF UnsentInv, Shape, Posts, Ends, Executes, Selects, Takes, Goes, SendsOne, Counts,
              Raises, ToSend, Quiet
<1> QED BY <1>1, <1>2, NextShape DEF Steps

LEMMA ComingSets ==
    ASSUME NEW k
    PROVE  /\ IsFiniteSet(Coming(k)) /\ Cardinality(Coming(k)) \in Nat
           /\ Cardinality(Coming(k)) <= Cardinality(Workers)
           /\ Cardinality(Workers) \in Nat
<1>1. Coming(k) \subseteq Workers /\ IsFiniteSet(Workers)
  BY CampaignsAssumption DEF Coming
<1> QED BY <1>1, FS_Subset, FS_CardinalityType

(* Nobody new comes, and who leaves is no longer among them.               *)
LEMMA NobodyComes ==
    ASSUME NEW k, NEW w \in Workers,
           \A v \in Workers : v # w => ctx'[v] = ctx[v],
           Comes(w, k)' => Comes(w, k)
    PROVE  /\ Cardinality(Coming(k)') \in Nat
           /\ Cardinality(Coming(k)') <= Cardinality(Coming(k))
           /\ Comes(w, k) /\ ~ Comes(w, k)' => Cardinality(Coming(k)') <= Cardinality(Coming(k)) - 1
<1>1. Coming(k)' \subseteq Coming(k)
  BY DEF Coming, Comes
<1>2. Comes(w, k) /\ ~ Comes(w, k)' => w \in Coming(k) /\ Coming(k)' \subseteq Coming(k) \ {w}
  BY <1>1 DEF Coming
<1>3. IsFiniteSet(Coming(k)) /\ Cardinality(Coming(k)) \in Nat
  BY ComingSets
<1>4. w \in Coming(k) => /\ IsFiniteSet(Coming(k) \ {w})
                         /\ Cardinality(Coming(k) \ {w}) = Cardinality(Coming(k)) - 1
  BY <1>3, FS_RemoveElement
<1> QED BY <1>1, <1>2, <1>3, <1>4, FS_Subset, FS_CardinalityType

LEMMA ComingInit == Init => ComingInv
<1> SUFFICES ASSUME Init, NEW k \in Customers
             PROVE  sent[k] + Cardinality(Coming(k)) <= Cardinality(Workers)
  BY DEF ComingInv
<1>1. sent[k] = 0
  BY DEF Init
<1> QED BY <1>1, ComingSets

LEMMA ComingNext ==
    Shapes /\ CustomerInv /\ UnsentInv /\ ComingInv /\ [Next]_vars => ComingInv'
<1> SUFFICES ASSUME Shapes, CustomerInv, UnsentInv, ComingInv, [Next]_vars,
                    NEW k \in Customers
             PROVE  sent'[k] + Cardinality(Coming(k)') <= Cardinality(Workers)
  BY DEF ComingInv
<1>1. /\ sent[k] + Cardinality(Coming(k)) <= Cardinality(Workers)
      /\ sent[k] \in Nat /\ Cardinality(Coming(k)) \in Nat
      /\ Cardinality(Workers) \in Nat
  BY ComingSets DEF ComingInv, Shapes
<1>2. CASE UNCHANGED vars
  <2>1. Coming(k)' = Coming(k) /\ sent' = sent
    BY <1>2 DEF vars, Coming, Comes
  <2> QED BY <1>1, <2>1
<1>3. ASSUME NEW w \in Workers, NEW e \in Execution, Moves(w, e), Shape(w, e)
      PROVE  sent'[k] + Cardinality(Coming(k)') <= Cardinality(Workers)
  <2>1. ctx'[w] = e /\ \A v \in Workers : v # w => ctx'[v] = ctx[v]
    BY <1>3, Moved
  (* A request that comes later finds the campaign begun, or nobody sent. *)
  <2>2. CASE status \in Unsent /\ Posts(w, e)
    <3>1. Cardinality(Coming(k)') <= Cardinality(Workers) /\ Cardinality(Coming(k)') \in Nat
      <4>1. Coming(k)' \subseteq Workers
        BY DEF Coming
      <4> QED BY <4>1, CampaignsAssumption, FS_Subset, FS_CardinalityType
    <3>2. sent'[k] = 0
      BY <2>2 DEF UnsentInv, Posts, Quiet
    <3> QED BY <3>1, <3>2
  <2>3. CASE ~ (status \in Unsent /\ Posts(w, e)) /\ sent'[k] = sent[k]
    <3>1. Comes(w, k)' => Comes(w, k)
      BY <1>3, <2>1, <2>3
      DEF Shape, Posts, Ends, Executes, Selects, Takes, Goes, SendsOne, Counts, Raises, Stays,
          ToSend, Unsent, Comes
    <3> QED BY <1>1, <2>1, <2>3, <3>1, NobodyComes
  <2>4. CASE sent'[k] # sent[k]
    <3>1. SendsOne(w, e) /\ ctx[w].customer = {k} /\ sent'[k] = sent[k] + 1
      BY <1>3, <2>4
      DEF Shape, Posts, Ends, Executes, Selects, Takes, Goes, SendsOne, Counts, Raises, Quiet,
          CustomerInv, Shapes
    <3>2. Comes(w, k) /\ ~ Comes(w, k)'
      BY <2>1, <3>1 DEF SendsOne, Stays, Comes, CustomerInv, ToSend
    <3> QED BY <1>1, <2>1, <3>1, <3>2, NobodyComes
  <2> QED BY <2>2, <2>3, <2>4 DEF Posts, Quiet
<1> QED BY <1>2, <1>3, NextShape DEF Steps

(* However many requests execute a campaign at the same time and whoever   *)
(* dies, a customer gets it at most once for each of them.                 *)
THEOREM SendsStayBounded == Spec => []SendsAreBounded
<1>1. Shapes /\ ComingInv => SendsAreBounded
  <2> SUFFICES ASSUME Shapes, ComingInv, NEW k \in Customers
               PROVE  sent[k] <= Cardinality(Workers)
    BY DEF SendsAreBounded
  <2>1. sent[k] \in Nat /\ sent[k] + Cardinality(Coming(k)) <= Cardinality(Workers)
    BY DEF Shapes, ComingInv
  <2> QED BY <2>1, ComingSets
<1> QED BY <1>1, ShapesInit, ShapesNext, CustomerInit, CustomerNext, UnsentInit, UnsentNext,
           ComingInit, ComingNext, PTL DEF Spec

-----------------------------------------------------------------------------
(* The counters.  Each step moves one request, so that a set of requests   *)
(* by their phase changes by one at most.                                  *)

LEMMA AmongMoves ==
    ASSUME NEW phases, NEW w \in Workers, NEW e, ctx'[w] = e,
           \A v \in Workers : v # w => ctx'[v] = ctx[v]
    PROVE  /\ Cardinality(Among(phases)) \in Nat /\ Cardinality(Among(phases)') \in Nat
           /\ (ctx[w].at \in phases <=> e.at \in phases) =>
                 Cardinality(Among(phases)') = Cardinality(Among(phases))
           /\ ctx[w].at \in phases /\ e.at \notin phases =>
                 Cardinality(Among(phases)') = Cardinality(Among(phases)) - 1
           /\ ctx[w].at \notin phases /\ e.at \in phases =>
                 Cardinality(Among(phases)') = Cardinality(Among(phases)) + 1
<1>1. /\ IsFiniteSet(Among(phases)) /\ Cardinality(Among(phases)) \in Nat
      /\ Cardinality(Among(phases)') \in Nat
  <2>1. Among(phases) \subseteq Workers /\ Among(phases)' \subseteq Workers
    BY DEF Among
  <2> QED BY <2>1, CampaignsAssumption, FS_Subset, FS_CardinalityType
<1>2. (ctx[w].at \in phases <=> e.at \in phases) => Among(phases)' = Among(phases)
  BY DEF Among
<1>3. ctx[w].at \in phases /\ e.at \notin phases =>
        w \in Among(phases) /\ Among(phases)' = Among(phases) \ {w}
  BY DEF Among
<1>4. ctx[w].at \notin phases /\ e.at \in phases =>
        w \notin Among(phases) /\ Among(phases)' = Among(phases) \cup {w}
  BY DEF Among
<1> QED BY <1>1, <1>2, <1>3, <1>4, FS_AddElement, FS_RemoveElement

(* A message more is one element more.                                     *)
LEMMA OneMoreSend ==
    ASSUME Shapes, IsFiniteSet(Sends), NEW k \in Customers, sent' = [sent EXCEPT ![k] = @ + 1]
    PROVE  /\ IsFiniteSet(Sends') /\ Cardinality(Sends') = Cardinality(Sends) + 1
<1> DEFINE n == sent[k] + 1
<1>1. n \in Nat /\ sent \in [Customers -> Nat]
  BY DEF Shapes
<1>2. /\ sent'[k] = n
      /\ \A j \in Customers : j # k => sent'[j] = sent[j]
      /\ 1 .. n = (1 .. sent[k]) \cup {n} /\ n \notin 1 .. sent[k]
  BY <1>1
<1> HIDE DEF n
<1>3. Sends' = Sends \cup {<<k, n>>}
  <2>1. ASSUME NEW j \in Customers, NEW i
        PROVE  i \in 1 .. sent'[j] <=> i \in 1 .. sent[j] \/ <<j, i>> = <<k, n>>
    BY <1>2
  <2>2. \A x : x \in Sends <=> \E j \in Customers : \E i \in 1 .. sent[j] : x = <<j, i>>
    BY DEF Sends
  <2>3. \A x : x \in Sends' <=> \E j \in Customers : \E i \in 1 .. sent'[j] : x = <<j, i>>
    BY DEF Sends
  <2>4. \A x : x \in Sends' <=> x \in Sends \/ x = <<k, n>>
    BY <2>1, <2>2, <2>3
  <2> QED BY <2>4
<1>4. <<k, n>> \notin Sends
  BY <1>2 DEF Sends
<1> QED BY <1>3, <1>4, FS_AddElement

LEMMA CountInit == Init => CountInv
<1> SUFFICES ASSUME Init PROVE CountInv
  OBVIOUS
<1>1. Sends = {}
  BY DEF Init, Sends
<1>2. Among({"sent"}) = {} /\ Among({"sent", "failed"}) = {} /\ Among(Counted) = {}
  BY DEF Init, Among, Counted, ToSend, NoExecution
<1>3. targeted = 0 /\ delivered = 0 /\ failed = 0 /\ errors = 0 /\ crashes = 0
  BY DEF Init
<1> QED BY <1>1, <1>2, <1>3, FS_EmptySet DEF CountInv

LEMMA CountNext == Shapes /\ CountInv /\ [Next]_vars => CountInv'
<1> SUFFICES ASSUME Shapes, CountInv, [Next]_vars PROVE CountInv'
  OBVIOUS
<1>1. CASE UNCHANGED vars
  BY <1>1 DEF vars, counts, bounds, CountInv, Among, Sends
<1>2. ASSUME NEW w \in Workers, NEW e \in Execution, Moves(w, e), Shape(w, e) PROVE CountInv'
  <2> DEFINE D == Cardinality(Among({"sent"}))
             U == Cardinality(Among({"sent", "failed"}))
             B == Cardinality(Among(Counted))
             S == Cardinality(Sends)
  <2>1. ctx'[w] = e /\ \A v \in Workers : v # w => ctx'[v] = ctx[v]
    BY <1>2, Moved
  <2>2. /\ D \in Nat /\ D' \in Nat
        /\ ctx[w].at # "sent" /\ e.at # "sent" => D' = D
        /\ ctx[w].at = "sent" /\ e.at # "sent" => D' = D - 1
        /\ ctx[w].at # "sent" /\ e.at = "sent" => D' = D + 1
    BY <2>1, AmongMoves
  <2>3. /\ U \in Nat /\ U' \in Nat
        /\ ctx[w].at \notin {"sent", "failed"} /\ e.at \notin {"sent", "failed"} => U' = U
        /\ ctx[w].at \in {"sent", "failed"} /\ e.at \in {"sent", "failed"} => U' = U
        /\ ctx[w].at \in {"sent", "failed"} /\ e.at \notin {"sent", "failed"} => U' = U - 1
        /\ ctx[w].at \notin {"sent", "failed"} /\ e.at \in {"sent", "failed"} => U' = U + 1
    BY <2>1, AmongMoves
  <2>4. /\ B \in Nat /\ B' \in Nat
        /\ ctx[w].at \notin Counted /\ e.at \notin Counted => B' = B
        /\ ctx[w].at \in Counted /\ e.at \in Counted => B' = B
        /\ ctx[w].at \in Counted /\ e.at \notin Counted => B' = B - 1
        /\ ctx[w].at \notin Counted /\ e.at \in Counted => B' = B + 1
    BY <2>1, AmongMoves
  <2>5. IsFiniteSet(Sends) /\ S \in Nat
    BY FS_CardinalityType DEF CountInv
  <2>6. sent' = sent => Sends' = Sends
    BY DEF Sends
  <2>7. SendsOne(w, e) => IsFiniteSet(Sends') /\ S' = S + 1
    BY <2>5, ShapeParts, OneMoreSend DEF SendsOne
  <2>8. /\ targeted \in Nat /\ delivered \in Nat /\ failed \in Nat
        /\ errors \in Nat /\ crashes \in Nat
    BY CampaignsAssumption DEF Shapes
  <2>9. D + delivered <= S /\ S <= delivered + failed + U + crashes
        /\ delivered + failed + B <= targeted + errors
    BY <2>2, <2>8 DEF CountInv
  <2> HIDE DEF D, U, B, S
  <2>10. /\ IsFiniteSet(Sends')
         /\ delivered' + D' <= S'
         /\ S' <= delivered' + failed' + U' + crashes'
         /\ delivered' + failed' + B' <= targeted' + errors'
    <3> USE DEF counts, bounds, Quiet, Counted, ToSend
    <3>0. D \in Nat /\ U \in Nat /\ B \in Nat
      BY <2>2, <2>3, <2>4
    <3>1. sent' = sent => S' = S
      BY <2>6 DEF S
    <3>2. CASE Posts(w, e) \/ Executes(w, e) \/ Selects(w, e) \/ Goes(w, e)
      BY <2>2, <2>3, <2>4, <2>5, <2>6, <2>8, <2>9, <3>1, <3>2
      DEF Posts, Executes, Selects, Goes
    <3>3. CASE Ends(w, e)
      <4>1. UNCHANGED <<targeted, delivered, failed, sent, errors>>
        BY <3>3 DEF Ends
      <4>2. \/ D' = D /\ U' = U /\ B' = B /\ crashes' = crashes
            \/ /\ D' = D \/ D' = D - 1
               /\ U' = U \/ U' = U - 1
               /\ B' = B \/ B' = B - 1
               /\ crashes' = crashes + 1
        <5>1. CASE ctx[w].at \in {"read", "each"} /\ crashes' = crashes
          BY <2>2, <2>3, <2>4, <3>3, <5>1 DEF Ends
        <5>2. CASE crashes' = crashes + 1
          BY <2>2, <2>3, <2>4, <3>3, <5>2 DEF Ends
        <5> QED BY <3>3, <5>1, <5>2 DEF Ends
      <4>3. S' = S /\ IsFiniteSet(Sends')
        BY <2>5, <2>6, <3>1, <4>1
      <4> QED BY <2>5, <2>8, <2>9, <3>0, <4>1, <4>2, <4>3
    <3>4. CASE Takes(w, e)
      <4>1. D' = D /\ U' = U /\ B' = B + 1
        BY <2>2, <2>3, <2>4, <3>4 DEF Takes
      <4>2. targeted' = targeted + 1 /\ UNCHANGED <<delivered, failed, sent, errors, crashes>>
        BY <3>4 DEF Takes
      <4> QED BY <2>5, <2>6, <2>8, <2>9, <3>0, <3>1, <4>1, <4>2
    <3>5. CASE SendsOne(w, e)
      <4>1. /\ \/ D' = D + 1 /\ errors' = errors
               \/ D' = D /\ errors' = errors + 1
            /\ U' = U + 1 /\ B' = B
        BY <2>2, <2>3, <2>4, <3>5 DEF SendsOne
      <4>2. UNCHANGED <<targeted, delivered, failed, crashes>>
        BY <3>5 DEF SendsOne
      <4>3. IsFiniteSet(Sends') /\ S' = S + 1
        BY <2>7, <3>5
      <4> QED BY <2>5, <2>8, <2>9, <3>0, <4>1, <4>2, <4>3
    <3>6. CASE Counts(w, e)
      BY <2>2, <2>3, <2>4, <2>5, <2>6, <2>8, <2>9, <3>1, <3>6 DEF Counts
    <3>7. CASE Raises(w, e)
      <4>1. /\ \/ D' = D - 1 /\ U' = U /\ B' = B
               \/ D' = D /\ U' = U + 1 /\ B' = B + 1
        BY <2>2, <2>3, <2>4, <3>7 DEF Raises
      <4>2. errors' = errors + 1 /\ UNCHANGED <<targeted, delivered, failed, sent, crashes>>
        BY <3>7 DEF Raises
      <4> QED BY <2>5, <2>6, <2>8, <2>9, <3>0, <3>1, <4>1, <4>2
    <3> QED BY <1>2, <3>2, <3>3, <3>4, <3>5, <3>6, <3>7 DEF Shape
  <2> QED BY <2>10 DEF CountInv, D, U, B, S
<1> QED BY <1>1, <1>2, NextShape DEF Steps

(* However executions overlap, whatever raises after a send and whoever    *)
(* dies, the counters of a campaign and the messages the provider took     *)
(* agree up to what is on its way, what died and what raised.              *)
THEOREM DeliveriesStayCounted == Spec => []DeliveriesAreCounted
<1>1. Shapes /\ CountInv => DeliveriesAreCounted
  <2> SUFFICES ASSUME Shapes, CountInv PROVE DeliveriesAreCounted
    OBVIOUS
  <2>1. Uncounted = Among({"sent", "failed"})
    BY DEF Uncounted, Among
  <2>2. Among({"sent"}) \subseteq Workers /\ Among(Counted) \subseteq Workers
    BY DEF Among
  <2>3. Cardinality(Among({"sent"})) \in Nat /\ Cardinality(Among(Counted)) \in Nat
    BY <2>2, CampaignsAssumption, FS_Subset, FS_CardinalityType
  <2>4. /\ Cardinality(Sends) \in Nat /\ targeted \in Nat /\ delivered \in Nat
        /\ failed \in Nat /\ errors \in Nat
    BY CampaignsAssumption, FS_CardinalityType DEF CountInv, Shapes
  <2> QED BY <2>1, <2>3, <2>4 DEF CountInv, DeliveriesAreCounted
<1> QED BY <1>1, ShapesInit, ShapesNext, CustomerInit, CustomerNext, CountInit, CountNext, PTL
        DEF Spec

-----------------------------------------------------------------------------
(* One request at a time.                                                  *)

OneWorker == \E w \in Workers : Workers = {w}

(* While the campaign may be executed nobody has been counted; afterwards  *)
(* who was counted and who is left are different customers.                *)
TargetInv ==
    /\ targeted <= Cardinality(Customers)
    /\ status \in Unsent => targeted = 0
    /\ \A w \in Workers :
        /\ ctx[w].at = "read" /\ ctx[w].status \in Unsent => status \in Unsent
        /\ ctx[w].at = "select" => targeted = 0
        /\ ctx[w].at \notin {"idle", "read", "select"}
             => targeted + Cardinality(ctx[w].left) <= Cardinality(Customers)

LEMMA CustomerSets ==
    ASSUME NEW S \in SUBSET Customers
    PROVE  /\ IsFiniteSet(S) /\ Cardinality(S) \in Nat
           /\ Cardinality(S) <= Cardinality(Customers) /\ Cardinality(Customers) \in Nat
           /\ \A k \in S : Cardinality(S \ {k}) = Cardinality(S) - 1
BY CampaignsAssumption, FS_Subset, FS_CardinalityType, FS_RemoveElement

LEMMA TargetInit == Init => TargetInv
<1>1. Cardinality(Customers) \in Nat
  BY CustomerSets
<1> QED BY <1>1 DEF Init, TargetInv, NoExecution

LEMMA TargetNext == OneWorker /\ Shapes /\ UnsentInv /\ TargetInv /\ [Next]_vars => TargetInv'
<1> SUFFICES ASSUME OneWorker, Shapes, UnsentInv, TargetInv, [Next]_vars PROVE TargetInv'
  OBVIOUS
<1>1. CASE UNCHANGED vars
  BY <1>1 DEF vars, counts, TargetInv
<1>2. ASSUME NEW w \in Workers, NEW e \in Execution, Moves(w, e), Shape(w, e) PROVE TargetInv'
  <2>1. ctx'[w] = e /\ \A v \in Workers : v = w
    BY <1>2, Moved DEF OneWorker
  <2>2. /\ targeted \in Nat /\ ctx[w].left \in SUBSET Customers /\ e.left \in SUBSET Customers
        /\ Cardinality(Customers) \in Nat
        /\ Cardinality(ctx[w].left) \in Nat /\ Cardinality(e.left) \in Nat
        /\ Cardinality(e.left) <= Cardinality(Customers)
        /\ \A k \in ctx[w].left : Cardinality(ctx[w].left \ {k}) = Cardinality(ctx[w].left) - 1
    BY <1>2, ShapeParts, CustomerSets DEF Shapes, Execution
  <2>3. "sending" \notin Unsent /\ "completed" \notin Unsent
    BY DEF Unsent
  <2>4. CASE Takes(w, e)
    <3>1. PICK k \in ctx[w].left : e.left = ctx[w].left \ {k}
      BY <2>4 DEF Takes
    <3>2. /\ targeted + Cardinality(ctx[w].left) <= Cardinality(Customers)
          /\ status \notin Unsent /\ status' = status
          /\ targeted' = targeted + 1 /\ e.at = "consent"
      BY <2>4 DEF Takes, TargetInv, UnsentInv
    <3>3. Cardinality(e.left) = Cardinality(ctx[w].left) - 1
      BY <2>2, <3>1
    <3> QED BY <2>1, <2>2, <3>2, <3>3 DEF TargetInv
  <2>5. CASE Selects(w, e)
    BY <2>1, <2>2, <2>5 DEF TargetInv, UnsentInv, Selects, Quiet, counts
  <2>6. CASE Posts(w, e) \/ Ends(w, e) \/ Executes(w, e)
    BY <2>1, <2>2, <2>3, <2>6 DEF TargetInv, Posts, Ends, Executes, Quiet, counts
  <2>7. CASE Goes(w, e) \/ SendsOne(w, e) \/ Counts(w, e) \/ Raises(w, e)
    BY <2>1, <2>2, <2>7
       DEF TargetInv, Goes, SendsOne, Counts, Raises, Stays, ToSend, Quiet, counts
  <2> QED BY <1>2, <2>4, <2>5, <2>6, <2>7 DEF Shape
<1> QED BY <1>1, <1>2, NextShape DEF Steps

(* "Total customers targeted" (messaging/models.py:1030) is what           *)
(* delivery_count says when requests to execute the campaign do not        *)
(* overlap, however often one dies or is made again: the later ones find   *)
(* that the campaign is no draft (execute_campaign, increment_delivery).   *)
THEOREM CustomersCountedOnce ==
    ASSUME OneWorker PROVE Spec => []CountsCustomers
<1>1. TargetInv => CountsCustomers
  BY DEF TargetInv, CountsCustomers
<1>2. Shapes /\ UnsentInv /\ TargetInv /\ [Next]_vars => TargetInv'
  BY TargetNext
<1> QED BY <1>1, <1>2, ShapesInit, ShapesNext, UnsentInit, UnsentNext, TargetInit, PTL DEF Spec

-----------------------------------------------------------------------------
(* While nothing has gone wrong, whoever a message went to is listed, or   *)
(* about to be; and the one request there is knows who is listed.          *)

Lists(w, k) == ctx[w].at \in {"sent", "track"} /\ k \in ctx[w].customer

ListInv ==
    /\ \A w \in Workers : ctx[w].at # "idle" => ctx[w].listed = listed
    /\ IsAbTest /\ errors = 0 /\ crashes = 0
         => \A k \in Customers : sent[k] > 0 => k \in listed \/ \E w \in Workers : Lists(w, k)

LEMMA ListInit == Init => ListInv
BY DEF Init, ListInv, NoExecution

(* A step after which each message sent is still accounted for.            *)
LEMMA Relisted ==
    ASSUME OneWorker, Shapes, ListInv, NEW w \in Workers, NEW e \in Execution, Moves(w, e),
           e.at # "idle" => e.listed = listed',
           errors' = errors \/ errors' = errors + 1,
           crashes' = crashes \/ crashes' = crashes + 1,
           errors' = errors /\ crashes' = crashes =>
              \A k \in Customers :
                \/ sent'[k] > 0 => sent[k] > 0 /\ (k \in listed => k \in listed')
                                   /\ (Lists(w, k) => k \in listed' \/ Lists(w, k)')
                \/ Lists(w, k)'
    PROVE  ListInv'
<1>1. ctx'[w] = e /\ \A v \in Workers : v = w
  BY Moved DEF OneWorker
<1>2. errors \in Nat /\ crashes \in Nat
  BY CampaignsAssumption DEF Shapes
<1>3. \A v \in Workers : ctx'[v].at # "idle" => ctx'[v].listed = listed'
  BY <1>1
<1>4. ASSUME IsAbTest, errors' = 0, crashes' = 0, NEW k \in Customers, sent'[k] > 0
      PROVE  k \in listed' \/ \E v \in Workers : Lists(v, k)'
  <2>1. errors = 0 /\ crashes = 0
    BY <1>2, <1>4
  <2>2. sent[k] > 0 => k \in listed \/ Lists(w, k)
    BY <1>1, <1>4, <2>1 DEF ListInv
  <2> QED BY <1>4, <2>1, <2>2
<1> QED BY <1>3, <1>4 DEF ListInv

LEMMA ListNext == OneWorker /\ Shapes /\ ListInv /\ [Next]_vars => ListInv'
<1> SUFFICES ASSUME OneWorker, Shapes, ListInv, [Next]_vars PROVE ListInv'
  OBVIOUS
<1>1. CASE UNCHANGED vars
  BY <1>1 DEF vars, bounds, ListInv, Lists
<1>2. ASSUME NEW w \in Workers, post(w) \/ Proceed(w) \/ crash(w) PROVE ListInv'
  <2> USE DEF bounds, counts
  <2>1. /\ ctx[w] \in Execution /\ ctx \in [Workers -> Execution]
        /\ ctx[w].left \subseteq Customers /\ ctx[w].customer \subseteq Customers
        /\ ctx[w].listed \subseteq Customers /\ listed \subseteq Customers
        /\ sent \in [Customers -> Nat]
        /\ ctx[w].at # "idle" => ctx[w].listed = listed
        /\ errors \in Nat /\ crashes \in Nat
    BY <1>2, ShapeParts, CampaignsAssumption DEF ListInv, Shapes
  (* A step that leaves the execution at its customer.                     *)
  <2>2. ASSUME NEW at \in {"idle", "read", "select", "each", "consent", "conversation", "create",
                           "send", "sent", "track", "failed"},
               ctx[w].at # "idle", Advance(w, at), UNCHANGED <<listed, crashes>>,
               \/ UNCHANGED <<sent, errors>>
                  /\ (ctx[w].at \in {"sent", "track"} => at \in {"sent", "track"})
               \/ errors' = errors + 1
        PROVE  ListInv'
    <3> DEFINE e == [ctx[w] EXCEPT !.at = at]
    <3>1. /\ e \in Execution /\ e.at = at
          /\ e.customer = ctx[w].customer /\ e.listed = ctx[w].listed
      BY <2>1 DEF Execution
    <3>2. Moves(w, e)
      BY <2>1, <2>2 DEF Moves, Advance
    <3> HIDE DEF e
    <3>3. ctx'[w] = e
      BY <3>2, Moved
    <3>4. errors' # errors \/ UNCHANGED <<sent, errors>>
      BY <2>1, <2>2
    <3> QED BY <2>1, <2>2, <3>1, <3>2, <3>3, <3>4, Relisted DEF Lists
  (* A step that ends the execution.                                       *)
  <2>3. ASSUME ctx' = [ctx EXCEPT ![w] = NoExecution], UNCHANGED <<listed, sent, errors>>,
               \/ UNCHANGED crashes /\ ctx[w].at \notin {"sent", "track"}
               \/ crashes' = crashes + 1
        PROVE  ListInv'
    <3>1. Moves(w, NoExecution)
      BY <2>3 DEF Moves
    <3>2. NoExecution \in Execution /\ NoExecution.at = "idle"
      BY NoExecutionType DEF NoExecution
    <3> HIDE DEF NoExecution
    <3>3. crashes' # crashes \/ ~ \E k \in Customers : Lists(w, k)
      BY <2>1, <2>3 DEF Lists
    <3> QED BY <2>3, <3>1, <3>2, <3>3, Relisted
  <2>4. CASE post(w)
    <3> DEFINE e == [NoExecution EXCEPT !.at = "read", !.status = status, !.listed = listed]
    <3>1. e \in Execution /\ e.listed = listed
      BY DEF NoExecution, Execution, Shapes
    <3>2. Moves(w, e)
      BY <2>4 DEF post, Moves
    <3> HIDE DEF e
    <3>3. UNCHANGED <<listed, sent, errors, crashes>> /\ ~ \E k \in Customers : Lists(w, k)
      BY <2>4 DEF post, Lists
    <3> QED BY <3>1, <3>2, <3>3, Relisted
  <2>5. CASE execute_campaign(w)
    BY <2>2, <2>3, <2>5 DEF execute_campaign
  <2>6. CASE apply_target_criteria(w)
    <3>1. PICK matching \in SUBSET Customers :
              ctx' = [ctx EXCEPT ![w].at = "each", ![w].left = matching]
      BY <2>6 DEF apply_target_criteria
    <3> DEFINE e == [ctx[w] EXCEPT !.at = "each", !.left = matching]
    <3>2. e \in Execution /\ e.listed = ctx[w].listed
      BY <2>1 DEF Execution
    <3>3. Moves(w, e)
      BY <3>1 DEF Moves
    <3> HIDE DEF e
    <3>4. /\ UNCHANGED <<listed, sent, errors, crashes>> /\ ~ \E k \in Customers : Lists(w, k)
          /\ ctx[w].at # "idle"
      BY <2>6 DEF apply_target_criteria, Lists
    <3> QED BY <2>1, <3>2, <3>3, <3>4, Relisted
  <2>7. CASE increment_delivery(w)
    <3>1. PICK k \in ctx[w].left :
              ctx' = [ctx EXCEPT ![w].at = "consent", ![w].left = @ \ {k}, ![w].customer = {k}]
      BY <2>7 DEF increment_delivery
    <3> DEFINE e == [ctx[w] EXCEPT !.at = "consent", !.left = ctx[w].left \ {k}, !.customer = {k}]
    <3>2. e \in Execution /\ e.listed = ctx[w].listed
      BY <2>1 DEF Execution
    <3>3. Moves(w, e)
      BY <2>1, <3>1 DEF Moves, Execution
    <3> HIDE DEF e
    <3>4. /\ UNCHANGED <<listed, sent, errors, crashes>>
          /\ ~ \E c \in Customers : Lists(w, c)
          /\ ctx[w].at # "idle"
      BY <2>7 DEF increment_delivery, Lists
    <3> QED BY <2>1, <3>2, <3>3, <3>4, Relisted
  <2>8. CASE get_preferences(w)
    BY <2>2, <2>8 DEF get_preferences
  <2>9. CASE get_conversation(w)
    BY <2>2, <2>9 DEF get_conversation
  <2>10. CASE create_conversation(w)
    BY <2>2, <2>10 DEF create_conversation
  <2>11. CASE send_message(w)
    <3>1. CASE Advance(w, "failed") /\ UNCHANGED <<sent, errors>>
      BY <2>2, <2>11, <3>1 DEF send_message
    <3>2. CASE errors' = errors + 1 /\ Advance(w, "failed")
      BY <2>2, <2>11, <3>2 DEF send_message
    <3>3. CASE /\ \E k \in ctx[w].customer : sent' = [sent EXCEPT ![k] = @ + 1]
               /\ Advance(w, "sent") /\ UNCHANGED errors
      <4>1. PICK k \in ctx[w].customer : sent' = [sent EXCEPT ![k] = @ + 1]
        BY <3>3
      <4> DEFINE e == [ctx[w] EXCEPT !.at = "sent"]
      <4>2. /\ e \in Execution /\ e.at = "sent"
            /\ e.customer = ctx[w].customer /\ e.listed = ctx[w].listed
        BY <2>1 DEF Execution
      <4>3. Moves(w, e)
        BY <2>1, <3>3 DEF Moves, Advance
      <4> HIDE DEF e
      <4>4. ctx'[w] = e
        BY <4>3, Moved
      <4>5. UNCHANGED <<listed, errors, crashes>> /\ ctx[w].at = "send"
        BY <2>11, <3>3 DEF send_message
      <4>6. Lists(w, k)' /\ \A c \in Customers : c # k => sent'[c] = sent[c]
        BY <2>1, <4>1, <4>2, <4>4 DEF Lists
      <4>7. \A c \in Customers : ~ Lists(w, c)
        BY <4>5 DEF Lists
      <4> QED BY <2>1, <4>2, <4>3, <4>5, <4>6, <4>7, Relisted
    <3> QED BY <2>11, <3>1, <3>2, <3>3 DEF send_message
  <2>12. CASE increment_delivered(w)
    <3>1. CASE IsAbTest
      BY <2>2, <2>12, <3>1 DEF increment_delivered
    <3>2. CASE ~ IsAbTest
      <4>1. ctx'[w].at # "idle" /\ ctx'[w].listed = ctx[w].listed
            /\ ctx[w].at # "idle" /\ UNCHANGED listed
        BY <2>1, <2>12, <3>2 DEF increment_delivered, Advance, Execution
      <4> QED BY <2>1, <3>2, <4>1, <1>2 DEF ListInv, OneWorker
    <3> QED BY <3>1, <3>2
  <2>13. CASE track_variant(w)
    <3> DEFINE e == [ctx[w] EXCEPT !.at = "each", !.listed = ctx[w].listed \cup ctx[w].customer]
    <3>1. e \in Execution /\ e.listed = listed \cup ctx[w].customer
      BY <2>1, <2>13 DEF Execution, track_variant
    <3>2. Moves(w, e) /\ listed' = listed \cup ctx[w].customer
      BY <2>1, <2>13 DEF Moves, track_variant
    <3> HIDE DEF e
    <3>3. \A k \in Customers : Lists(w, k) => k \in listed'
      BY <3>2 DEF Lists
    <3>4. UNCHANGED <<sent, errors, crashes>>
      BY <2>13 DEF track_variant
    <3> QED BY <3>1, <3>2, <3>3, <3>4, Relisted
  <2>14. CASE error(w)
    BY <2>2, <2>14 DEF error
  <2>15. CASE increment_failed(w)
    BY <2>2, <2>15 DEF increment_failed
  <2>16. CASE mark_completed(w)
    BY <2>3, <2>16 DEF mark_completed
  <2>17. CASE crash(w)
    BY <2>3, <2>17 DEF crash
  <2> QED BY <1>2, <2>4, <2>5, <2>6, <2>7, <2>8, <2>9, <2>10, <2>11, <2>12, <2>13, <2>14, <2>15,
             <2>16, <2>17 DEF Proceed
<1> QED BY <1>1, <1>2 DEF Next

(* An A/B test that ran to its end without an error, one request at a      *)
(* time, has each customer it was sent to under a variant, so that the     *)
(* rates calculated by variant (requirements.md:724) are of everybody      *)
(* (track_variant).                                                        *)
THEOREM EveryRecipientIsListed ==
    ASSUME OneWorker PROVE Spec => []VariantsAreListed
<1>1. ListInv => VariantsAreListed
  BY DEF ListInv, Lists, VariantsAreListed
<1>2. Shapes /\ ListInv /\ [Next]_vars => ListInv'
  BY ListNext
<1> QED BY <1>1, <1>2, ShapesInit, ShapesNext, ListInit, PTL DEF Spec
=============================================================================
