------------------------ MODULE ConsentService_proofs ------------------------
(* Proofs about ConsentService, for every number of workers and types.     *)
EXTENDS ConsentService, TLAPS

-----------------------------------------------------------------------------
(* The rows, their copies and the calls keep their types.                  *)

LEMMA DefaultIsACall == NoCall \in Call /\ NoCall.at = "idle"
  BY ConsentAssumption DEF NoCall, Call, Preferences

Calls ==
    /\ ctx \in [Workers -> Call]
    /\ \A w \in Workers : ctx[w].at # "idle" => ctx[w].type \in Types

(* A call that ends or moves on leaves a table of calls, each with a type. *)
LEMMA CallsStay ==
  ASSUME Calls, NEW w \in Workers
  PROVE  /\ End(w) => Calls'
         /\ \A at \in {"miss", "set", "got", "invalidate", "commit"} :
                ctx[w].at # "idle" /\ Advance(w, at) => Calls'
<1>1. ASSUME End(w) PROVE Calls'
  <2>1. ctx' \in [Workers -> Call] /\ ctx'[w] = NoCall
    BY <1>1, DefaultIsACall DEF End, Calls
  <2>2. \A v \in Workers : v # w => ctx'[v] = ctx[v]
    BY <1>1 DEF End, Calls
  <2> QED BY <2>1, <2>2, DefaultIsACall DEF Calls
<1>2. ASSUME NEW at \in {"miss", "set", "got", "invalidate", "commit"},
             ctx[w].at # "idle", Advance(w, at)
      PROVE  Calls'
  <2>1. [ctx[w] EXCEPT !.at = at] \in Call /\ [ctx[w] EXCEPT !.at = at].type \in Types
    BY <1>2 DEF Calls, Call
  <2>2. ctx' = [ctx EXCEPT ![w] = [ctx[w] EXCEPT !.at = at]]
    BY <1>2 DEF Advance, Calls
  <2> QED BY <2>1, <2>2 DEF Calls
<1> QED BY <1>1, <1>2

(* What get_preferences or the row returns is held.                        *)
LEMMA HoldStays ==
  ASSUME Calls, NEW w \in Workers, ctx[w].at # "idle", NEW held \in Preferences,
         NEW at \in {"set", "got"}, ctx' = [ctx EXCEPT ![w].at = at, ![w].held = held]
  PROVE  Calls'
<1>1. /\ [ctx[w] EXCEPT !.at = at, !.held = held] \in Call
      /\ [ctx[w] EXCEPT !.at = at, !.held = held].type \in Types
  BY DEF Calls, Call
<1>2. ctx' = [ctx EXCEPT ![w] = [ctx[w] EXCEPT !.at = at, !.held = held]]
  BY DEF Calls
<1> QED BY <1>1, <1>2 DEF Calls

LEMMA BeginType ==
  ASSUME ctx \in [Workers -> Call], NEW w \in Workers, NEW op \in {"update", "check"},
         NEW type \in Types, NEW value \in BOOLEAN, Begin(w, op, type, value)
  PROVE  /\ ctx' \in [Workers -> Call] /\ overlapped' \in BOOLEAN
         /\ ctx'[w].type = type /\ ctx'[w].at = "get"
         /\ \A v \in Workers : v # w => ctx'[v] = ctx[v]
<1> DEFINE call == [NoCall EXCEPT !.op = op, !.at = "get", !.type = type, !.value = value]
<1>1. call \in Call /\ call.type = type /\ call.at = "get"
  BY DefaultIsACall DEF NoCall, Call
<1>2. ctx' = [ctx EXCEPT ![w] = call]
  BY DEF Begin
<1> HIDE DEF call
<1>3. /\ ctx' \in [Workers -> Call] /\ ctx'[w] = call
      /\ \A v \in Workers : v # w => ctx'[v] = ctx[v]
  BY <1>2, <1>1
<1>4. overlapped' \in BOOLEAN
  BY DEF Begin
<1> QED BY <1>1, <1>3, <1>4

(* TypeOK holds in every reachable state (messaging/models.py).            *)
THEOREM TypeCorrect == Spec => []TypeOK
<1>1. Init => TypeOK
  <2> SUFFICES ASSUME Init PROVE TypeOK
    OBVIOUS
  <2> USE DEF Init
  <2>1. Default \in Preferences
    BY ConsentAssumption DEF Preferences
  <2>2. given \subseteq Types /\ sent \subseteq Types
    OBVIOUS
  <2>3. overlapped \in BOOLEAN
    OBVIOUS
  <2>4. updates \in 0 .. MaxUpdates /\ errors \in 0 .. MaxErrors /\ crashes \in 0 .. MaxCrashes
    BY ConsentAssumption
  <2> QED BY <2>1, <2>2, <2>3, <2>4, DefaultIsACall DEF TypeOK
<1>2. TypeOK /\ [Next]_vars => TypeOK'
  <2> SUFFICES ASSUME TypeOK, [Next]_vars PROVE TypeOK'
    OBVIOUS
  <2> USE DefaultIsACall
  <2>1. ASSUME NEW w \in Workers, put(w) PROVE TypeOK'
    BY <2>1, BeginType, ConsentAssumption DEF put, TypeOK
  <2>2. ASSUME NEW w \in Workers, send_message(w) PROVE TypeOK'
    BY <2>2, BeginType DEF send_message, TypeOK, bounds
  <2>3. ASSUME NEW w \in Workers, get_preferences(w) PROVE TypeOK'
    <3>1. Calls /\ ctx[w].at # "idle"
      BY <2>3 DEF get_preferences, TypeOK, Calls
    <3>2. ASSUME cache = None PROVE Calls'
      BY <2>3, <3>1, <3>2, CallsStay DEF get_preferences
    <3>3. ASSUME cache # None PROVE Calls'
      BY <2>3, <3>1, <3>3, HoldStays DEF get_preferences, TypeOK
    <3>4. Calls'
      BY <3>2, <3>3
    <3> QED BY <2>3, <3>4 DEF get_preferences, TypeOK, bounds, history, Calls
  <2>4. ASSUME NEW w \in Workers, read_row(w) PROVE TypeOK'
    BY <2>4 DEF read_row, TypeOK, bounds, history, Call
  <2>5. ASSUME NEW w \in Workers, set_cache(w) PROVE TypeOK'
    <3>1. Calls'
      BY <2>5, CallsStay DEF set_cache, TypeOK, Calls
    <3> QED BY <2>5, <3>1 DEF set_cache, TypeOK, bounds, history, Call, Calls
  <2>6. ASSUME NEW w \in Workers, check_consent(w) PROVE TypeOK'
    <3>1. sent' \subseteq Types
      BY <2>6, ConsentAssumption DEF check_consent, TypeOK, Call, Preferences
    <3>2. Calls'
      BY <2>6, CallsStay DEF check_consent, TypeOK, Calls
    <3> QED BY <2>6, <3>1, <3>2 DEF check_consent, TypeOK, bounds, Calls
  <2>7. ASSUME NEW w \in Workers, unchanged(w) PROVE TypeOK'
    <3>1. Calls'
      BY <2>7, CallsStay DEF unchanged, TypeOK, Calls
    <3> QED BY <2>7, <3>1 DEF unchanged, TypeOK, bounds, Call, Preferences, Calls
  <2>8. ASSUME NEW w \in Workers, save(w) PROVE TypeOK'
    <3> DEFINE held == [ctx[w].held EXCEPT ![ctx[w].type] = ctx[w].value]
    <3>1. ctx[w] \in Call /\ ctx[w].value \in BOOLEAN /\ ctx[w].held \in [Types -> BOOLEAN]
      BY DEF TypeOK, Call, Preferences
    <3>2. held \in Preferences
      BY <3>1 DEF Preferences
    <3>3. ctx' = [ctx EXCEPT ![w] = [ctx[w] EXCEPT !.at = "invalidate", !.held = held]]
      BY <2>8, <3>1 DEF save, TypeOK, Call
    <3> HIDE DEF held
    <3>4. [ctx[w] EXCEPT !.at = "invalidate", !.held = held] \in Call
      BY <3>1, <3>2 DEF Call
    <3>5. ctx' \in [Workers -> Call]
      BY <3>3, <3>4 DEF TypeOK
    <3>6. \A v \in Workers : ctx'[v].at # "idle" => ctx'[v].type \in Types
      BY <2>8, <3>3, <3>1 DEF TypeOK, Call, save
    <3> QED BY <2>8, <3>5, <3>6 DEF save, TypeOK, bounds, history
  <2>9. ASSUME NEW w \in Workers, invalidate_customer_preferences(w) PROVE TypeOK'
    <3>1. Calls'
      BY <2>9, CallsStay DEF invalidate_customer_preferences, TypeOK, Calls
    <3> QED BY <2>9, <3>1, ConsentAssumption
            DEF invalidate_customer_preferences, TypeOK, history, Calls
  <2>10. ASSUME NEW w \in Workers, commit(w) PROVE TypeOK'
    <3>1. Calls'
      BY <2>10, CallsStay DEF commit, TypeOK, Calls
    <3> QED BY <2>10, <3>1 DEF commit, TypeOK, bounds, Call, Preferences, Calls
  <2>11. ASSUME NEW w \in Workers, crash(w) PROVE TypeOK'
    <3>1. Calls'
      BY <2>11, CallsStay DEF crash, TypeOK, Calls
    <3> QED BY <2>11, <3>1, ConsentAssumption DEF crash, TypeOK, history, Calls
  <2>12. CASE expire
    BY <2>12 DEF expire, TypeOK, bounds, history
  <2>13. CASE UNCHANGED vars
    BY <2>13 DEF vars, bounds, history, TypeOK
  <2> QED
    BY <2>1, <2>2, <2>3, <2>4, <2>5, <2>6, <2>7, <2>8, <2>9, <2>10, <2>11, <2>12, <2>13
       DEF Next, Proceed
<1> QED BY <1>1, <1>2, PTL DEF Spec

-----------------------------------------------------------------------------
(* No copy of the row says more than the rows that were committed.         *)

(* What the row, the cache or the object of a call consents to was         *)
(* consented to at some time; the object of an update that has saved also  *)
(* consents to what it is about to commit.                                 *)
CopiesWereGiven ==
    /\ \A t \in Types : preferences[t] => t \in given
    /\ cache # None => \A t \in Types : cache[t] => t \in given
    /\ \A w \in Workers : ctx[w].at \in {"set", "got"} =>
           \A t \in Types : ctx[w].held[t] => t \in given

(* A message is sent only for a type that had a committed consent          *)
(* (check_consent, update_consent).                                        *)
THEOREM SentWasGiven == Spec => []ConsentWasGiven
<1>1. Init => CopiesWereGiven /\ ConsentWasGiven
  BY ConsentAssumption DEF Init, CopiesWereGiven, ConsentWasGiven, NoCall
<1>2. TypeOK /\ CopiesWereGiven /\ ConsentWasGiven /\ [Next]_vars
      => CopiesWereGiven' /\ ConsentWasGiven'
  <2> SUFFICES ASSUME TypeOK, CopiesWereGiven, ConsentWasGiven, [Next]_vars
               PROVE  CopiesWereGiven' /\ ConsentWasGiven'
    OBVIOUS
  <2> USE DEF TypeOK, CopiesWereGiven, ConsentWasGiven
  <2>1. ASSUME NEW w \in Workers, put(w) \/ send_message(w)
        PROVE  CopiesWereGiven' /\ ConsentWasGiven'
    BY <2>1, BeginType DEF put, send_message, bounds
  <2>2. ASSUME NEW w \in Workers, get_preferences(w)
        PROVE  CopiesWereGiven' /\ ConsentWasGiven'
    <3>1. /\ UNCHANGED <<preferences, cache, given, sent>>
          /\ \A v \in Workers : v # w => ctx'[v] = ctx[v]
      BY <2>2 DEF get_preferences, Advance, history
    <3>2. \/ ctx'[w].at = "miss"
          \/ ctx'[w].at = "got" /\ cache # None /\ ctx'[w].held = cache
      <4>1. ctx[w] \in Call /\ ctx \in [Workers -> Call]
        OBVIOUS
      <4>2. ASSUME cache = None PROVE ctx'[w].at = "miss"
        <5>1. ctx' = [ctx EXCEPT ![w] = [ctx[w] EXCEPT !.at = "miss"]]
          BY <2>2, <4>2 DEF get_preferences, Advance
        <5> QED BY <5>1, <4>1 DEF Call
      <4>3. ASSUME cache # None PROVE ctx'[w].at = "got" /\ ctx'[w].held = cache
        <5>1. ctx' = [ctx EXCEPT ![w] = [ctx[w] EXCEPT !.at = "got", !.held = cache]]
          BY <2>2, <4>1, <4>3 DEF get_preferences
        <5> QED BY <5>1, <4>1 DEF Call
      <4> QED BY <4>2, <4>3
    <3> QED BY <3>1, <3>2
  <2>3. ASSUME NEW w \in Workers, read_row(w)
        PROVE  CopiesWereGiven' /\ ConsentWasGiven'
    BY <2>3 DEF read_row, history
  <2>4. ASSUME NEW w \in Workers, set_cache(w)
        PROVE  CopiesWereGiven' /\ ConsentWasGiven'
    BY <2>4 DEF set_cache, Advance, history
  <2>5. ASSUME NEW w \in Workers, check_consent(w)
        PROVE  CopiesWereGiven' /\ ConsentWasGiven'
    <3>1. ctx[w].type \in Types => (ctx[w].held[ctx[w].type] => ctx[w].type \in given)
      BY <2>5 DEF check_consent
    <3>2. sent' \subseteq given
      BY <2>5, <3>1 DEF check_consent, Call, Preferences
    <3> QED BY <2>5, <3>2 DEF check_consent, End, NoCall
  <2>6. ASSUME NEW w \in Workers, unchanged(w)
        PROVE  CopiesWereGiven' /\ ConsentWasGiven'
    BY <2>6 DEF unchanged, End, NoCall
  <2>7. ASSUME NEW w \in Workers, save(w)
        PROVE  CopiesWereGiven' /\ ConsentWasGiven'
    BY <2>7 DEF save, history
  <2>8. ASSUME NEW w \in Workers, invalidate_customer_preferences(w)
        PROVE  CopiesWereGiven' /\ ConsentWasGiven'
    BY <2>8 DEF invalidate_customer_preferences, Advance, history
  <2>9. ASSUME NEW w \in Workers, commit(w)
        PROVE  CopiesWereGiven' /\ ConsentWasGiven'
    BY <2>9 DEF commit, End, NoCall
  <2>10. ASSUME NEW w \in Workers, crash(w)
         PROVE  CopiesWereGiven' /\ ConsentWasGiven'
    BY <2>10 DEF crash, End, NoCall, history
  <2>11. CASE expire
    BY <2>11 DEF expire, history
  <2>12. CASE UNCHANGED vars
    BY <2>12 DEF vars, history
  <2> QED
    BY <2>1, <2>2, <2>3, <2>4, <2>5, <2>6, <2>7, <2>8, <2>9, <2>10, <2>11, <2>12
       DEF Next, Proceed
<1> QED BY <1>1, <1>2, TypeCorrect, PTL DEF Spec

-----------------------------------------------------------------------------
(* One call at a time keeps what the customer asked for.                   *)

Busy(w) == ctx[w].at # "idle"

(* While no two calls overlap and no invalidation fails: one call at most  *)
(* is under way, the row, its audit trail and what was asked for are the   *)
(* same, the cache has nothing else and is empty before a commit, and the  *)
(* call holds the row, or the row with the one field it is changing.       *)
SerialInv ==
    ~ overlapped /\ errors = 0 =>
        /\ \A v, w \in Workers : Busy(v) /\ Busy(w) => v = w
        /\ preferences = wish /\ audit = wish
        /\ cache \in {preferences, None}
        /\ \A w \in Workers :
            /\ ctx[w].at \in {"set", "got"} => ctx[w].held = preferences
            /\ ctx[w].at \in {"invalidate", "commit"} =>
                 ctx[w].held = [preferences EXCEPT ![ctx[w].type] = ctx[w].value]
            /\ ctx[w].at = "commit" => cache = None

(* A call that ends or moves on holds what it held; the others wait.       *)
LEMMA OthersWait ==
  ASSUME TypeOK, NEW w \in Workers
  PROVE  /\ End(w) => ctx'[w].at = "idle" /\ \A v \in Workers : v # w => ctx'[v] = ctx[v]
         /\ \A at : Advance(w, at) =>
              /\ ctx'[w].at = at /\ ctx'[w].held = ctx[w].held
              /\ ctx'[w].type = ctx[w].type /\ ctx'[w].value = ctx[w].value
              /\ \A v \in Workers : v # w => ctx'[v] = ctx[v]
<1>1. ctx \in [Workers -> Call] /\ ctx[w] \in Call
  BY DEF TypeOK
<1>2. ASSUME End(w)
      PROVE  ctx'[w].at = "idle" /\ \A v \in Workers : v # w => ctx'[v] = ctx[v]
  BY <1>1, <1>2, DefaultIsACall DEF End
<1>3. ASSUME NEW at, Advance(w, at)
      PROVE  /\ ctx'[w].at = at /\ ctx'[w].held = ctx[w].held
             /\ ctx'[w].type = ctx[w].type /\ ctx'[w].value = ctx[w].value
             /\ \A v \in Workers : v # w => ctx'[v] = ctx[v]
  BY <1>1, <1>3 DEF Advance, Call
<1> QED BY <1>2, <1>3

LEMMA SerialInit == Init => SerialInv
BY DefaultIsACall DEF Init, SerialInv, Busy

LEMMA SerialNext == TypeOK /\ SerialInv /\ [Next]_vars => SerialInv'
<1> SUFFICES ASSUME TypeOK, SerialInv, [Next]_vars, ~ overlapped', errors' = 0
             PROVE  SerialInv'
  BY DEF SerialInv
<1> USE DEF SerialInv, Busy
<1>0. ctx \in [Workers -> Call] /\ \A w \in Workers : ctx[w] \in Call
  BY DEF TypeOK
<1>1. ASSUME NEW w \in Workers, put(w) \/ send_message(w) PROVE SerialInv'
  <2>1. /\ \A v \in Workers : ~ Busy(v)
        /\ ~ overlapped /\ errors = 0
        /\ UNCHANGED <<preferences, cache, audit, wish>>
    BY <1>1 DEF put, send_message, Begin, bounds
  <2>2. ctx'[w].at = "get" /\ \A v \in Workers : v # w => ctx'[v] = ctx[v]
    <3>1. PICK op \in {"update", "check"}, type \in Types, value \in BOOLEAN :
              Begin(w, op, type, value)
      BY <1>1 DEF put, send_message
    <3> QED BY <1>0, <3>1, BeginType
  <2> QED BY <2>1, <2>2
<1>2. ASSUME NEW w \in Workers, Proceed(w) PROVE SerialInv'
  <2>1. ~ overlapped /\ errors = 0
    BY <1>2 DEF Proceed, get_preferences, read_row, set_cache, check_consent, unchanged, save,
                invalidate_customer_preferences, commit, history, bounds, TypeOK
  <2>2. Busy(w) /\ \A v \in Workers : v # w => ~ Busy(v)
    BY <1>2, <2>1 DEF Proceed, get_preferences, read_row, set_cache, check_consent, unchanged,
                      save, invalidate_customer_preferences, commit
  <2>3. CASE get_preferences(w)
    <3>1. UNCHANGED <<preferences, cache, audit, wish>>
      BY <2>3 DEF get_preferences, history
    <3>2. CASE cache = None
      BY <2>1, <2>2, <2>3, <3>1, <3>2, OthersWait DEF get_preferences
    <3>3. CASE cache # None
      <4>1. ctx' = [ctx EXCEPT ![w] = [ctx[w] EXCEPT !.at = "got", !.held = cache]]
        BY <1>0, <2>3, <3>3 DEF get_preferences
      <4>2. ctx'[w].at = "got" /\ ctx'[w].held = cache
        BY <1>0, <4>1 DEF Call
      <4>3. \A v \in Workers : v # w => ctx'[v] = ctx[v]
        BY <1>0, <4>1
      <4> QED BY <2>1, <2>2, <3>1, <3>3, <4>2, <4>3
    <3> QED BY <3>2, <3>3
  <2>4. CASE read_row(w)
    <3>1. ctx' = [ctx EXCEPT ![w] = [ctx[w] EXCEPT !.at = "set", !.held = preferences]]
      BY <1>0, <2>4 DEF read_row
    <3>2. ctx'[w].at = "set" /\ ctx'[w].held = preferences
      BY <1>0, <3>1 DEF Call
    <3>3. \A v \in Workers : v # w => ctx'[v] = ctx[v]
      BY <1>0, <3>1
    <3>4. UNCHANGED <<preferences, cache, audit, wish>>
      BY <2>4 DEF read_row, history
    <3> QED BY <2>1, <2>2, <3>2, <3>3, <3>4
  <2>5. CASE set_cache(w)
    <3>1. ctx[w].held = preferences
      BY <2>1, <2>5 DEF set_cache
    <3>2. /\ cache' = preferences /\ Advance(w, "got")
          /\ UNCHANGED <<preferences, audit, wish>>
      BY <2>5, <3>1 DEF set_cache, history
    <3> QED BY <2>1, <2>2, <3>1, <3>2, OthersWait
  <2>6. CASE check_consent(w)
    BY <2>1, <2>2, <2>6, OthersWait DEF check_consent
  <2>7. CASE unchanged(w)
    <3>1. wish' = wish
      BY <2>1, <2>7, <1>0 DEF unchanged, TypeOK, Preferences
    <3> QED BY <2>1, <2>2, <2>7, <3>1, OthersWait DEF unchanged
  <2>8. CASE save(w)
    <3> DEFINE held == [ctx[w].held EXCEPT ![ctx[w].type] = ctx[w].value]
    <3>1. ctx' = [ctx EXCEPT ![w] = [ctx[w] EXCEPT !.at = "invalidate", !.held = held]]
      BY <2>8, <1>0 DEF save, Call
    <3>2. ctx[w].held = preferences
      BY <2>1, <2>8 DEF save
    <3>3. /\ ctx'[w].at = "invalidate" /\ ctx'[w].held = held
          /\ ctx'[w].type = ctx[w].type /\ ctx'[w].value = ctx[w].value
      BY <1>0, <3>1 DEF Call
    <3>4. \A v \in Workers : v # w => ctx'[v] = ctx[v]
      BY <1>0, <3>1
    <3>5. UNCHANGED <<preferences, cache, audit, wish>>
      BY <2>8 DEF save, history
    <3> QED BY <2>1, <2>2, <3>2, <3>3, <3>4, <3>5
  <2>9. CASE invalidate_customer_preferences(w)
    <3>1. /\ cache' = None /\ UNCHANGED <<preferences, audit, wish>>
          /\ ctx[w].at = "invalidate" /\ Advance(w, "commit")
      BY <2>1, <2>9 DEF invalidate_customer_preferences, history
    <3> QED BY <2>1, <2>2, <3>1, OthersWait
  <2>10. CASE commit(w)
    <3>1. /\ preferences' = [preferences EXCEPT ![ctx[w].type] = ctx[w].value]
          /\ wish' = preferences' /\ audit' = preferences' /\ cache' = None
      BY <2>1, <2>10 DEF commit
    <3> QED BY <2>1, <2>2, <2>10, <3>1, OthersWait DEF commit
  <2> QED BY <1>2, <2>3, <2>4, <2>5, <2>6, <2>7, <2>8, <2>9, <2>10 DEF Proceed
<1>3. ASSUME NEW w \in Workers, crash(w) PROVE SerialInv'
  BY <1>3, OthersWait DEF crash, history
<1>4. CASE expire
  BY <1>4 DEF expire, history, bounds
<1>5. CASE UNCHANGED vars
  BY <1>5 DEF vars, history, bounds
<1> QED BY <1>1, <1>2, <1>3, <1>4, <1>5 DEF Next

(* Where calls come one at a time and the cache can be reached, the row,   *)
(* its audit trail and the cache are what the customer last asked for,     *)
(* also when workers die (update_consent).                                 *)
THEOREM SerialCallsAreKept == Spec => []SerialConsentIsKept
<1>1. SerialInv => SerialConsentIsKept
  BY DEF SerialInv, SerialConsentIsKept
<1> QED BY <1>1, SerialInit, SerialNext, TypeCorrect, PTL DEF Spec
=============================================================================
