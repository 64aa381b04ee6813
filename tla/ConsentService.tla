---------------------------- MODULE ConsentService ----------------------------
(***************************************************************************)
(* The communication preferences of one customer:                          *)
(* apps/messaging/services/consent_service.py, which keeps a copy of the   *)
(* CustomerPreferences row in the cache of apps/core/cache.py, the PUT and *)
(* GET of apps/messaging/views.py and the tasks and messages that ask for  *)
(* consent.                                                                *)
(*                                                                         *)
(* update_consent is a transaction (READ COMMITTED): its UPDATE holds the  *)
(* row until the commit.  The cache is no part of it.  The row is there    *)
(* from the customer's first message on.                                   *)
(***************************************************************************)
EXTENDS Integers, FiniteSets

CONSTANTS
    Workers,        \* web workers and celery processes
    Types,          \* the consent types
    Default,        \* what the row says at first
    None,           \* no entry in the cache
    MaxUpdates,     \* bound on the updates
    MaxErrors,      \* bound on the invalidations that fail
    MaxCrashes      \* bound on the workers that die

ASSUME ConsentAssumption ==
    /\ IsFiniteSet(Workers)
    /\ Default \in [Types -> BOOLEAN]
    /\ None \notin [Types -> BOOLEAN]
    /\ MaxUpdates \in Nat /\ MaxErrors \in Nat /\ MaxCrashes \in Nat

Preferences == [Types -> BOOLEAN]

VARIABLES
    preferences,    \* the committed CustomerPreferences row
    cache,          \* the cached copy
    audit,          \* what the last ConsentEvent of each type says
    ctx,            \* each worker's call
    wish,           \* what the last update of each type asked for that succeeded
    given,          \* the types for which there was consent at some time
    sent,           \* the types of which a message was sent
    overlapped,     \* whether a call ever began while another was under way
    updates, errors, crashes

history == <<wish, given, sent, overlapped>>
bounds == <<updates, errors, crashes>>
vars == <<preferences, cache, audit, ctx, history, bounds>>

(* A call: the type and the value of an update, or the type of a message   *)
(* that asks for consent; how far it is; and the object it holds.          *)
Call == [op : {"update", "check", "none"},
         at : {"idle", "get", "miss", "set", "got", "invalidate", "commit"},
         type : Types \cup {None}, value : BOOLEAN, held : Preferences]

NoCall == [op |-> "none", at |-> "idle", type |-> None, value |-> FALSE, held |-> Default]

Init ==
    /\ preferences = Default
    /\ cache = None
    /\ audit = Default
    /\ ctx = [w \in Workers |-> NoCall]
    /\ wish = Default
    /\ given = {t \in Types : Default[t]}
    /\ sent = {}
    /\ overlapped = FALSE
    /\ updates = 0 /\ errors = 0 /\ crashes = 0

Begin(w, op, type, value) ==
    /\ ctx[w].at = "idle"
    /\ ctx' = [ctx EXCEPT ![w] = [NoCall EXCEPT !.op = op, !.at = "get", !.type = type,
                                                !.value = value]]
    /\ overlapped' = (overlapped \/ \E v \in Workers : ctx[v].at # "idle")

Advance(w, at) == ctx' = [ctx EXCEPT ![w].at = at]
End(w) == ctx' = [ctx EXCEPT ![w] = NoCall]

-----------------------------------------------------------------------------
(* PUT: one update per type it names, each a transaction of its own, so    *)
(* that a PUT of several types is several calls one after the other.       *)
put(w) ==
    /\ updates < MaxUpdates
    /\ updates' = updates + 1
    /\ \E type \in Types, value \in BOOLEAN : Begin(w, "update", type, value)
    /\ UNCHANGED <<preferences, cache, audit, wish, given, sent, errors, crashes>>

(* send_message and the batch tasks: a message of some type asks for       *)
(* consent.                                                                *)
send_message(w) ==
    /\ \E type \in Types : Begin(w, "check", type, FALSE)
    /\ UNCHANGED <<preferences, cache, audit, wish, given, sent, bounds>>

(* Mutant of get_preferences: whatever the cache returns.                  *)
get_preferences_cached(w) ==
    /\ ctx[w].at = "get"
    /\ ctx' = [ctx EXCEPT ![w].at = "got", ![w].held = cache]
    /\ UNCHANGED <<preferences, cache, audit, history, bounds>>

(* get_preferences: the cache, else the row, which then goes to the cache. *)
(* A cache that cannot be asked is like one that has no entry.             *)
get_preferences(w) ==
    /\ ctx[w].at = "get"
    /\ IF cache = None THEN Advance(w, "miss")
       ELSE ctx' = [ctx EXCEPT ![w].at = "got", ![w].held = cache]
    /\ UNCHANGED <<preferences, cache, audit, history, bounds>>

read_row(w) ==
    /\ ctx[w].at = "miss"
    /\ ctx' = [ctx EXCEPT ![w].at = "set", ![w].held = preferences]
    /\ UNCHANGED <<preferences, cache, audit, history, bounds>>

set_cache(w) ==
    /\ ctx[w].at = "set"
    /\ cache' = ctx[w].held
    /\ Advance(w, "got")
    /\ UNCHANGED <<preferences, audit, history, bounds>>

check_consent(w) ==
    /\ ctx[w].at = "got" /\ ctx[w].op = "check"
    /\ sent' = IF ctx[w].held[ctx[w].type] THEN sent \cup {ctx[w].type} ELSE sent
    /\ End(w)
    /\ UNCHANGED <<preferences, cache, audit, wish, given, overlapped, bounds>>

-----------------------------------------------------------------------------
(* update_consent                                                          *)

(* Nothing to do if the object that get_preferences returned says so.      *)
unchanged(w) ==
    /\ ctx[w].at = "got" /\ ctx[w].op = "update"
    /\ ctx[w].held[ctx[w].type] = ctx[w].value
    /\ wish' = [wish EXCEPT ![ctx[w].type] = ctx[w].value]
    /\ End(w)
    /\ UNCHANGED <<preferences, cache, audit, given, sent, overlapped, bounds>>

(* The row is held by a transaction that has saved and not committed.      *)
Locked == \E v \in Workers : ctx[v].at \in {"invalidate", "commit"}

(* Mutant of save: the copy is written through to the cache.               *)
save_through(w) ==
    /\ ctx[w].at = "got" /\ ctx[w].op = "update"
    /\ ctx[w].held[ctx[w].type] # ctx[w].value
    /\ ~ Locked
    /\ ctx' = [ctx EXCEPT ![w].at = "commit", ![w].held[ctx[w].type] = ctx[w].value]
    /\ cache' = [ctx[w].held EXCEPT ![ctx[w].type] = ctx[w].value]
    /\ UNCHANGED <<preferences, audit, history, bounds>>

(* prefs.save() writes every field of the object.                          *)
save(w) ==
    /\ ctx[w].at = "got" /\ ctx[w].op = "update"
    /\ ctx[w].held[ctx[w].type] # ctx[w].value
    /\ ~ Locked
    /\ ctx' = [ctx EXCEPT ![w].at = "invalidate", ![w].held[ctx[w].type] = ctx[w].value]
    /\ UNCHANGED <<preferences, cache, audit, history, bounds>>

(* Mutant of invalidate_customer_preferences: the wrong key.               *)
invalidate_nothing(w) ==
    /\ ctx[w].at = "invalidate"
    /\ Advance(w, "commit")
    /\ UNCHANGED <<preferences, cache, audit, history, bounds>>

(* The delete comes before the commit; an error of the cache is swallowed. *)
invalidate_customer_preferences(w) ==
    /\ ctx[w].at = "invalidate"
    /\ \/ cache' = None /\ UNCHANGED errors
       \/ errors < MaxErrors /\ errors' = errors + 1 /\ UNCHANGED cache
    /\ Advance(w, "commit")
    /\ UNCHANGED <<preferences, audit, history, updates, crashes>>

(* The ConsentEvent and the commit.                                        *)
commit(w) ==
    /\ ctx[w].at = "commit"
    /\ preferences' = ctx[w].held
    /\ audit' = [audit EXCEPT ![ctx[w].type] = ctx[w].value]
    /\ wish' = [wish EXCEPT ![ctx[w].type] = ctx[w].value]
    /\ given' = given \cup {t \in Types : ctx[w].held[t]}
    /\ End(w)
    /\ UNCHANGED <<cache, sent, overlapped, bounds>>

-----------------------------------------------------------------------------
(* Mutant of expire: an entry that is kept for ever.                       *)
expire_never == cache # None /\ UNCHANGED vars

(* CacheTTL.CUSTOMER_PREFERENCES has passed, or the cache forgets.         *)
expire ==
    /\ cache # None
    /\ cache' = None
    /\ UNCHANGED <<preferences, audit, ctx, history, bounds>>

(* A worker dies; its transaction is rolled back.                          *)
crash(w) ==
    /\ ctx[w].at # "idle"
    /\ crashes < MaxCrashes
    /\ crashes' = crashes + 1
    /\ End(w)
    /\ UNCHANGED <<preferences, cache, audit, history, updates, errors>>

Proceed(w) ==
    \/ get_preferences(w) \/ read_row(w) \/ set_cache(w) \/ check_consent(w)
    \/ unchanged(w) \/ save(w) \/ invalidate_customer_preferences(w) \/ commit(w)

Next ==
    \/ \E w \in Workers : put(w) \/ send_message(w) \/ Proceed(w) \/ crash(w)
    \/ expire

Spec == Init /\ [][Next]_vars

(* Calls run to their ends and an entry of the cache expires.              *)
Fairness == WF_vars(expire) /\ \A w \in Workers : WF_vars(Proceed(w))

FairSpec == Spec /\ Fairness

-----------------------------------------------------------------------------
(* What must hold.                                                         *)

(* The row, its copies and the calls keep their types (messaging/models.py).*)
TypeOK ==
    /\ preferences \in Preferences
    /\ cache \in Preferences \cup {None}
    /\ audit \in Preferences /\ wish \in Preferences
    /\ ctx \in [Workers -> Call]
    /\ \A w \in Workers : ctx[w].at # "idle" => ctx[w].type \in Types
    /\ given \subseteq Types /\ sent \subseteq Types
    /\ overlapped \in BOOLEAN
    /\ updates \in 0 .. MaxUpdates /\ errors \in 0 .. MaxErrors /\ crashes \in 0 .. MaxCrashes

(* A message of a type goes out only if there was consent for the type at  *)
(* some time: promotions need an opt-in that was committed, whatever is    *)
(* rolled back, lost or stale (check_consent, update_consent).             *)
ConsentWasGiven == sent \subseteq given

AtRest == \A w \in Workers : ctx[w] = NoCall

(* Where calls come one at a time and no invalidation fails, the row is    *)
(* what the customer last asked for, type by type, its audit trail says    *)
(* the same and the cache has nothing else, also when workers die          *)
(* (update_consent).                                                       *)
SerialConsentIsKept ==
    ~ overlapped /\ errors = 0 /\ AtRest =>
        preferences = wish /\ audit = wish /\ cache \in {preferences, None}

(* A copy that is not the row is gone in the end, and none comes back      *)
(* after the last update (get_preferences, CacheTTL.CUSTOMER_PREFERENCES). *)
StaleEnds == <>[](cache \in {preferences, None})

-----------------------------------------------------------------------------
(* What the documents say and the code does not do.                        *)

(* consent_service.py:109, "Update a specific consent preference with      *)
(* audit logging": an update that returned is not undone by one of another *)
(* type, and one that had nothing to do found it done.  An update writes   *)
(* every field of an object that may be older than another's commit, and   *)
(* trusts the cache about there being nothing to do.                       *)
ConsentIsKept == errors = 0 /\ crashes = 0 /\ AtRest => preferences = wish

(* requirements.md:698, "WHEN a Customer's consent preference changes, THE *)
(* Tulia System SHALL create a ConsentEvent record".                       *)
ChangesAreLogged == preferences = audit

(* requirements.md:702, "WHEN a Tenant attempts to send a message to a     *)
(* Customer without proper consent, THE Tulia System SHALL block the       *)
(* message": whoever asks after an update has returned is told of it.      *)
ConsentIsHeeded ==
    [][\A w \in Workers :
        ctx[w].at = "get" /\ ctx'[w].at = "got" => ctx'[w].held = preferences]_vars
=============================================================================
