------------------------------ MODULE Billing ------------------------------
(* Licenses and entitlements (billing/routes.py, billing/service.py). Gumroad *)
(* sells; a user binds the key of a sale to an account; Gumroad pings on      *)
(* every change of a sale, again when it likes, and late. Handlers run on one *)
(* event loop without an await; each writes its documents one at a time, and  *)
(* the process may die between two of them.                                   *)
EXTENDS Naturals, Sequences

CONSTANTS Account, Sale,
          None,        \* nobody, or no document
          MaxCrashes,  \* bound: restarts
          MaxPings     \* bound: pings of Gumroad on their way

VARIABLES
  sold,         \* what Gumroad says of a sale: "unsold", "active" or "inactive"
  ping,         \* [sale -> the pings on their way, each with what it says]
  license,      \* /billing/gumroad/licenses: account and whether active, of the key of a sale
  event,        \* /billing/events: the sales an event of which is remembered
  entitlement,  \* /billing/users: the sale of the binding an account holds, and whether active
  todo,         \* the documents the running handler has still to write
  honoured,     \* history: the sales whose withdrawal a ping carried out completely
  crashes

vars == <<sold, ping, license, event, entitlement, todo, honoured, crashes>>

NoBinding == [account |-> None, sale |-> None, active |-> FALSE]

Init == /\ sold = [s \in Sale |-> "unsold"]
        /\ ping = [s \in Sale |-> <<>>]
        /\ license = [s \in Sale |-> NoBinding]
        /\ event = {}
        /\ entitlement = [a \in Account |-> NoBinding]
        /\ todo = <<>>
        /\ honoured = {}
        /\ crashes = 0

Free == todo = <<>>

-----------------------------------------------------------------------------
(* Gumroad. A withdrawn sale stays withdrawn; its pings come in any order.   *)

Pinged(s, what) ==
  IF Len(ping[s]) < MaxPings THEN [ping EXCEPT ![s] = Append(@, what)] ELSE ping

Sell(s) == /\ sold[s] = "unsold"
           /\ sold' = [sold EXCEPT ![s] = "active"]
           /\ \E p \in {ping, Pinged(s, "active")} : ping' = p
           /\ UNCHANGED <<license, event, entitlement, todo, honoured, crashes>>

Withdraw(s) == /\ sold[s] = "active"
               /\ sold' = [sold EXCEPT ![s] = "inactive"]
               /\ \E p \in {ping, Pinged(s, "inactive")} : ping' = p
               /\ UNCHANGED <<license, event, entitlement, todo, honoured, crashes>>

Repeat(s) == /\ sold[s] # "unsold"
             /\ Len(ping[s]) < MaxPings
             /\ ping' = Pinged(s, sold[s])
             /\ UNCHANGED <<sold, license, event, entitlement, todo, honoured, crashes>>

-----------------------------------------------------------------------------
Put(doc, of, is) == [doc |-> doc, of |-> of, is |-> is]

\* Fault: the event is kept under no id.
RememberedUnnamed(s) == IF s \in event THEN <<>> ELSE <<Put("event", None, NoBinding)>>
\* remember_event writes a document unless there is one.
Remembered(s) == IF s \in event THEN <<>> ELSE <<Put("event", s, NoBinding)>>

\* bind_gumroad_license refuses a key another account holds.
Bindable(a, s) == license[s].account \in {None, a}

Bound(a, s) == [account |-> a, sale |-> s, active |-> TRUE]

Binding(a, s) ==
  <<Put("license", s, Bound(a, s)), Put("entitlement", a, Bound(a, s))>>

\* gumroad_verify_license: Gumroad is asked within the handler.
Verify(a, s) ==
  /\ Free
  /\ sold[s] = "active"
  /\ Bindable(a, s)
  /\ todo' = Binding(a, s) \o Remembered(s)
  /\ UNCHANGED <<sold, ping, license, event, entitlement, honoured, crashes>>

\* deactivate_by_sale_id: the license, then the entitlement of its account.
\* Fault: the license alone is closed.
ClosedAlone(s) ==
  IF license[s] = NoBinding THEN <<>>
  ELSE <<Put("license", s, [license[s] EXCEPT !.active = FALSE])>>
Closed(s) ==
  IF license[s] = NoBinding THEN <<>>
  ELSE LET off == [license[s] EXCEPT !.active = FALSE]
       IN <<Put("license", s, off), Put("entitlement", off.account, off)>>

\* gumroad_ping: an event that is remembered already is a duplicate, whatever it says.
Ping(s) ==
  /\ Free
  /\ \E i \in DOMAIN ping[s] :
       LET rest == [j \in 1..Len(ping[s]) - 1 |-> ping[s][IF j < i THEN j ELSE j + 1]]
           new  == s \notin event /\ ping[s][i] = "inactive"
       IN /\ ping' = [ping EXCEPT ![s] = rest]
          /\ todo' = Remembered(s) \o
                     IF new THEN Closed(s) \o <<Put("answer", s, NoBinding)>> ELSE <<>>
  /\ UNCHANGED <<sold, license, event, entitlement, honoured, crashes>>

\* The running handler writes its next document, or has its answer on the way.
Write ==
  /\ todo # <<>>
  /\ todo' = Tail(todo)
  /\ LET w == Head(todo)
     IN /\ event' = IF w.doc = "event" THEN event \cup {w.of} ELSE event
        /\ license' = IF w.doc = "license" THEN [license EXCEPT ![w.of] = w.is] ELSE license
        /\ entitlement' = IF w.doc = "entitlement"
                          THEN [entitlement EXCEPT ![w.of] = w.is] ELSE entitlement
        /\ honoured' = IF w.doc = "answer" THEN honoured \cup {w.of} ELSE honoured
  /\ UNCHANGED <<sold, ping, crashes>>

Crash == /\ crashes < MaxCrashes
         /\ crashes' = crashes + 1
         /\ todo' = <<>>
         /\ UNCHANGED <<sold, ping, license, event, entitlement, honoured>>

Next == \/ \E s \in Sale : Sell(s) \/ Withdraw(s) \/ Repeat(s) \/ Ping(s)
        \/ \E a \in Account, s \in Sale : Verify(a, s)
        \/ Write \/ Crash

Spec == Init /\ [][Next]_vars
-----------------------------------------------------------------------------
BindingType == [account : Account \cup {None}, sale : Sale \cup {None}, active : BOOLEAN]

\* The documents have their types.
BillingTypeOK == /\ license \in [Sale -> BindingType]
                 /\ entitlement \in [Account -> BindingType]
                 /\ event \subseteq Sale /\ honoured \subseteq Sale

\* A key belongs to the first account that bound it: no later call, ping or
\* restart moves it.
LicenseStays ==
  \A s \in Sale : license[s].account # None
                  => license'[s].account = license[s].account

\* Every entitlement shows a license that is bound to this very account, whatever
\* write the process died after.
EntitlementBacked ==
  \A a \in Account : entitlement[a] # NoBinding
                     => license[entitlement[a].sale].account = a

\* A withdrawal whose ping was the first event of its sale and was answered takes
\* effect for good: nobody stays or becomes entitled by that sale.
WithdrawalLasts ==
  \A s \in honoured :
    /\ ~license[s].active
    /\ \A a \in Account : entitlement[a].sale = s => ~entitlement[a].active

\* What billing keeps through pings, retries and restarts: a key stays with its
\* account, an entitlement has its license, and a withdrawal lasts.
BillingHolds == [][LicenseStays /\ EntitlementBacked' /\ WithdrawalLasts']_vars
=============================================================================
