------------------------------- MODULE SignIn -------------------------------
(* Signing a device in (auth/attempts.py, auth/routes.py, auth/web.py) and   *)
(* the user names it needs (users/service.py). The device opens an attempt   *)
(* and polls for its outcome; the page in the browser signs the user in at   *)
(* Clerk, has a name claimed and completes the attempt. Attempts live in     *)
(* memory; profiles and names are documents, written one at a time, and the  *)
(* process may die between two of them. Handlers run on one event loop and   *)
(* await nothing but the event of a poll.                                    *)
EXTENDS Naturals, Sequences

CONSTANTS Account, Name, Attempt, Page,
          None,        \* no account, no name, no document
          TTL,         \* ticks an attempt lives
          MaxClock,    \* bound: ticks in all
          MaxCrashes   \* bound: restarts in all

VARIABLES
  clock,     \* ticks so far
  attempt,   \* AuthAttemptStore.attempts
  poll,      \* of each attempt: "idle", "waiting", or what the device was told
  profile,   \* [account -> {} without a profile, or {its user name or None}]
  owner,     \* [name -> the account in /usernames/<name>.doc, or None]
  page,      \* of each page: what it shows, its attempt and its account
  todo,      \* the documents the handler that runs has still to write
  crashes

vars == <<clock, attempt, poll, profile, owner, page, todo, crashes>>

Status == {"absent", "pending", "expired", "canceled", "signed_out", "complete"}

Absent == [status |-> "absent", expires |-> 0, event |-> FALSE, account |-> None]

Init == /\ clock = 0
        /\ attempt = [x \in Attempt |-> Absent]
        /\ poll = [x \in Attempt |-> "idle"]
        /\ profile = [a \in Account |-> {}]
        /\ owner = [n \in Name |-> None]
        /\ page = [p \in Page |-> [at |-> "closed", attempt |-> None, account |-> None]]
        /\ todo = <<>>
        /\ crashes = 0

-----------------------------------------------------------------------------
\* The event loop takes a request when no handler is between two writes.
Free == todo = <<>>

Ended(r, status) == [r EXCEPT !.status = status, !.event = TRUE]
Late(r)          == clock >= r.expires

\* AuthAttemptStore.get: a pending attempt that is too old expires on sight.
Got(r) == IF r.status = "pending" /\ Late(r) THEN Ended(r, "expired") ELSE r

\* device_start
Start(x) ==
  /\ Free
  /\ attempt[x].status = "absent"
  /\ attempt' = [attempt EXCEPT ![x] = [Absent EXCEPT !.status = "pending", !.expires = clock + TTL]]
  /\ UNCHANGED <<clock, poll, profile, owner, page, todo, crashes>>

\* device_wait, up to its await: an attempt that has ended is told at once.
Wait(x) ==
  /\ Free
  /\ attempt[x].status # "absent"
  /\ poll[x] # "waiting"
  /\ LET g == Got(attempt[x])
     IN /\ attempt' = [attempt EXCEPT ![x] = g]
        /\ poll' = [poll EXCEPT ![x] = IF g.status = "pending" THEN "waiting" ELSE g.status]
  /\ UNCHANGED <<clock, profile, owner, page, todo, crashes>>

\* device_wait, after its await: the event was set, or the time-out has passed.
Answer(x) ==
  /\ Free
  /\ poll[x] = "waiting"
  /\ LET g == Got(attempt[x])
     IN /\ attempt' = [attempt EXCEPT ![x] = g]
        /\ poll' = [poll EXCEPT ![x] = g.status]
  /\ UNCHANGED <<clock, profile, owner, page, todo, crashes>>

\* AuthAttemptStore.cancel, called by the device, and signed_out, by a page.
Withdrawn(r, status) ==
  IF Got(r).status = "pending" THEN Ended(r, status) ELSE Got(r)

Cancel(x) ==
  /\ Free
  /\ attempt[x].status # "absent"
  /\ attempt' = [attempt EXCEPT ![x] = Withdrawn(@, "canceled")]
  /\ UNCHANGED <<clock, poll, profile, owner, page, todo, crashes>>

-----------------------------------------------------------------------------
\* What the page shows next.
Show(p, at) == page' = [page EXCEPT ![p].at = at]

\* The page of an attempt is opened, without a session at Clerk.
OpenPage(p, x) ==
  /\ page[p].at = "closed"
  /\ attempt[x].status # "absent"
  /\ page' = [page EXCEPT ![p] = [at |-> "clerk", attempt |-> x, account |-> None]]
  /\ UNCHANGED <<clock, attempt, poll, profile, owner, todo, crashes>>

\* mountClerk: the user signs in as some account.
SignedIn(p, a) ==
  /\ page[p].at = "clerk"
  /\ page' = [page EXCEPT ![p].at = "profile", ![p].account = a]
  /\ UNCHANGED <<clock, attempt, poll, profile, owner, todo, crashes>>

\* get_or_create_from_principal saves a profile that was missing.
Created(a) == IF profile[a] = {} THEN {None} ELSE profile[a]
UserName(a) == CHOOSE n \in Created(a) : TRUE

\* afterSignedIn with /auth/api/profile: an account without a name gets the form.
LoadProfile(p) ==
  LET who == page[p].account
  IN /\ Free
     /\ page[p].at = "profile"
     /\ profile' = [profile EXCEPT ![who] = Created(who)]
     /\ Show(p, IF UserName(who) = None THEN "form" ELSE "connect")
     /\ UNCHANGED <<clock, attempt, poll, owner, todo, crashes>>

\* claim_username: the name of another account is refused; an old name is given
\* up, then the profile is saved, then the new name is reserved.
Available(a, n) == owner[n] \in {None, a}

\* Fault: the name is reserved before the profile bears it.
ReservedFirst(a, n) ==
  <<[doc |-> "owner", of |-> n, is |-> a], [doc |-> "profile", of |-> a, is |-> n]>>
Saved(a, n) ==
  <<[doc |-> "profile", of |-> a, is |-> n], [doc |-> "owner", of |-> n, is |-> a]>>

GivenUp(a, n) ==
  IF UserName(a) \in {None, n} THEN <<>>
  ELSE <<[doc |-> "owner", of |-> UserName(a), is |-> None]>>

Claim(p, n) ==
  LET who == page[p].account
  IN /\ Free
     /\ page[p].at \in {"form", "settings"}
     /\ Available(who, n)
     /\ todo' = GivenUp(who, n) \o Saved(who, n)
     /\ Show(p, IF page[p].at = "form" THEN "claiming" ELSE "renaming")
     /\ UNCHANGED <<clock, attempt, poll, profile, owner, crashes>>

\* The page that waits for its claim shows a, or b when it asked for a change.
Told(a, b) ==
  page' = [p \in Page |-> CASE page[p].at = "claiming" -> [page[p] EXCEPT !.at = a]
                            [] page[p].at = "renaming" -> [page[p] EXCEPT !.at = b]
                            [] OTHER                   -> page[p]]

\* The next document of the handler is written; after the last one it answers.
Write ==
  /\ todo # <<>>
  /\ LET w == Head(todo)
     IN IF w.doc = "profile"
        THEN /\ profile' = [profile EXCEPT ![w.of] = {w.is}]
             /\ UNCHANGED owner
        ELSE /\ owner' = [owner EXCEPT ![w.of] = w.is]
             /\ UNCHANGED profile
  /\ todo' = Tail(todo)
  /\ IF Tail(todo) = <<>> THEN Told("connect", "done") ELSE UNCHANGED page
  /\ UNCHANGED <<clock, attempt, poll, crashes>>

\* A signed-in user may change the name later (POST /api/users/claim-username).
ChangeName(p) ==
  /\ page[p].at = "done"
  /\ Show(p, "settings")
  /\ UNCHANGED <<clock, attempt, poll, profile, owner, todo, crashes>>

\* AuthAttemptStore.complete
Refused(r) == Got(r).status \in {"absent", "expired", "canceled"} \/ Late(r)

Completed(r, a) ==
  CASE r.status = "absent"                    -> r
    [] r.status # "absent" /\ Late(r)         -> Ended(r, "expired")
    [] Refused(r) \/ r.status = "complete"    -> r
    [] UserName(a) = None                     -> r
    [] OTHER -> [Ended(r, "complete") EXCEPT !.account = a]

\* completeLogin with /auth/api/complete-login
Connect(p) ==
  LET who == page[p].account
      x == page[p].attempt
      r == attempt[x]
  IN /\ Free
     /\ page[p].at = "connect"
     /\ profile' = [profile EXCEPT ![who] = Created(who)]
     /\ attempt' = [attempt EXCEPT ![x] = Completed(r, who)]
     /\ Show(p, CASE Refused(r)          -> "error"
                  [] r.status = "complete" -> "done"
                  [] UserName(who) = None  -> "form"
                  [] OTHER               -> "done")
     /\ UNCHANGED <<clock, poll, owner, todo, crashes>>

\* The button of the page, with /auth/api/sign-out; it then loads itself again.
SignOut(p) ==
  /\ Free
  /\ page[p].at \in {"form", "settings", "connect", "done", "error"}
  /\ LET x == page[p].attempt
     IN attempt' = [attempt EXCEPT ![x] = Withdrawn(@, "signed_out")]
  /\ page' = [page EXCEPT ![p].at = "clerk", ![p].account = None]
  /\ UNCHANGED <<clock, poll, profile, owner, todo, crashes>>

-----------------------------------------------------------------------------
Tick == /\ clock < MaxClock
        /\ clock' = clock + 1
        /\ UNCHANGED <<attempt, poll, profile, owner, page, todo, crashes>>

\* The process dies: documents stay, attempts and the handler are gone, and the
\* page whose request was cut off shows its form with a message.
Crash == /\ crashes < MaxCrashes
         /\ crashes' = crashes + 1
         /\ attempt' = [x \in Attempt |-> Absent]
         /\ poll' = [x \in Attempt |-> "idle"]
         /\ todo' = <<>>
         /\ Told("form", "settings")
         /\ UNCHANGED <<clock, profile, owner>>

Next == \/ \E x \in Attempt : Start(x) \/ Wait(x) \/ Answer(x) \/ Cancel(x)
        \/ \E p \in Page, x \in Attempt : OpenPage(p, x)
        \/ \E p \in Page, a \in Account : SignedIn(p, a)
        \/ \E p \in Page, n \in Name : Claim(p, n)
        \/ \E p \in Page : LoadProfile(p) \/ ChangeName(p) \/ Connect(p) \/ SignOut(p)
        \/ Write \/ Tick \/ Crash

Spec == Init /\ [][Next]_vars
-----------------------------------------------------------------------------
\* The documents, the attempts and the pages have their types.
SignInTypeOK ==
  /\ attempt \in [Attempt -> [status : Status, expires : 0..MaxClock + TTL,
                              event : BOOLEAN, account : Account \cup {None}]]
  /\ poll \in [Attempt -> Status \cup {"idle", "waiting"}]
  /\ profile \in [Account -> SUBSET (Name \cup {None})]
  /\ owner \in [Name -> Account \cup {None}]
  /\ page \in [Page -> [at : {"closed", "clerk", "profile", "form", "claiming", "settings",
                              "renaming", "connect", "done", "error"},
                        attempt : Attempt \cup {None}, account : Account \cup {None}]]

\* A device that polls is woken by whatever ends its attempt, except the clock,
\* which it meets at its own time-out.
WaiterWoken ==
  \A x \in Attempt : poll[x] = "waiting" /\ attempt[x].status # "pending" => attempt[x].event

\* An attempt the device has given up, or that came too late, never hands out
\* tokens afterwards, whatever the pages still do.
CancelFinal ==
  \A x \in Attempt : attempt[x].status \in {"canceled", "expired"}
                     => attempt'[x].status # "complete"

\* A name is reserved for an account only when the profile of that account bears
\* it, whichever write the process dies after.
ReservedIsBorne ==
  \A n \in Name : owner[n] # None => n \in profile[owner[n]]

\* Without a restart in the middle of a claim, no two accounts bear one name.
NamesUnique ==
  crashes = 0 => \A a, b \in Account :
                   a # b => (profile[a] \cap profile[b]) \subseteq {None}

\* What sign-in keeps however device, pages, clock and restarts interleave: a waiting
\* device is woken, a lost attempt stays lost, and a name has one bearer.
SignInHolds == [][CancelFinal /\ WaiterWoken' /\ ReservedIsBorne' /\ NamesUnique']_vars
=============================================================================
