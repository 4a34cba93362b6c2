----------------------------- MODULE OrderOffers -----------------------------
(***************************************************************************)
(* Which technicians an open order is offered to.  The rule is written     *)
(* four times in the code: as the query of the list of available orders,   *)
(* as the test of a single order behind its page and its button, as the    *)
(* checks of the acceptance under its lock, and as the choice of those to  *)
(* tell.  An order here is NEW and has no technician.                      *)
(*                                                                         *)
(* Time is counted in parts of a day; the company's gate is one of them.   *)
(***************************************************************************)
EXTENDS Integers

CONSTANTS
  PerDay,       \* parts of a day
  Horizon,      \* bound: the latest time
  LegacyLimit,  \* TECHNICIAN_MAX_ACTIVE_ORDERS
  None          \* null

ASSUME OfferAssumption ==
  /\ PerDay \in Nat \ {0} /\ Horizon \in Nat /\ LegacyLimit \in Nat
  /\ None \notin Nat

Times == 0 .. Horizon
Day(n) == n \div PerDay
Hour(n) == n % PerDay

\* What decides about an order: a service category or a legacy skill, the times
\* from which the second and the third rank see it, and when it is to be done.
OpenOrder ==
  [category : BOOLEAN, skill : BOOLEAN, p2 : Times \cup {None}, p3 : Times \cup {None},
   service : Nat \cup {None}, scheduled : Times \cup {None}]

\* rank: the priority in the order's category, 0 for none; skill: the legacy skill
\* the order asks for; waiting, started: the orders the technician has.
Offered == [free : BOOLEAN, rank : 0 .. 3, skill : BOOLEAN, waiting : Nat, started : Nat]
Active(t) == t.waiting + t.started

Settings == [limit : Nat, future : BOOLEAN, gate : (0 .. PerDay - 1) \cup {None}]

Full(active, limit) == limit > 0 /\ active >= limit
AfterGate(s, n) == s.gate = None \/ Hour(n) >= s.gate

----------------------------------------------------------------------------
\* The list, a query: every condition is on a column, and a null meets none.

IsSince(time, n) == time # None /\ time <= n

\* Mutant of ListedRank: a delay that was never set has passed.
ListedRankUnset(o, t, n) ==
  \/ t.rank = 1
  \/ t.rank = 2 /\ (o.p2 = None \/ o.p2 <= n)
  \/ t.rank = 3 /\ (o.p3 = None \/ o.p3 <= n)
ListedRank(o, t, n) ==
  \/ t.rank = 1
  \/ t.rank = 2 /\ IsSince(o.p2, n)
  \/ t.rank = 3 /\ IsSince(o.p3, n)

ListedDate(o, s, n) ==
  \/ IsSince(o.service, Day(n))
  \/ o.service = None /\ o.scheduled = None
  \/ o.service = None /\ o.scheduled # None /\ Day(o.scheduled) <= Day(n)
  \/ s.future /\ AfterGate(s, n) /\ o.service # None /\ o.service > Day(n)
  \/ s.future /\ AfterGate(s, n) /\ o.service = None /\ o.scheduled # None
       /\ Day(o.scheduled) > Day(n)

Listed(o, t, s, n) ==
  /\ t.free
  /\ ~Full(Active(t), s.limit)
  /\ o.category /\ t.rank # 0
  /\ ListedRank(o, t, n)
  /\ ListedDate(o, s, n)

----------------------------------------------------------------------------
\* The page of one order, and its button.

\* The service date counts, and the appointment for orders without one.
ServiceDay(o) ==
  IF o.service # None \/ o.scheduled = None THEN o.service ELSE Day(o.scheduled)

FutureVisible(o, s, n) ==
  ServiceDay(o) # None /\ ServiceDay(o) > Day(n) => s.future /\ AfterGate(s, n)

Waited(o, t, n) ==
  /\ t.rank = 2 => IsSince(o.p2, n)
  /\ t.rank = 3 => IsSince(o.p3, n)

Visible(o, t, s, n) ==
  /\ t.free
  /\ \/ o.category /\ t.rank # 0 /\ ~Full(Active(t), s.limit) /\ Waited(o, t, n)
     \/ ~o.category /\ ~Full(Active(t), LegacyLimit) /\ (o.skill => t.skill)
  /\ FutureVisible(o, s, n)

\* On the service date the company's gate counts, afterwards nothing does.
AcceptDay(o, s, n) ==
  ServiceDay(o) # None =>
    ServiceDay(o) < Day(n) \/ (ServiceDay(o) = Day(n) /\ AfterGate(s, n))

HasButton(o, t, s, n) == Visible(o, t, s, n) /\ AcceptDay(o, s, n)

----------------------------------------------------------------------------
\* The acceptance of an order with a category, and of one without.

Accepts(o, t, s, n) ==
  /\ o.category
  /\ t.free
  /\ t.rank # 0
  /\ ~Full(Active(t), s.limit)
  /\ Waited(o, t, n)
  /\ FutureVisible(o, s, n)
  /\ AcceptDay(o, s, n)

LegacyAccepts(o, t) ==
  /\ t.free
  /\ t.started < LegacyLimit
  /\ o.skill => t.skill

----------------------------------------------------------------------------
\* Those who are told of a new order, which is given the times of the ranks.

Told(o, t, s, n) == o.category /\ t.rank # 0 /\ t.free /\ Visible(o, t, s, n)

Delayed(o, since, delay2, delay3) ==
  [o EXCEPT !.p2 = IF @ = None THEN since + delay2 ELSE @,
            !.p3 = IF @ = None THEN since + delay3 ELSE @]

----------------------------------------------------------------------------
\* Properties of the rules

\* The list, the page and the notification offer an order to the same technicians,
\* and who has the button is not refused.
Agree(o, t, s, n) ==
  /\ o.category => /\ Listed(o, t, s, n) <=> Visible(o, t, s, n)
                   /\ Told(o, t, s, n) <=> Visible(o, t, s, n)
                   /\ HasButton(o, t, s, n) <=> Accepts(o, t, s, n)
  /\ ~o.category => (HasButton(o, t, s, n) => LegacyAccepts(o, t))

\* What a technician may accept stays acceptable as time goes on.
Stays(o, t, s, n) ==
  Accepts(o, t, s, n) => \A later \in n .. Horizon : Accepts(o, t, s, later)

=============================================================================
