------------------------ MODULE Notifications_proofs -------------------------
(***************************************************************************)
(* Proofs about Notifications, for any number of requests, events, lots,   *)
(* phones and technicians, and about the rules of OrderOffers, for every   *)
(* order, technician, company, length of a day and moment.  What may not   *)
(* overlap is an assumption of the theorem that needs it.                  *)
(***************************************************************************)
EXTENDS Notifications, SequenceTheorems, TLAPS

USE NotificationAssumption

----------------------------------------------------------------------------
\* Sequences

NoRepeat(s) == \A i, j \in DOMAIN s : s[i] = s[j] => i = j

\* The head and the tail of a sequence are its elements; without repetition the head
\* is not in the tail.
LEMMA HeadTail ==
  ASSUME NEW S, NEW s \in Seq(S), s # <<>>
  PROVE  /\ Head(s) \in S /\ Tail(s) \in Seq(S)
         /\ ToSet(s) = {Head(s)} \cup ToSet(Tail(s))
         /\ NoRepeat(s) => NoRepeat(Tail(s)) /\ Head(s) \notin ToSet(Tail(s))
<1>1. /\ Head(s) \in S /\ Tail(s) \in Seq(S) /\ Head(s) = s[1]
      /\ Len(s) \in Nat \ {0} /\ Len(Tail(s)) = Len(s) - 1
      /\ \A i \in 1 .. Len(Tail(s)) : Tail(s)[i] = s[i + 1]
  BY HeadTailProperties
<1>2. DOMAIN s = 1 .. Len(s) /\ DOMAIN Tail(s) = 1 .. Len(Tail(s))
  BY <1>1
<1>3. ToSet(s) = {Head(s)} \cup ToSet(Tail(s))
  <2>1. ToSet(Tail(s)) \subseteq ToSet(s) /\ Head(s) \in ToSet(s)
    BY <1>1, <1>2 DEF ToSet
  <2>2. ASSUME NEW i \in 1 .. Len(s), i # 1 PROVE s[i] \in ToSet(Tail(s))
    <3>1. i - 1 \in 1 .. Len(Tail(s)) /\ Tail(s)[i - 1] = s[i]
      BY <1>1, <2>2
    <3>2. QED
      BY <1>2, <3>1 DEF ToSet
  <2>3. QED
    BY <1>1, <1>2, <2>1, <2>2 DEF ToSet
<1>4. ASSUME NoRepeat(s) PROVE NoRepeat(Tail(s)) /\ Head(s) \notin ToSet(Tail(s))
  <2>1. NoRepeat(Tail(s))
    <3>1. SUFFICES ASSUME NEW i \in 1 .. Len(Tail(s)), NEW j \in 1 .. Len(Tail(s)),
                          Tail(s)[i] = Tail(s)[j]
                   PROVE  i = j
      BY <1>2 DEF NoRepeat
    <3>2. s[i + 1] = s[j + 1] /\ i + 1 \in DOMAIN s /\ j + 1 \in DOMAIN s
      BY <1>1, <1>2, <3>1
    <3>3. i + 1 = j + 1
      BY <1>4, <3>2 DEF NoRepeat
    <3>4. QED
      BY <3>3
  <2>2. ASSUME NEW i \in 1 .. Len(Tail(s)), Tail(s)[i] = Head(s) PROVE FALSE
    <3>1. s[i + 1] = s[1] /\ i + 1 \in DOMAIN s /\ 1 \in DOMAIN s
      BY <1>1, <1>2, <2>2
    <3>2. i + 1 = 1
      BY <1>4, <3>1 DEF NoRepeat
    <3>3. QED
      BY <3>2
  <2>3. QED
    BY <1>2, <2>1, <2>2 DEF ToSet
<1>5. QED
  BY <1>1, <1>3, <1>4

\* The rows whose dispatch is to run: the first, and the others.
LEMMA FirstOfIds ==
  ASSUME NEW s \in Seq(1 .. MaxRows), s # <<>>
  PROVE  /\ Tail(s) \in Seq(1 .. MaxRows) /\ Head(s) \in ToSet(s)
         /\ ToSet(Tail(s)) \subseteq ToSet(s)
<1>1. Tail(s) \in Seq(1 .. MaxRows) /\ ToSet(s) = {Head(s)} \cup ToSet(Tail(s))
  BY HeadTail
<1>2. QED
  BY <1>1

LEMMA Appended ==
  ASSUME NEW S, NEW s \in Seq(S), NEW e \in S
  PROVE  /\ Append(s, e) \in Seq(S) /\ ToSet(Append(s, e)) = ToSet(s) \cup {e}
         /\ NoRepeat(s) /\ e \notin ToSet(s) => NoRepeat(Append(s, e))
<1>1. /\ Append(s, e) \in Seq(S) /\ Len(s) \in Nat /\ Len(Append(s, e)) = Len(s) + 1
      /\ \A i \in 1 .. Len(s) : Append(s, e)[i] = s[i]
      /\ Append(s, e)[Len(s) + 1] = e
  BY AppendProperties
<1>2. DOMAIN s = 1 .. Len(s) /\ DOMAIN Append(s, e) = 1 .. Len(s) + 1
  BY <1>1
<1>3. ToSet(Append(s, e)) = ToSet(s) \cup {e}
  BY <1>1, <1>2 DEF ToSet
<1>4. ASSUME NoRepeat(s), e \notin ToSet(s) PROVE NoRepeat(Append(s, e))
  <2>1. \A i \in DOMAIN s : s[i] # e
    BY <1>4 DEF ToSet
  <2>2. QED
    BY <1>1, <1>2, <1>4, <2>1 DEF NoRepeat
<1>5. QED
  BY <1>1, <1>3, <1>4

LEMMA EmptyHasNone == NoRepeat(<<>>) /\ ToSet(<<>>) = {} /\ \A S : <<>> \in Seq(S)
  BY DEF NoRepeat, ToSet

\* What a sequence holds is in the set it is over.
LEMMA ElementsIn == ASSUME NEW S, NEW s \in Seq(S) PROVE ToSet(s) \subseteq S
  BY DEF ToSet

----------------------------------------------------------------------------
\* Requests in flight have a shape: only an open transaction has events to emit, only
\* a dispatch has rows, which are there, and only who tells technicians is telling one.

Shape(j) ==
  /\ j.todo \in Seq(Events \ {Offer}) /\ j.mine \in Seq(Events \ {Offer})
  /\ j.op = "work" \/ (j.todo = <<>> /\ j.mine = <<>>)
  /\ j.op \in {"dispatch", "queue"} \/ j.ids = <<>>
  /\ \A id \in ToSet(j.ids) : id \in 1 .. Len(row)
  /\ j.op = "queue" => j.ids # <<>>
  /\ j.op \in Passes => j.left \subseteq Technicians
  /\ j.op \notin Passes => j.telling = {}
Typed == TypeOK /\ \A c \in Clients : Shape(job[c])

LEMMA IdleShape == Idle \in Job /\ Shape(Idle) /\ Shape(Idle)' /\ Idle.op = "none"
  BY EmptyHasNone DEF Idle, Job, Ops, Shape, Passes

\* A request that moves is the only one that does, and rows are never lost.
LEMMA Moves ==
  ASSUME Typed, NEW c \in Clients, NEW f \in Job, job' = [job EXCEPT ![c] = f], Shape(f)',
         Len(row') \in Nat, Len(row) <= Len(row')
  PROVE  /\ job' \in [Clients -> Job]
         /\ job'[c] = f /\ \A d \in Clients \ {c} : job'[d] = job[d]
         /\ \A d \in Clients : Shape(job[d])'
<1>1. /\ job' \in [Clients -> Job]
      /\ job'[c] = f /\ \A d \in Clients \ {c} : job'[d] = job[d]
  BY DEF Typed, TypeOK
<1>2. Len(row) \in Nat
  BY DEF Typed, TypeOK
<1>3. ASSUME NEW d \in Clients \ {c} PROVE Shape(job[d])'
  <2>1. Shape(job[d]) /\ job'[d] = job[d]
    BY <1>1 DEF Typed
  <2>2. QED
    BY <1>2, <2>1 DEF Shape
<1>4. QED
  BY <1>1, <1>3

\* ... also when it leaves the rows as they are, or ends.
LEMMA MovesAlone ==
  ASSUME Typed, NEW c \in Clients, NEW f \in Job, job' = [job EXCEPT ![c] = f], Shape(f),
         row' = row
  PROVE  /\ job' \in [Clients -> Job]
         /\ job'[c] = f /\ \A d \in Clients \ {c} : job'[d] = job[d]
         /\ \A d \in Clients : Shape(job[d])'
<1>1. Len(row') \in Nat /\ Len(row) <= Len(row')
  BY DEF Typed, TypeOK
<1>2. Shape(f)'
  BY DEF Shape
<1>3. QED
  BY <1>1, <1>2, Moves

LEMMA Ends ==
  ASSUME Typed, NEW c \in Clients, job' = [job EXCEPT ![c] = Idle], row' = row
  PROVE  /\ job' \in [Clients -> Job]
         /\ job'[c] = Idle /\ \A d \in Clients \ {c} : job'[d] = job[d]
         /\ \A d \in Clients : Shape(job[d])'
  BY IdleShape, MovesAlone

\* A row keeps its event when its status changes.
LEMMA StatusChanges ==
  ASSUME row \in Seq(Event), NEW id \in 1 .. Len(row), NEW status \in {"DISPATCHED", "SKIPPED"},
         row' = [row EXCEPT ![id].status = status]
  PROVE  /\ row' \in Seq(Event) /\ Len(row') = Len(row)
         /\ \A n \in 1 .. Len(row) : row'[n].event = row[n].event
<1>1. row[id] \in Event
  OBVIOUS
<1>2. [row[id] EXCEPT !.status = status] \in Event /\ [row[id] EXCEPT !.status = status].event = row[id].event
  BY <1>1 DEF Event
<1>3. row' = [row EXCEPT ![id] = [row[id] EXCEPT !.status = status]]
  OBVIOUS
<1>4. row' \in Seq(Event) /\ Len(row') = Len(row)
  BY <1>2, <1>3
<1>5. QED
  BY <1>2, <1>3, <1>4

----------------------------------------------------------------------------
\* The transaction: what each step does to its request.

LEMMA WorkBegins ==
  ASSUME Typed, NEW c \in Clients, NEW lot \in Lots, BeginWork(c, lot)
  PROVE  /\ Typed' /\ job[c] = Idle
         /\ job'[c].op = "work" /\ job'[c].todo = lot /\ job'[c].mine = <<>> /\ job'[c].ids = <<>>
         /\ job'[c].telling = {} /\ \A d \in Clients \ {c} : job'[d] = job[d]
         /\ UNCHANGED <<row, outbox, told, throttle>>
<1> DEFINE f == [Idle EXCEPT !.op = "work", !.todo = lot, !.creates = (lot = Creation)]
<1>1. job' = [job EXCEPT ![c] = f] /\ job[c] = Idle
      /\ UNCHANGED <<now, order, since, row, outbox, enabled, told, throttle>>
  BY DEF BeginWork
<1>2. lot \in Seq(Events \ {Offer}) /\ lot \in Seq(Events) /\ (lot = Creation) \in BOOLEAN
  <2>1. lot \in Seq(Events \ {Offer})
    OBVIOUS
  <2>2. QED
    BY <2>1
<1>3. /\ f \in Job /\ f.op = "work" /\ f.todo = lot /\ f.mine = <<>> /\ f.ids = <<>>
      /\ f.left = {} /\ f.telling = {}
  BY <1>2, IdleShape DEF Idle, Job, Ops
<1> HIDE DEF f
<1>4. Shape(f)
  BY <1>2, <1>3, EmptyHasNone DEF Shape, Passes
<1>5. QED
  BY <1>1, <1>3, <1>4, MovesAlone DEF Typed, TypeOK

LEMMA WorkEmits ==
  ASSUME Typed, NEW c \in Clients, Emit(c)
  PROVE  /\ Typed' /\ job[c].op = "work" /\ job[c].todo # <<>>
         /\ job'[c].op = "work" /\ job'[c].todo = Tail(job[c].todo) /\ job'[c].ids = <<>>
         /\ job'[c].mine = IF Known(c, Head(job[c].todo)) THEN job[c].mine
                           ELSE Append(job[c].mine, Head(job[c].todo))
         /\ job'[c].telling = {} /\ \A d \in Clients \ {c} : job'[d] = job[d]
         /\ UNCHANGED <<row, outbox, told, throttle>>
<1> DEFINE mine == IF Known(c, Head(job[c].todo)) THEN job[c].mine
                   ELSE Append(job[c].mine, Head(job[c].todo))
           f == [job[c] EXCEPT !.todo = Tail(job[c].todo), !.mine = mine]
<1>1. job' = [job EXCEPT ![c] = f] /\ job[c].op = "work" /\ job[c].todo # <<>>
      /\ UNCHANGED <<now, order, since, row, outbox, enabled, told, throttle>>
  BY DEF Emit
<1>2. job[c] \in Job /\ Shape(job[c])
  BY DEF Typed, TypeOK
<1>3. Head(job[c].todo) \in Events \ {Offer} /\ Tail(job[c].todo) \in Seq(Events \ {Offer})
  BY <1>1, <1>2, HeadTail DEF Shape
<1>4. mine \in Seq(Events \ {Offer})
  BY <1>2, <1>3, Appended DEF Shape
<1> HIDE DEF mine
<1>5. mine \in Seq(Events) /\ Tail(job[c].todo) \in Seq(Events)
  BY <1>3, <1>4
<1>6. /\ f \in Job /\ f.op = "work" /\ f.todo = Tail(job[c].todo) /\ f.mine = mine
      /\ f.ids = job[c].ids /\ f.telling = job[c].telling
  BY <1>1, <1>2, <1>5 DEF Job
<1> HIDE DEF f
<1>7. Shape(f) /\ f.ids = <<>> /\ f.telling = {}
  BY <1>1, <1>2, <1>3, <1>4, <1>6 DEF Shape, Passes
<1>8. QED
  BY <1>1, <1>6, <1>7, MovesAlone DEF Typed, TypeOK, mine

\* The rows recorded get the next ids, and are dispatched in their order.
LEMMA WorkCommits ==
  ASSUME Typed, NEW c \in Clients, Commit(c)
  PROVE  /\ Typed' /\ job[c].op = "work" /\ job'[c].op = "dispatch"
         /\ job'[c].todo = <<>> /\ job'[c].mine = <<>>
         /\ job[c].mine \in Seq(Events) /\ Len(row') = Len(row) + Len(job[c].mine)
         /\ \A n \in 1 .. Len(row) : row'[n] = row[n]
         /\ \A n \in 1 .. Len(job[c].mine) : row'[Len(row) + n].event = job[c].mine[n]
         /\ NoRepeat(job'[c].ids) /\ ToSet(job'[c].ids) = (Len(row) + 1) .. Len(row')
         /\ job'[c].telling = {} /\ \A d \in Clients \ {c} : job'[d] = job[d]
         /\ UNCHANGED <<outbox, told, throttle>>
<1> DEFINE mine == job[c].mine
           ids == [n \in DOMAIN mine |-> Len(row) + n]
           new == [n \in DOMAIN mine |-> [event |-> mine[n], status |-> "RECORDED"]]
<1>1. /\ job' = [job EXCEPT ![c] = [job[c] EXCEPT !.op = "dispatch", !.mine = <<>>, !.ids = ids]]
      /\ job[c].op = "work" /\ job[c].todo = <<>>
      /\ Len(row) + Len(mine) <= MaxRows /\ row' = row \o new
      /\ UNCHANGED <<now, outbox, enabled, told, throttle>>
  BY DEF Commit, After
<1>2. job[c] \in Job /\ Shape(job[c]) /\ row \in Seq(Event) /\ Len(row) \in Nat
  BY DEF Typed, TypeOK
<1>3. mine \in Seq(Events) /\ DOMAIN mine = 1 .. Len(mine) /\ Len(mine) \in Nat
  BY <1>2 DEF Job
<1> HIDE DEF mine
<1>4. new \in Seq(Event) /\ Len(new) = Len(mine) /\ \A n \in 1 .. Len(mine) : new[n].event = mine[n]
  <2>1. \A n \in 1 .. Len(mine) : [event |-> mine[n], status |-> "RECORDED"] \in Event
    BY <1>3 DEF Event
  <2>2. QED
    BY <1>3, <2>1
<1> HIDE DEF new
<1>5. /\ row' \in Seq(Event) /\ Len(row') = Len(row) + Len(mine)
      /\ \A n \in 1 .. Len(row) : row'[n] = row[n]
      /\ \A n \in 1 .. Len(mine) : row'[Len(row) + n].event = mine[n]
  <2>1. /\ row \o new \in Seq(Event) /\ Len(row \o new) = Len(row) + Len(new)
        /\ \A n \in 1 .. Len(row) + Len(new) :
             (row \o new)[n] = IF n <= Len(row) THEN row[n] ELSE new[n - Len(row)]
    <3>1. row \in Seq(Event) /\ new \in Seq(Event)
      BY <1>2, <1>4
    <3>2. QED
      BY <3>1, ConcatProperties
  <2>2. row' = row \o new /\ Len(new) = Len(mine) /\ Len(new) \in Nat
    BY <1>1, <1>3, <1>4
  <2>3. row' \in Seq(Event) /\ Len(row') = Len(row) + Len(mine)
    BY <2>1, <2>2
  <2>4. \A n \in 1 .. Len(row) : row'[n] = row[n]
    BY <1>2, <2>1, <2>2
  <2>5. ASSUME NEW n \in 1 .. Len(mine) PROVE row'[Len(row) + n].event = mine[n]
    <3>1. row'[Len(row) + n] = new[n]
      BY <1>2, <1>3, <2>1, <2>2
    <3>2. QED
      BY <1>4, <3>1
  <2>6. QED
    BY <2>3, <2>4, <2>5
<1>6. /\ ids \in Seq(1 .. MaxRows) /\ DOMAIN ids = 1 .. Len(mine)
      /\ \A n \in 1 .. Len(mine) : ids[n] = Len(row) + n
  BY <1>1, <1>2, <1>3
<1> HIDE DEF ids
<1>7. NoRepeat(ids) /\ ToSet(ids) = (Len(row) + 1) .. Len(row')
  <2>1. NoRepeat(ids)
    BY <1>2, <1>6 DEF NoRepeat
  <2>2. ToSet(ids) = {Len(row) + n : n \in 1 .. Len(mine)}
    BY <1>6 DEF ToSet
  <2>3. ToSet(ids) \subseteq (Len(row) + 1) .. Len(row')
    BY <1>2, <1>3, <1>5, <2>2
  <2>4. ASSUME NEW id \in (Len(row) + 1) .. Len(row') PROVE id \in ToSet(ids)
    <3>1. id - Len(row) \in 1 .. Len(mine) /\ id = Len(row) + (id - Len(row))
      BY <1>2, <1>3, <1>5
    <3>2. QED
      BY <2>2, <3>1
  <2>5. QED
    BY <2>1, <2>3, <2>4
<1> PICK f : f = [job[c] EXCEPT !.op = "dispatch", !.mine = <<>>, !.ids = ids]
  OBVIOUS
<1>8. /\ f \in Job /\ f.op = "dispatch" /\ f.todo = <<>> /\ f.mine = <<>> /\ f.ids = ids
      /\ f.telling = job[c].telling
  BY <1>1, <1>2, <1>6, EmptyHasNone DEF Job, Ops
<1>9. Shape(f)' /\ f.telling = {}
  <2>1. \A id \in ToSet(ids) : id \in 1 .. Len(row')
    BY <1>2, <1>5, <1>3, <1>7
  <2>2. f.telling = {}
    BY <1>1, <1>2, <1>8 DEF Shape, Passes
  <2>3. f.op \notin Passes /\ f.op # "queue" /\ f.op # "work"
    BY <1>8 DEF Passes
  <2>4. f.todo \in Seq(Events \ {Offer}) /\ f.mine \in Seq(Events \ {Offer})
    BY <1>8, EmptyHasNone
  <2>5. QED
    BY <1>8, <2>1, <2>2, <2>3, <2>4 DEF Shape
<1>10. Len(row') \in Nat /\ Len(row) <= Len(row') /\ Len(row') <= MaxRows
  BY <1>1, <1>2, <1>3, <1>5
<1>11. order' \in {"NONE", "NEW", "TAKEN"} /\ since' \in Times /\ now' \in Times
  BY <1>1 DEF Commit, Typed, TypeOK
<1>12. /\ job' \in [Clients -> Job]
       /\ job'[c] = f /\ \A d \in Clients \ {c} : job'[d] = job[d]
       /\ \A d \in Clients : Shape(job[d])'
  BY <1>1, <1>8, <1>9, <1>10, Moves
<1>13. Typed'
  BY <1>1, <1>5, <1>10, <1>11, <1>12 DEF Typed, TypeOK
<1>14. job[c].mine = mine
  BY DEF mine
<1>15. QED
  BY <1>1, <1>3, <1>5, <1>7, <1>8, <1>9, <1>12, <1>13, <1>14

----------------------------------------------------------------------------
\* After the commit: what each step does to its request.

\* A request that is past its transaction emits nothing.
LEMMA Silent ==
  ASSUME NEW j, Shape(j), j.op # "work"
  PROVE  j.todo = <<>> /\ j.mine = <<>> /\ ToSet(j.todo) = {} /\ ToSet(j.mine) = {}
  BY EmptyHasNone DEF Shape

LEMMA RowAddressed ==
  ASSUME Typed, NEW c \in Clients, Address(c)
  PROVE  /\ Typed' /\ job[c].op = "dispatch" /\ job[c].ids # <<>>
         /\ Len(row') = Len(row) /\ \A n \in 1 .. Len(row) : row'[n].event = row[n].event
         /\ \/ job'[c].op = "dispatch" /\ job'[c].ids = Tail(job[c].ids)
            \/ job'[c].op = "queue" /\ job'[c].ids = job[c].ids
         /\ \A d \in Clients \ {c} : job'[d] = job[d]
         /\ UNCHANGED <<outbox, told, throttle>>
<1> DEFINE id == Head(job[c].ids)
<1>1. /\ job[c].op = "dispatch" /\ job[c].ids # <<>>
      /\ UNCHANGED <<now, order, since, outbox, enabled, told, throttle>>
      /\ \/ To(row[id].event) = {} /\ row' = Skipped(id) /\ job' = [job EXCEPT ![c].ids = Tail(@)]
         \/ /\ row' = row
            /\ job' = [job EXCEPT ![c].op = "queue", ![c].left = To(row[id].event)]
  BY DEF Address
<1>2. job[c] \in Job /\ Shape(job[c]) /\ row \in Seq(Event) /\ Len(row) \in Nat /\ Len(row) <= MaxRows
  BY DEF Typed, TypeOK
<1>3. /\ Tail(job[c].ids) \in Seq(1 .. MaxRows) /\ id \in ToSet(job[c].ids)
      /\ ToSet(Tail(job[c].ids)) \subseteq ToSet(job[c].ids)
  <2>1. job[c].ids \in Seq(1 .. MaxRows)
    BY <1>2 DEF Job
  <2>2. QED
    BY <1>1, <2>1, FirstOfIds
<1>4. id \in 1 .. Len(row)
  BY <1>2, <1>3 DEF Shape
<1> HIDE DEF id
<1>5. CASE row' = Skipped(id) /\ job' = [job EXCEPT ![c].ids = Tail(@)]
  <2>1. row' \in Seq(Event) /\ Len(row') = Len(row) /\ \A n \in 1 .. Len(row) : row'[n].event = row[n].event
    BY <1>2, <1>4, <1>5, StatusChanges DEF Skipped
  <2>2. PICK f : f = [job[c] EXCEPT !.ids = Tail(job[c].ids)]
    OBVIOUS
  <2>3. /\ f \in Job /\ f.op = "dispatch" /\ f.todo = job[c].todo /\ f.mine = job[c].mine
        /\ f.ids = Tail(job[c].ids) /\ f.telling = job[c].telling
    BY <1>1, <1>2, <1>3, <2>2 DEF Job
  <2>4. Shape(f)'
    BY <1>1, <1>2, <1>3, <2>1, <2>3 DEF Shape, Passes
  <2>5. job' = [job EXCEPT ![c] = f]
    BY <1>5, <2>2
  <2>6. /\ job' \in [Clients -> Job]
        /\ job'[c] = f /\ \A d \in Clients \ {c} : job'[d] = job[d]
        /\ \A d \in Clients : Shape(job[d])'
    <3>1. Len(row') \in Nat /\ Len(row) <= Len(row')
      BY <1>2, <2>1
    <3>2. QED
      BY <2>3, <2>4, <2>5, <3>1, Moves
  <2>7. QED
    BY <1>1, <1>2, <2>1, <2>3, <2>6 DEF Typed, TypeOK
<1>6. CASE row' = row /\ job' = [job EXCEPT ![c].op = "queue", ![c].left = To(row[id].event)]
  <2>1. To(row[id].event) \subseteq Phones
    <3>1. row[id] \in Event
      BY <1>2, <1>4
    <3> row[id].event \in Events
      BY <3>1 DEF Event
    <3>2. QED
      BY <3>1 DEF To, Phones
  <2>2. PICK f : f = [job[c] EXCEPT !.op = "queue", !.left = To(row[id].event)]
    OBVIOUS
  <2>3. /\ f \in Job /\ f.op = "queue" /\ f.todo = job[c].todo /\ f.mine = job[c].mine
        /\ f.ids = job[c].ids /\ f.telling = job[c].telling
    BY <1>1, <1>2, <2>1, <2>2 DEF Job, Ops
  <2>4. Shape(f)
    BY <1>1, <1>2, <2>3 DEF Shape, Passes
  <2>5. job' = [job EXCEPT ![c] = f]
    BY <1>6, <2>2
  <2>6. QED
    BY <1>1, <1>2, <1>6, <2>3, <2>4, <2>5, MovesAlone DEF Typed, TypeOK
<1>7. QED
  BY <1>1, <1>5, <1>6

LEMMA RecipientQueued ==
  ASSUME Typed, NEW c \in Clients, Queue(c)
  PROVE  /\ Typed' /\ job[c].op = "queue" /\ job'[c].op = "queue"
         /\ job'[c].ids = job[c].ids /\ Head(job[c].ids) \in ToSet(job[c].ids)
         /\ \E phone \in job[c].left :
              /\ job'[c].left = job[c].left \ {phone}
              /\ \/ outbox' = outbox
                 \/ outbox' = outbox \cup {[row |-> Head(job[c].ids), phone |-> phone, status |-> "QUEUED"]}
         /\ \A d \in Clients \ {c} : job'[d] = job[d]
         /\ UNCHANGED <<row, told, throttle>>
<1>1. PICK phone \in job[c].left :
        /\ \/ outbox' = outbox
           \/ outbox' = outbox \cup {[row |-> Head(job[c].ids), phone |-> phone, status |-> "QUEUED"]}
        /\ job' = [job EXCEPT ![c].left = @ \ {phone}]
  BY DEF Queue
<1>2. job[c].op = "queue" /\ UNCHANGED <<now, order, since, row, enabled, told, throttle>>
  BY DEF Queue
<1>3. job[c] \in Job /\ Shape(job[c]) /\ row \in Seq(Event) /\ Len(row) \in Nat /\ Len(row) <= MaxRows
  BY DEF Typed, TypeOK
<1>4. Head(job[c].ids) \in ToSet(job[c].ids)
  <2>1. job[c].ids \in Seq(1 .. MaxRows) /\ job[c].ids # <<>>
    BY <1>2, <1>3 DEF Shape, Job
  <2>2. QED
    BY <2>1, HeadTail
<1>5. Head(job[c].ids) \in 1 .. MaxRows /\ phone \in Phones
  <2>1. Head(job[c].ids) \in 1 .. Len(row)
    BY <1>3, <1>4 DEF Shape
  <2>2. phone \in Phones
    BY <1>2, <1>3 DEF Job
  <2>3. QED
    BY <1>3, <2>1, <2>2
<1>6. [row |-> Head(job[c].ids), phone |-> phone, status |-> "QUEUED"] \in Message
  BY <1>5 DEF Message
<1>7. outbox' \subseteq Message
  BY <1>1, <1>6 DEF Typed, TypeOK
<1>8. PICK f : f = [job[c] EXCEPT !.left = job[c].left \ {phone}]
  OBVIOUS
<1>9. /\ f \in Job /\ f.op = "queue" /\ f.todo = job[c].todo /\ f.mine = job[c].mine
      /\ f.ids = job[c].ids /\ f.telling = job[c].telling /\ f.left = job[c].left \ {phone}
  BY <1>2, <1>3, <1>8 DEF Job
<1>10. Shape(f) /\ job' = [job EXCEPT ![c] = f]
  BY <1>1, <1>2, <1>3, <1>8, <1>9 DEF Shape, Passes
<1>11. /\ job' \in [Clients -> Job]
       /\ job'[c] = f /\ \A d \in Clients \ {c} : job'[d] = job[d]
       /\ \A d \in Clients : Shape(job[d])'
  BY <1>2, <1>9, <1>10, MovesAlone
<1>12. Typed'
  BY <1>2, <1>7, <1>11 DEF Typed, TypeOK
<1>13. QED
  BY <1>1, <1>2, <1>4, <1>9, <1>11, <1>12

LEMMA RowClosed ==
  ASSUME Typed, NEW c \in Clients, Close(c)
  PROVE  /\ Typed' /\ job[c].op = "queue" /\ job[c].ids # <<>>
         /\ Len(row') = Len(row) /\ \A n \in 1 .. Len(row) : row'[n].event = row[n].event
         /\ job'[c].op = "dispatch" /\ job'[c].ids = Tail(job[c].ids)
         /\ \A d \in Clients \ {c} : job'[d] = job[d]
         /\ UNCHANGED <<outbox, told, throttle>>
<1>1. /\ job[c].op = "queue"
      /\ row' = [row EXCEPT ![Head(job[c].ids)].status = "DISPATCHED"]
      /\ job' = [job EXCEPT ![c].op = "dispatch", ![c].ids = Tail(@)]
      /\ UNCHANGED <<now, order, since, outbox, enabled, told, throttle>>
  BY DEF Close
<1>2. job[c] \in Job /\ Shape(job[c]) /\ row \in Seq(Event) /\ Len(row) \in Nat /\ Len(row) <= MaxRows
  BY DEF Typed, TypeOK
<1>3. job[c].ids # <<>>
  BY <1>1, <1>2 DEF Shape
<1>4. /\ Tail(job[c].ids) \in Seq(1 .. MaxRows) /\ Head(job[c].ids) \in ToSet(job[c].ids)
      /\ ToSet(Tail(job[c].ids)) \subseteq ToSet(job[c].ids)
  <2>1. job[c].ids \in Seq(1 .. MaxRows)
    BY <1>2 DEF Job
  <2>2. QED
    BY <1>3, <2>1, FirstOfIds
<1>5. Head(job[c].ids) \in 1 .. Len(row)
  BY <1>2, <1>4 DEF Shape
<1>6. row' \in Seq(Event) /\ Len(row') = Len(row) /\ \A n \in 1 .. Len(row) : row'[n].event = row[n].event
  BY <1>1, <1>2, <1>5, StatusChanges
<1>7. PICK f : f = [job[c] EXCEPT !.op = "dispatch", !.ids = Tail(job[c].ids)]
  OBVIOUS
<1>8. /\ f \in Job /\ f.op = "dispatch" /\ f.todo = job[c].todo /\ f.mine = job[c].mine
      /\ f.ids = Tail(job[c].ids) /\ f.telling = job[c].telling
  BY <1>1, <1>2, <1>4, <1>7 DEF Job, Ops
<1>9. Shape(f)'
  BY <1>1, <1>2, <1>4, <1>6, <1>8 DEF Shape, Passes
<1>10. job' = [job EXCEPT ![c] = f]
  BY <1>1, <1>7
<1>11. /\ job' \in [Clients -> Job]
       /\ job'[c] = f /\ \A d \in Clients \ {c} : job'[d] = job[d]
       /\ \A d \in Clients : Shape(job[d])'
  <2>1. Len(row') \in Nat /\ Len(row) <= Len(row')
    BY <1>2, <1>6
  <2>2. QED
    BY <1>8, <1>9, <1>10, <2>1, Moves
<1>12. QED
  BY <1>1, <1>2, <1>3, <1>6, <1>8, <1>11 DEF Typed, TypeOK

\* A request ends, or dies.
LEMMA RequestEnds ==
  ASSUME Typed, NEW c \in Clients, Finish(c) \/ EndPass(c) \/ Die(c)
  PROVE  /\ Typed' /\ job'[c] = Idle /\ \A d \in Clients \ {c} : job'[d] = job[d]
         /\ UNCHANGED <<row, outbox, told, throttle>>
<1>1. /\ job' = [job EXCEPT ![c] = Idle]
      /\ UNCHANGED <<now, order, since, row, outbox, enabled, told, throttle>>
  BY DEF Finish, EndPass, Die
<1>2. QED
  BY <1>1, Ends DEF Typed, TypeOK

\* A pass begins over some technicians.
LEMMA PassBegins ==
  ASSUME Typed, NEW c \in Clients, PassAfterCommit(c) \/ PassOfPage(c) \/ PassOfCommand(c)
  PROVE  /\ Typed' /\ job[c].op \in {"none", "dispatch"} /\ job'[c].op \in Passes
         /\ job'[c].ids = <<>> /\ job'[c].telling = {}
         /\ \A d \in Clients \ {c} : job'[d] = job[d]
         /\ UNCHANGED <<row, outbox, told>>
<1>1. Candidates \subseteq Technicians /\ Candidates \subseteq Phones
  BY DEF Candidates, Phones
<1>2. job[c] \in Job /\ Shape(job[c])
  BY DEF Typed, TypeOK
<1>3. PICK f : /\ job' = [job EXCEPT ![c] = f]
               /\ \/ /\ f = [job[c] EXCEPT !.op = "commit", !.left = Candidates]
                     /\ job[c].op = "dispatch" /\ job[c].ids = <<>> /\ throttle' = throttle
                  \/ /\ f = [Idle EXCEPT !.op = "page", !.left = Candidates]
                     /\ job[c] = Idle /\ throttle' = TRUE
                  \/ /\ f = [Idle EXCEPT !.op = "command", !.left = Candidates]
                     /\ job[c] = Idle /\ throttle' = throttle
  BY DEF PassAfterCommit, PassOfPage, PassOfCommand
<1>4. UNCHANGED <<now, order, since, row, outbox, enabled, told>>
  BY DEF PassAfterCommit, PassOfPage, PassOfCommand
<1>5. job[c].op \in {"none", "dispatch"}
  BY <1>3, IdleShape
<1>6. /\ f \in Job /\ f.op \in {"commit", "page", "command"} /\ f.left = Candidates
      /\ f.ids = <<>> /\ f.todo = job[c].todo /\ f.mine = job[c].mine /\ f.telling = job[c].telling
  <2>1. CASE f = [job[c] EXCEPT !.op = "commit", !.left = Candidates] /\ job[c].ids = <<>>
    BY <1>1, <1>2, <2>1 DEF Job, Ops
  <2>2. ASSUME NEW op \in {"page", "command"}, f = [Idle EXCEPT !.op = op, !.left = Candidates],
               job[c] = Idle
        PROVE  /\ f \in Job /\ f.op = op /\ f.left = Candidates
               /\ f.ids = <<>> /\ f.todo = job[c].todo /\ f.mine = job[c].mine
               /\ f.telling = job[c].telling
    <3>1. Idle \in Job BY IdleShape
    <3>2. Idle.ids = <<>> BY DEF Idle
    <3>3. QED BY <1>1, <2>2, <3>1, <3>2 DEF Job, Ops
  <2>3. QED BY <1>3, <2>1, <2>2
<1>7. job[c].telling = {} /\ job[c].todo = <<>> /\ job[c].mine = <<>>
  BY <1>2, <1>5 DEF Shape, Passes
<1>8. Shape(f)
  BY <1>1, <1>6, <1>7, EmptyHasNone DEF Shape, Passes
<1>9. /\ job' \in [Clients -> Job]
      /\ job'[c] = f /\ \A d \in Clients \ {c} : job'[d] = job[d]
      /\ \A d \in Clients : Shape(job[d])'
  BY <1>3, <1>4, <1>6, <1>8, MovesAlone
<1>10. throttle' \in BOOLEAN
  BY <1>3 DEF Typed, TypeOK
<1>11. Typed'
  BY <1>4, <1>9, <1>10 DEF Typed, TypeOK
<1>12. QED
  BY <1>4, <1>5, <1>6, <1>7, <1>9, <1>11 DEF Passes

LEMMA PassLooks ==
  ASSUME Typed, NEW c \in Clients, Look(c)
  PROVE  /\ Typed' /\ job[c].op \in Passes /\ job'[c].op = job[c].op
         /\ job'[c].ids = <<>> /\ \A t \in job'[c].telling : told[t] = 0
         /\ \A d \in Clients \ {c} : job'[d] = job[d]
         /\ UNCHANGED <<row, outbox, told, throttle>>
<1>1. PICK t \in job[c].left :
        job' = [job EXCEPT ![c].left = @ \ {t}, ![c].telling = IF Untold(t) THEN {t} ELSE {}]
  BY DEF Look
<1>2. job[c].op \in Passes /\ UNCHANGED <<now, order, since, row, outbox, enabled, told, throttle>>
  BY DEF Look
<1>3. job[c] \in Job /\ Shape(job[c]) /\ t \in Technicians
  BY <1>1, <1>2 DEF Typed, TypeOK, Shape
<1>4. PICK f : f = [job[c] EXCEPT !.left = job[c].left \ {t},
                                  !.telling = IF Untold(t) THEN {t} ELSE {}]
  OBVIOUS
<1>5. /\ f \in Job /\ f.op = job[c].op /\ f.todo = job[c].todo /\ f.mine = job[c].mine
      /\ f.ids = job[c].ids /\ f.left \subseteq job[c].left
      /\ \A u \in f.telling : told[u] = 0
  BY <1>3, <1>4 DEF Job, Untold
<1>6. Shape(f) /\ f.ids = <<>>
  BY <1>2, <1>3, <1>5 DEF Shape, Passes
<1>7. job' = [job EXCEPT ![c] = f]
  BY <1>1, <1>4
<1>8. QED
  BY <1>2, <1>5, <1>6, <1>7, MovesAlone DEF Typed, TypeOK

LEMMA PassBroken ==
  ASSUME Typed, NEW c \in Clients, PassBreaksOff(c)
  PROVE  /\ Typed' /\ job[c].op \in Passes /\ job'[c].op = job[c].op
         /\ job'[c].ids = <<>> /\ job'[c].telling = {}
         /\ \A d \in Clients \ {c} : job'[d] = job[d]
         /\ UNCHANGED <<row, outbox, told, throttle>>
<1>1. /\ job[c].op = "commit" /\ job' = [job EXCEPT ![c].left = {}, ![c].telling = {}]
      /\ UNCHANGED <<now, order, since, row, outbox, enabled, told, throttle>>
  BY DEF PassBreaksOff
<1>2. job[c] \in Job /\ Shape(job[c]) /\ job[c].op \in Passes
  BY <1>1 DEF Typed, TypeOK, Passes
<1>3. PICK f : f = [job[c] EXCEPT !.left = {}, !.telling = {}]
  OBVIOUS
<1>4. /\ f \in Job /\ f.op = job[c].op /\ f.todo = job[c].todo /\ f.mine = job[c].mine
      /\ f.ids = job[c].ids /\ f.left = {} /\ f.telling = {}
  BY <1>2, <1>3 DEF Job
<1>5. Shape(f) /\ f.ids = <<>>
  BY <1>2, <1>4 DEF Shape, Passes
<1>6. job' = [job EXCEPT ![c] = f]
  BY <1>1, <1>3
<1>7. QED
  BY <1>1, <1>2, <1>4, <1>5, <1>6, MovesAlone DEF Typed, TypeOK

LEMMA PassTells ==
  ASSUME Typed, NEW c \in Clients, Tell(c)
  PROVE  /\ Typed' /\ job[c].op \in Passes /\ job'[c].op = job[c].op
         /\ job'[c].ids = <<>> /\ job'[c].telling = {}
         /\ \E t \in job[c].telling : told' = [told EXCEPT ![t] = @ + 1]
         /\ \A d \in Clients \ {c} : job'[d] = job[d]
         /\ UNCHANGED <<row, outbox, throttle>>
<1>1. PICK t \in job[c].telling : told' = [told EXCEPT ![t] = @ + 1]
  BY DEF Tell
<1>2. /\ job' = [job EXCEPT ![c].telling = {}]
      /\ UNCHANGED <<now, order, since, row, outbox, enabled, throttle>>
  BY DEF Tell
<1>3. job[c] \in Job /\ Shape(job[c]) /\ job[c].op \in Passes
  BY <1>1 DEF Typed, TypeOK, Shape
<1>4. told' \in [Technicians -> Nat]
  BY <1>1, <1>3 DEF Typed, TypeOK, Job
<1>5. PICK f : f = [job[c] EXCEPT !.telling = {}]
  OBVIOUS
<1>6. /\ f \in Job /\ f.op = job[c].op /\ f.todo = job[c].todo /\ f.mine = job[c].mine
      /\ f.ids = job[c].ids /\ f.left = job[c].left /\ f.telling = {}
  BY <1>3, <1>5 DEF Job
<1>7. Shape(f) /\ f.ids = <<>>
  BY <1>3, <1>6 DEF Shape, Passes
<1>8. job' = [job EXCEPT ![c] = f]
  BY <1>2, <1>5
<1>9. QED
  BY <1>1, <1>2, <1>3, <1>4, <1>6, <1>7, <1>8, MovesAlone DEF Typed, TypeOK

\* The pass after the commit ends, or the offer is recorded as the last row and is to
\* be dispatched.
LEMMA OfferEmitted ==
  ASSUME Typed, NEW c \in Clients, EmitOffer(c)
  PROVE  /\ Typed' /\ job[c].op = "commit" /\ job'[c].op \in {"none", "dispatch"}
         /\ job'[c].telling = {}
         /\ \A d \in Clients \ {c} : job'[d] = job[d]
         /\ UNCHANGED <<outbox, told, throttle>>
         /\ \/ row' = row /\ job'[c].ids = <<>>
            \/ /\ ~Known(c, Offer) /\ Len(row') = Len(row) + 1
               /\ \A n \in 1 .. Len(row) : row'[n] = row[n]
               /\ row'[Len(row) + 1].event = Offer
               /\ job'[c].ids = <<Len(row) + 1>>
<1>1. /\ job[c].op = "commit" /\ Len(row) < MaxRows
      /\ UNCHANGED <<now, order, since, outbox, enabled, told, throttle>>
      /\ \/ job' = [job EXCEPT ![c] = Idle] /\ row' = row
         \/ /\ ~Known(c, Offer)
            /\ row' = Append(row, [event |-> Offer, status |-> "RECORDED"])
            /\ job' = [job EXCEPT ![c] = [Idle EXCEPT !.op = "dispatch", !.ids = <<Len(row) + 1>>]]
  BY DEF EmitOffer
<1>2. row \in Seq(Event) /\ Len(row) \in Nat
  BY DEF Typed, TypeOK
<1>3. CASE job' = [job EXCEPT ![c] = Idle] /\ row' = row
  BY <1>1, <1>3, Ends, IdleShape DEF Typed, TypeOK, Idle
<1>4. CASE /\ ~Known(c, Offer)
           /\ row' = Append(row, [event |-> Offer, status |-> "RECORDED"])
           /\ job' = [job EXCEPT ![c] = [Idle EXCEPT !.op = "dispatch", !.ids = <<Len(row) + 1>>]]
  <2>1. [event |-> Offer, status |-> "RECORDED"] \in Event
    BY DEF Event
  <2>2. /\ row' \in Seq(Event) /\ Len(row') = Len(row) + 1
        /\ \A n \in 1 .. Len(row) : row'[n] = row[n]
        /\ row'[Len(row) + 1] = [event |-> Offer, status |-> "RECORDED"]
    BY <1>2, <1>4, <2>1, AppendProperties
  <2>3. PICK f : f = [Idle EXCEPT !.op = "dispatch", !.ids = <<Len(row) + 1>>]
    OBVIOUS
  <2>4. Len(row) + 1 \in 1 .. MaxRows
    BY <1>1, <1>2
  <2>5. /\ f \in Job /\ f.op = "dispatch" /\ f.todo = <<>> /\ f.mine = <<>>
        /\ f.ids = <<Len(row) + 1>> /\ f.telling = {}
    <3>1. <<Len(row) + 1>> \in Seq(1 .. MaxRows)
      BY <2>4
    <3>2. QED
      BY <2>3, <3>1, IdleShape DEF Idle, Job, Ops
  <2>6. Shape(f)'
    <3>1. \A id \in ToSet(f.ids) : id \in 1 .. Len(row')
      BY <1>2, <2>2, <2>5 DEF ToSet
    <3>2. QED
      BY <2>5, <3>1, EmptyHasNone DEF Shape, Passes
  <2>7. Len(row') \in Nat /\ Len(row) <= Len(row') /\ Len(row') <= MaxRows
    BY <1>1, <1>2, <2>2
  <2>8. job' = [job EXCEPT ![c] = f]
    BY <1>4, <2>3
  <2>9. /\ job' \in [Clients -> Job]
        /\ job'[c] = f /\ \A d \in Clients \ {c} : job'[d] = job[d]
        /\ \A d \in Clients : Shape(job[d])'
    BY <2>5, <2>6, <2>7, <2>8, Moves
  <2>10. Typed'
    BY <1>1, <2>2, <2>7, <2>9 DEF Typed, TypeOK
  <2>11. QED
    <3>1. row'[Len(row) + 1].event = Offer
      BY <2>2
    <3>2. job'[c].op = "dispatch" /\ job'[c].ids = <<Len(row) + 1>> /\ job'[c].telling = {}
      BY <2>5, <2>9
    <3>3. QED
      BY <1>1, <1>4, <2>2, <2>9, <2>10, <3>1, <3>2
<1>5. QED
  BY <1>1, <1>3, <1>4

\* What is done by others.
LEMMA OthersAct ==
  ASSUME Typed, Tick \/ Take \/ Switch \/ Deliver \/ ThrottleEnds
  PROVE  Typed' /\ UNCHANGED <<row, told, job>>
<1>1. UNCHANGED <<row, told, job>>
  BY DEF Tick, Take, Switch, Deliver, ThrottleEnds
<1>2. /\ now' \in Times /\ since' \in Times
      /\ order' \in {"NONE", "NEW", "TAKEN"} /\ throttle' \in BOOLEAN
  <2>1. CASE Tick
    <3>1. now' \in Times
      BY <2>1, OfferAssumption DEF Tick, Typed, TypeOK, Times
    <3>2. QED
      BY <2>1, <3>1 DEF Tick, Typed, TypeOK
  <2>2. QED
    BY <2>1 DEF Take, Switch, Deliver, ThrottleEnds, Typed, TypeOK
<1>3. enabled' \in [Events -> BOOLEAN]
  BY DEF Tick, Take, Switch, Deliver, ThrottleEnds, Typed, TypeOK
<1>4. outbox' \subseteq Message
  <2>1. CASE Deliver
    <3>1. PICK m \in outbox : outbox' = (outbox \ {m}) \cup {[m EXCEPT !.status = "SENT"]}
      BY <2>1 DEF Deliver
    <3>2. [m EXCEPT !.status = "SENT"] \in Message
      BY DEF Typed, TypeOK, Message
    <3>3. QED
      BY <3>1, <3>2 DEF Typed, TypeOK
  <2>2. QED
    BY <2>1 DEF Tick, Take, Switch, ThrottleEnds, Typed, TypeOK
<1>5. \A c \in Clients : Shape(job[c])'
  BY <1>1 DEF Typed, Shape
<1>6. QED
  BY <1>1, <1>2, <1>3, <1>4, <1>5 DEF Typed, TypeOK

----------------------------------------------------------------------------
\* Types and shapes, whatever the requests do

LEMMA TypedInit == Init => Typed
<1>1. SUFFICES ASSUME Init PROVE Typed
  OBVIOUS
<1>2. 0 \in Times /\ row = <<>> /\ row \in Seq(Event) /\ Len(row) = 0
  BY <1>1, OfferAssumption, EmptyHasNone DEF Init, Times
<1>3. job = [c \in Clients |-> Idle]
  BY <1>1 DEF Init
<1>4. TypeOK
  <2>1. job \in [Clients -> Job]
    BY <1>3, IdleShape
  <2>2. told \in [Technicians -> Nat] /\ enabled \in [Events -> BOOLEAN] /\ outbox \subseteq Message
    BY <1>1 DEF Init
  <2>3. now \in Times /\ since \in Times /\ order \in {"NONE", "NEW", "TAKEN"} /\ throttle \in BOOLEAN
    BY <1>1, <1>2 DEF Init
  <2>4. QED
    BY <1>2, <2>1, <2>2, <2>3 DEF TypeOK
<1>5. \A c \in Clients : Shape(job[c])
  BY <1>3, IdleShape
<1>6. QED
  BY <1>4, <1>5 DEF Typed

LEMMA TypedNext == Typed /\ [Next]_vars => Typed'
<1>1. SUFFICES ASSUME Typed, [Next]_vars PROVE Typed'
  OBVIOUS
<1>2. CASE UNCHANGED vars
  BY <1>1, <1>2 DEF vars, Typed, TypeOK, Shape
<1>3. CASE Tick \/ Take \/ Switch \/ Deliver \/ ThrottleEnds
  BY <1>1, <1>3, OthersAct
<1>4. ASSUME NEW c \in Clients,
             \/ \E lot \in Lots : BeginWork(c, lot)
             \/ Emit(c) \/ Commit(c) \/ AfterCommit(c)
             \/ PassOfPage(c) \/ PassOfCommand(c) \/ PassBreaksOff(c) \/ Die(c)
      PROVE  Typed'
  <2>1. CASE (\E lot \in Lots : BeginWork(c, lot)) \/ Emit(c) \/ Commit(c)
    BY <1>1, <2>1, WorkBegins, WorkEmits, WorkCommits
  <2>2. CASE Address(c) \/ Queue(c) \/ Close(c)
    BY <1>1, <2>2, RowAddressed, RecipientQueued, RowClosed
  <2>3. CASE Finish(c) \/ EndPass(c) \/ Die(c)
    BY <1>1, <2>3, RequestEnds
  <2>4. CASE PassAfterCommit(c) \/ PassOfPage(c) \/ PassOfCommand(c)
    BY <1>1, <2>4, PassBegins
  <2>5. CASE Look(c) \/ PassBreaksOff(c) \/ Tell(c) \/ EmitOffer(c)
    BY <1>1, <2>5, PassLooks, PassBroken, PassTells, OfferEmitted
  <2>6. QED
    BY <1>4, <2>1, <2>2, <2>3, <2>4, <2>5 DEF AfterCommit
<1>5. QED
  BY <1>1, <1>2, <1>3, <1>4 DEF Next

\* The types of the model hold, and every request in flight has its shape.
THEOREM NotificationsTypeCorrect == Spec => []TypeOK
<1>1. Typed => TypeOK
  BY DEF Typed
<1>2. QED
  BY <1>1, TypedInit, TypedNext, PTL DEF Spec

----------------------------------------------------------------------------
\* Who tells the technicians

\* One request at a time tells, a page request only while the key is in the cache; a
\* technician found not to have been told is not told until that request does.
Alone ==
  /\ \A c, d \in Clients : job[c].op \in Passes /\ job[d].op \in Passes => c = d
  /\ \A c \in Clients : job[c].op = "page" => throttle
Found == \A c \in Clients : \A t \in job[c].telling : told[t] = 0
Telling == Alone /\ Found /\ ToldOnce

\* A step that begins no pass, tells nobody and leaves the key alone.
LEMMA TellingKept ==
  ASSUME Typed, Typed', Telling, NEW c \in Clients,
         job'[c].op \notin Passes, UNCHANGED <<told, throttle>>,
         \A d \in Clients \ {c} : job'[d] = job[d]
  PROVE  Telling'
<1>1. job'[c].telling = {} /\ job'[c].op # "page"
  BY DEF Typed, Shape, Passes
<1>2. Alone'
  BY <1>1 DEF Telling, Alone
<1>3. Found'
  BY <1>1 DEF Telling, Found
<1>4. ToldOnce'
  BY DEF Telling, ToldOnce
<1>5. QED
  BY <1>2, <1>3, <1>4 DEF Telling

\* A pass begins where no request is telling.
LEMMA TellingPassBegins ==
  ASSUME Typed, Telling, <<"pass", "pass">> \in Apart, NEW c \in Clients,
         PassAfterCommit(c) \/ PassOfPage(c) \/ PassOfCommand(c)
  PROVE  Telling'
<1>1. /\ job'[c].op \in Passes /\ job'[c].telling = {} /\ told' = told
      /\ job[c].op \in {"none", "dispatch"}
      /\ \A d \in Clients \ {c} : job'[d] = job[d]
  BY PassBegins
<1>2. \A d \in Clients : job[d].op \notin Passes
  <2>1. CASE PassOfPage(c)
    BY <2>1 DEF PassOfPage, Telling, Alone, Passes
  <2>2. QED
    BY <2>1 DEF PassAfterCommit, PassOfCommand, MayPass
<1>3. job'[c].op = "page" => throttle'
  <2>1. job \in [Clients -> Job] /\ job[c] \in Job
    BY DEF Typed, TypeOK
  <2>2. CASE PassOfPage(c)
    BY <2>2 DEF PassOfPage
  <2>3. CASE PassAfterCommit(c)
    <3>1. job'[c].op = "commit"
      BY <2>1, <2>3 DEF PassAfterCommit, Job
    <3>2. QED
      BY <3>1
  <2>4. CASE PassOfCommand(c)
    <3>1. job'[c] = [Idle EXCEPT !.op = "command", !.left = Candidates]
      BY <2>1, <2>4 DEF PassOfCommand
    <3>2. job'[c].op = "command"
      BY <3>1 DEF Idle
    <3>3. QED
      BY <3>2
  <2>5. QED
    BY <2>2, <2>3, <2>4
<1>4. Alone'
  BY <1>1, <1>2, <1>3 DEF Alone, Passes
<1>5. Found'
  BY <1>1 DEF Telling, Found
<1>6. ToldOnce'
  BY <1>1 DEF Telling, ToldOnce
<1>7. QED
  BY <1>4, <1>5, <1>6 DEF Telling

LEMMA TellingLook ==
  ASSUME Typed, Telling, NEW c \in Clients, Look(c) \/ PassBreaksOff(c)
  PROVE  Telling'
<1>1. /\ job'[c].op = job[c].op /\ \A t \in job'[c].telling : told[t] = 0
      /\ \A d \in Clients \ {c} : job'[d] = job[d]
      /\ UNCHANGED <<told, throttle>>
  BY PassLooks, PassBroken
<1>2. Alone'
  BY <1>1 DEF Telling, Alone
<1>3. Found'
  BY <1>1 DEF Telling, Found
<1>4. QED
  BY <1>1, <1>2, <1>3 DEF Telling, ToldOnce

\* The technician told had not been; no other request had found anybody.
LEMMA TellingTell ==
  ASSUME Typed, Typed', Telling, NEW c \in Clients, Tell(c)
  PROVE  Telling'
<1>1. /\ job[c].op \in Passes /\ job'[c].op = job[c].op /\ job'[c].telling = {}
      /\ \A d \in Clients \ {c} : job'[d] = job[d]
      /\ throttle' = throttle
  BY PassTells
<1>2. PICK t \in job[c].telling : told' = [told EXCEPT ![t] = @ + 1]
  BY PassTells
<1>3. told[t] = 0 /\ t \in Technicians
  BY <1>2 DEF Telling, Found, Typed, TypeOK, Job
<1>4. told \in [Technicians -> Nat]
  BY DEF Typed, TypeOK
<1>5. Alone'
  BY <1>1 DEF Telling, Alone
<1>6. \A d \in Clients : job'[d].telling = {}
  <2>1. ASSUME NEW d \in Clients \ {c} PROVE job[d].telling = {}
    BY <1>1 DEF Telling, Alone, Typed, Shape
  <2>2. QED
    BY <1>1, <2>1
<1>7. Found'
  BY <1>6 DEF Found
<1>8. ToldOnce'
  <2>1. \A u \in Technicians : told'[u] = IF u = t THEN 1 ELSE told[u]
    BY <1>2, <1>3, <1>4
  <2>2. QED
    BY <2>1, <1>4 DEF Telling, ToldOnce
<1>9. QED
  BY <1>5, <1>7, <1>8 DEF Telling

LEMMA TellingNext ==
  ASSUME Typed, Typed', Telling, <<"pass", "pass">> \in Apart, [Next]_vars
  PROVE  Telling'
<1>2. CASE UNCHANGED vars
  BY <1>2 DEF vars, Telling, Alone, Found, ToldOnce
<1>3. CASE Tick \/ Take \/ Switch \/ Deliver
  <2>1. UNCHANGED <<told, throttle, job>>
    BY <1>3 DEF Tick, Take, Switch, Deliver
  <2>2. QED
    BY <2>1 DEF Telling, Alone, Found, ToldOnce
<1>4. CASE ThrottleEnds
  BY <1>4 DEF ThrottleEnds, Telling, Alone, Found, ToldOnce
<1>5. ASSUME NEW c \in Clients,
             \/ \E lot \in Lots : BeginWork(c, lot)
             \/ Emit(c) \/ Commit(c) \/ AfterCommit(c)
             \/ PassOfPage(c) \/ PassOfCommand(c) \/ PassBreaksOff(c) \/ Die(c)
      PROVE  Telling'
  <2>1. ASSUME NEW lot \in Lots, BeginWork(c, lot) PROVE Telling'
    <3>1. job'[c].op \notin Passes
      BY <2>1, WorkBegins DEF Passes
    <3>2. QED
      BY <2>1, <3>1, WorkBegins, TellingKept
  <2>2. CASE Emit(c)
    <3>1. job'[c].op \notin Passes
      BY <2>2, WorkEmits DEF Passes
    <3>2. QED
      BY <2>2, <3>1, WorkEmits, TellingKept
  <2>3. CASE Commit(c)
    <3>1. job'[c].op \notin Passes
      BY <2>3, WorkCommits DEF Passes
    <3>2. QED
      BY <2>3, <3>1, WorkCommits, TellingKept
  <2>4. CASE Address(c)
    <3>1. job'[c].op \notin Passes
      BY <2>4, RowAddressed DEF Passes
    <3>2. QED
      BY <2>4, <3>1, RowAddressed, TellingKept
  <2>5. CASE Queue(c)
    <3>1. job'[c].op \notin Passes
      BY <2>5, RecipientQueued DEF Passes
    <3>2. QED
      BY <2>5, <3>1, RecipientQueued, TellingKept
  <2>6. CASE Close(c)
    <3>1. job'[c].op \notin Passes
      BY <2>6, RowClosed DEF Passes
    <3>2. QED
      BY <2>6, <3>1, RowClosed, TellingKept
  <2>7. CASE Finish(c) \/ EndPass(c) \/ Die(c)
    <3>1. job'[c].op \notin Passes
      BY <2>7, RequestEnds, IdleShape DEF Passes
    <3>2. QED
      BY <2>7, <3>1, RequestEnds, TellingKept
  <2>8. CASE EmitOffer(c)
    <3>1. job'[c].op \notin Passes
      BY <2>8, OfferEmitted DEF Passes
    <3>2. QED
      BY <2>8, <3>1, OfferEmitted, TellingKept
  <2>9. CASE PassAfterCommit(c) \/ PassOfPage(c) \/ PassOfCommand(c)
    BY <2>9, TellingPassBegins
  <2>10. CASE Look(c) \/ PassBreaksOff(c)
    BY <2>10, TellingLook
  <2>11. CASE Tell(c)
    BY <2>11, TellingTell
  <2>12. QED
    BY <1>5, <2>1, <2>2, <2>3, <2>4, <2>5, <2>6, <2>7, <2>8, <2>9, <2>10, <2>11 DEF AfterCommit
<1>6. QED
  BY <1>2, <1>3, <1>4, <1>5 DEF Next

\* A technician is told of an order once, whoever tells, where no two passes overlap:
\* the notification is looked up and created by two statements, and nothing in the
\* table refuses a second.
THEOREM TechniciansToldOnce ==
  ASSUME <<"pass", "pass">> \in Apart
  PROVE  Spec => []ToldOnce
<1>1. Init => Telling
  <2>1. SUFFICES ASSUME Init PROVE Telling
    OBVIOUS
  <2>2. \A c \in Clients : job[c].op = "none" /\ job[c].telling = {}
    BY <2>1 DEF Init, Idle
  <2>3. \A t \in Technicians : told[t] = 0
    BY <2>1 DEF Init
  <2>4. QED
    BY <2>2, <2>3 DEF Telling, Alone, Found, ToldOnce, Passes
<1>2. Typed /\ Typed' /\ Telling /\ [Next]_vars => Telling'
  BY TellingNext
<1>3. Telling => ToldOnce
  BY DEF Telling
<1>4. QED
  BY <1>1, <1>2, <1>3, TypedInit, TypedNext, PTL DEF Spec

----------------------------------------------------------------------------
\* One message for each row and phone

\* A row is dispatched by one request, once.
Dispatched ==
  /\ \A c \in Clients : NoRepeat(job[c].ids)
  /\ \A c, d \in Clients : c # d => ToSet(job[c].ids) \cap ToSet(job[d].ids) = {}

\* A row whose dispatch is to run has no messages yet, the one being dispatched none
\* for the recipients who are left.
Unserved ==
  \A c \in Clients : \A m \in outbox :
    m.row \in ToSet(job[c].ids) =>
      /\ job[c].op = "queue" /\ m.row = Head(job[c].ids)
      /\ m.phone \notin job[c].left
OfRows == \A m \in outbox : m.row \in 1 .. Len(row)
OneForRow == \A m, n \in outbox : m.row = n.row /\ m.phone = n.phone => m = n
Serving == Dispatched /\ Unserved /\ OfRows /\ OneForRow

\* A step of a request that is left with nothing to dispatch.
LEMMA ServingKept ==
  ASSUME Typed, Serving, NEW c \in Clients, job'[c].ids = <<>>, UNCHANGED <<row, outbox>>,
         \A d \in Clients \ {c} : job'[d] = job[d]
  PROVE  Serving'
<1>1. NoRepeat(job'[c].ids) /\ ToSet(job'[c].ids) = {}
  BY EmptyHasNone
<1>2. Dispatched'
  BY <1>1 DEF Serving, Dispatched
<1>3. Unserved'
  BY <1>1 DEF Serving, Unserved
<1>4. QED
  BY <1>2, <1>3 DEF Serving, OfRows, OneForRow

\* A step that records rows, which the request has to dispatch.
LEMMA ServingRecords ==
  ASSUME Typed, Serving, NEW c \in Clients, NoRepeat(job'[c].ids), outbox' = outbox,
         Len(row') \in Nat, Len(row) <= Len(row'),
         \A id \in ToSet(job'[c].ids) : id \in (Len(row) + 1) .. Len(row'),
         \A d \in Clients \ {c} : job'[d] = job[d]
  PROVE  Serving'
<1>1. Len(row) \in Nat
  BY DEF Typed, TypeOK
<1>2. ASSUME NEW id \in ToSet(job'[c].ids) PROVE id \notin 1 .. Len(row)
  BY <1>1
<1>3. ASSUME NEW d \in Clients \ {c} PROVE \A id \in ToSet(job[d].ids) : id \in 1 .. Len(row)
  BY DEF Typed, Shape
<1>4. Dispatched'
  BY <1>2, <1>3 DEF Serving, Dispatched
<1>5. OfRows'
  BY <1>1 DEF Serving, OfRows
<1>6. Unserved'
  BY <1>2 DEF Serving, Unserved, OfRows
<1>7. QED
  BY <1>4, <1>5, <1>6 DEF Serving, OneForRow

\* A step that goes on with the dispatch of a row, or to the next.
LEMMA ServingGoesOn ==
  ASSUME Typed, Serving, NEW c \in Clients, job[c].ids # <<>>, outbox' = outbox,
         Len(row') = Len(row),
         \/ job'[c].ids = Tail(job[c].ids)
         \/ job[c].op = "dispatch" /\ job'[c].ids = job[c].ids,
         \A d \in Clients \ {c} : job'[d] = job[d]
  PROVE  Serving'
<1>1. job[c].ids \in Seq(1 .. MaxRows)
  BY DEF Typed, TypeOK, Job
<1>2. NoRepeat(job[c].ids)
  BY DEF Serving, Dispatched
<1>3. /\ NoRepeat(Tail(job[c].ids)) /\ Head(job[c].ids) \notin ToSet(Tail(job[c].ids))
      /\ ToSet(Tail(job[c].ids)) \subseteq ToSet(job[c].ids)
  BY <1>1, <1>2, HeadTail, FirstOfIds
<1>4. Dispatched'
  <2>1. NoRepeat(job'[c].ids) /\ ToSet(job'[c].ids) \subseteq ToSet(job[c].ids)
    BY <1>2, <1>3
  <2>2. QED
    BY <2>1 DEF Serving, Dispatched
<1>5. Unserved'
  <2>1. ASSUME NEW m \in outbox PROVE m.row \notin ToSet(job'[c].ids)
    BY <1>3 DEF Serving, Unserved
  <2>2. QED
    BY <2>1 DEF Serving, Unserved
<1>6. QED
  BY <1>4, <1>5 DEF Serving, OfRows, OneForRow

\* The message queued is for the row at the head, and no other request has it.
LEMMA ServingQueue ==
  ASSUME Typed, Serving, NEW c \in Clients, Queue(c)
  PROVE  Serving'
<1>1. PICK phone \in job[c].left :
        /\ job'[c].left = job[c].left \ {phone}
        /\ \/ outbox' = outbox
           \/ outbox' = outbox \cup {[row |-> Head(job[c].ids), phone |-> phone, status |-> "QUEUED"]}
  BY RecipientQueued
<1>2. /\ job[c].op = "queue" /\ job'[c].op = "queue" /\ job'[c].ids = job[c].ids
      /\ Head(job[c].ids) \in ToSet(job[c].ids)
      /\ \A d \in Clients \ {c} : job'[d] = job[d]
      /\ row' = row
  BY RecipientQueued
<1> DEFINE new == [row |-> Head(job[c].ids), phone |-> phone, status |-> "QUEUED"]
<1>3. outbox' \subseteq outbox \cup {new} /\ new.row = Head(job[c].ids) /\ new.phone = phone
  BY <1>1
<1> HIDE DEF new
<1>4. Dispatched'
  BY <1>2 DEF Serving, Dispatched
<1>5. OfRows'
  <2>1. Head(job[c].ids) \in 1 .. Len(row)
    BY <1>2 DEF Typed, Shape
  <2>2. QED
    BY <1>2, <1>3, <2>1 DEF Serving, OfRows
<1>6. Unserved'
  <2>1. ASSUME NEW m \in outbox', m.row \in ToSet(job'[c].ids)
        PROVE  m.row = Head(job'[c].ids) /\ m.phone \notin job'[c].left
    BY <1>1, <1>2, <1>3, <2>1 DEF Serving, Unserved
  <2>2. ASSUME NEW d \in Clients \ {c}, NEW m \in outbox', m.row \in ToSet(job'[d].ids)
        PROVE  m \in outbox
    BY <1>2, <1>3, <2>2 DEF Serving, Dispatched
  <2>3. QED
    BY <1>2, <2>1, <2>2 DEF Serving, Unserved
<1>7. OneForRow'
  <2>1. ASSUME NEW m \in outbox, m.row = new.row PROVE m.phone # new.phone
    BY <1>2, <1>3, <2>1 DEF Serving, Unserved
  <2>2. QED
    BY <1>3, <2>1 DEF Serving, OneForRow
<1>8. QED
  BY <1>4, <1>5, <1>6, <1>7 DEF Serving

\* Delivery changes no message's row or phone.
LEMMA ServingDeliver ==
  ASSUME Typed, Serving, Deliver
  PROVE  Serving'
<1>1. PICK m \in outbox : outbox' = (outbox \ {m}) \cup {[m EXCEPT !.status = "SENT"]}
  BY DEF Deliver
<1>2. UNCHANGED <<row, job>>
  BY DEF Deliver
<1> DEFINE new == [m EXCEPT !.status = "SENT"]
<1>3. new.row = m.row /\ new.phone = m.phone /\ outbox' = (outbox \ {m}) \cup {new}
  <2>1. m \in Message
    BY DEF Typed, TypeOK
  <2>2. QED
    BY <1>1, <2>1 DEF Message
<1> HIDE DEF new
<1>4. OneForRow'
  BY <1>3 DEF Serving, OneForRow
<1>5. OfRows'
  BY <1>2, <1>3 DEF Serving, OfRows
<1>6. Unserved'
  BY <1>2, <1>3 DEF Serving, Unserved
<1>7. QED
  BY <1>2, <1>4, <1>5, <1>6 DEF Serving, Dispatched

LEMMA ServingNext ==
  ASSUME Typed, Serving, [Next]_vars
  PROVE  Serving'
<1>1. CASE UNCHANGED vars
  BY <1>1 DEF vars, Serving, Dispatched, Unserved, OfRows, OneForRow
<1>2. CASE Tick \/ Take \/ Switch \/ ThrottleEnds
  <2>1. UNCHANGED <<row, outbox, job>>
    BY <1>2 DEF Tick, Take, Switch, ThrottleEnds
  <2>2. QED
    BY <2>1 DEF Serving, Dispatched, Unserved, OfRows, OneForRow
<1>3. CASE Deliver
  BY <1>3, ServingDeliver
<1>4. ASSUME NEW c \in Clients,
             \/ \E lot \in Lots : BeginWork(c, lot)
             \/ Emit(c) \/ Commit(c) \/ AfterCommit(c)
             \/ PassOfPage(c) \/ PassOfCommand(c) \/ PassBreaksOff(c) \/ Die(c)
      PROVE  Serving'
  <2>1. ASSUME NEW lot \in Lots, BeginWork(c, lot) PROVE Serving'
    BY <2>1, WorkBegins, ServingKept
  <2>2. CASE Emit(c)
    BY <2>2, WorkEmits, ServingKept
  <2>3. CASE Commit(c)
    <3>1. Len(row') \in Nat /\ Len(row) <= Len(row')
      BY <2>3, WorkCommits DEF Typed, TypeOK
    <3>2. QED
      BY <2>3, <3>1, WorkCommits, ServingRecords
  <2>4. CASE Address(c)
    BY <2>4, RowAddressed, ServingGoesOn
  <2>5. CASE Queue(c)
    BY <2>5, ServingQueue
  <2>6. CASE Close(c)
    BY <2>6, RowClosed, ServingGoesOn
  <2>7. CASE Finish(c) \/ EndPass(c) \/ Die(c)
    <3>1. job'[c].ids = <<>>
      BY <2>7, RequestEnds DEF Idle
    <3>2. QED
      BY <2>7, <3>1, RequestEnds, ServingKept
  <2>8. CASE EmitOffer(c)
    <3>1. CASE row' = row /\ job'[c].ids = <<>>
      BY <2>8, <3>1, OfferEmitted, ServingKept
    <3>2. CASE Len(row') = Len(row) + 1 /\ job'[c].ids = <<Len(row) + 1>>
      <4>1. Len(row) \in Nat
        BY DEF Typed, TypeOK
      <4>2. Len(row') \in Nat /\ Len(row) <= Len(row')
        BY <3>2, <4>1
      <4>3. NoRepeat(job'[c].ids)
        BY <3>2 DEF NoRepeat
      <4>4. \A id \in ToSet(job'[c].ids) : id \in (Len(row) + 1) .. Len(row')
        BY <3>2, <4>1 DEF ToSet
      <4>5. QED
        BY <2>8, <4>2, <4>3, <4>4, OfferEmitted, ServingRecords
    <3>3. QED
      BY <2>8, <3>1, <3>2, OfferEmitted
  <2>9. CASE PassAfterCommit(c) \/ PassOfPage(c) \/ PassOfCommand(c)
    BY <2>9, PassBegins, ServingKept
  <2>10. CASE Look(c) \/ PassBreaksOff(c)
    BY <2>10, PassLooks, PassBroken, ServingKept
  <2>11. CASE Tell(c)
    BY <2>11, PassTells, ServingKept
  <2>12. QED
    BY <1>4, <2>1, <2>2, <2>3, <2>4, <2>5, <2>6, <2>7, <2>8, <2>9, <2>10, <2>11 DEF AfterCommit
<1>5. QED
  BY <1>1, <1>2, <1>3, <1>4 DEF Next

----------------------------------------------------------------------------
\* One row for each event

RowEvents == {row[n].event : n \in 1 .. Len(row)}

\* No two rows are of one event; what a transaction has inserted is not in a row, and
\* no two transactions emit one event.
Unique == \A i, j \in 1 .. Len(row) : row[i].event = row[j].event => i = j
New == \A c \in Clients : NoRepeat(job[c].mine) /\ ToSet(job[c].mine) \cap RowEvents = {}
Disjoint == \A c, d \in Clients : c # d => Emits(c) \cap Emits(d) = {}
Fresh == Unique /\ New /\ Disjoint

LEMMA KnownAre ==
  ASSUME Typed, NEW c \in Clients
  PROVE  Recorded(c) = RowEvents \cup ToSet(job[c].mine)
<1>1. DOMAIN row = 1 .. Len(row)
  BY DEF Typed, TypeOK
<1>2. QED
  BY <1>1 DEF Recorded, RowEvents

\* A step after which the request emits nothing, and the rows' events are as before.
LEMMA FreshKept ==
  ASSUME Typed, Fresh, NEW c \in Clients, Shape(job[c])', job'[c].op # "work",
         Len(row') = Len(row), \A n \in 1 .. Len(row) : row'[n].event = row[n].event,
         \A d \in Clients \ {c} : job'[d] = job[d]
  PROVE  Fresh'
<1>1. job'[c].todo = <<>> /\ job'[c].mine = <<>>
  BY DEF Shape
<1>2. RowEvents' = RowEvents
  BY DEF RowEvents
<1>3. ToSet(job'[c].mine) = {} /\ ToSet(job'[c].todo) = {} /\ NoRepeat(job'[c].mine)
  BY <1>1, EmptyHasNone
<1>4. Unique'
  BY DEF Fresh, Unique
<1>5. New'
  BY <1>2, <1>3 DEF Fresh, New
<1>6. Disjoint'
  BY <1>3 DEF Fresh, Disjoint, Emits
<1>7. QED
  BY <1>4, <1>5, <1>6 DEF Fresh

LEMMA FreshBegins ==
  ASSUME Typed, Fresh, <<"work", "work">> \in Apart, NEW c \in Clients, NEW lot \in Lots,
         BeginWork(c, lot)
  PROVE  Fresh'
<1>1. /\ job'[c].todo = lot /\ job'[c].mine = <<>> /\ row' = row
      /\ \A d \in Clients \ {c} : job'[d] = job[d]
  BY WorkBegins
<1>2. NoRepeat(job'[c].mine) /\ ToSet(job'[c].mine) = {}
  BY <1>1, EmptyHasNone
<1>3. ASSUME NEW d \in Clients \ {c} PROVE Emits(d) \cap ToSet(lot) = {}
  <2>1. CASE job[d].op = "work"
    BY <2>1 DEF BeginWork
  <2>2. CASE job[d].op # "work"
    BY <2>2, Silent DEF Typed, Emits
  <2>3. QED
    BY <2>1, <2>2
<1>4. Unique'
  BY <1>1 DEF Fresh, Unique
<1>5. New'
  <2>1. RowEvents' = RowEvents
    BY <1>1 DEF RowEvents
  <2>2. QED
    BY <1>1, <1>2, <2>1 DEF Fresh, New
<1>6. Disjoint'
  <2>1. ToSet(job'[c].todo) \cup ToSet(job'[c].mine) = ToSet(lot)
    BY <1>1, <1>2
  <2>2. QED
    <3>1. Emits(c)' = ToSet(lot) /\ \A d \in Clients \ {c} : Emits(d)' = Emits(d)
      BY <1>1, <2>1 DEF Emits
    <3>2. QED
      BY <1>3, <3>1 DEF Fresh, Disjoint
<1>7. QED
  BY <1>4, <1>5, <1>6 DEF Fresh

LEMMA FreshEmits ==
  ASSUME Typed, Fresh, NEW c \in Clients, Emit(c)
  PROVE  Fresh'
<1> DEFINE e == Head(job[c].todo)
<1>1. /\ job[c].todo # <<>> /\ job'[c].todo = Tail(job[c].todo) /\ row' = row
      /\ job'[c].mine = IF Known(c, e) THEN job[c].mine ELSE Append(job[c].mine, e)
      /\ \A d \in Clients \ {c} : job'[d] = job[d]
  BY WorkEmits
<1>2. job[c].todo \in Seq(Events) /\ job[c].mine \in Seq(Events)
  BY DEF Typed, TypeOK, Job
<1>3. e \in Events /\ ToSet(job[c].todo) = {e} \cup ToSet(job'[c].todo)
  BY <1>1, <1>2, HeadTail
<1> HIDE DEF e
<1>4. ToSet(job'[c].mine) \subseteq ToSet(job[c].mine) \cup {e}
  BY <1>1, <1>2, <1>3, Appended
<1>5. NoRepeat(job'[c].mine) /\ ToSet(job'[c].mine) \cap RowEvents = {}
  <2>1. CASE Known(c, e)
    BY <1>1, <2>1 DEF Fresh, New
  <2>2. CASE ~Known(c, e)
    <3>1. e \notin RowEvents /\ e \notin ToSet(job[c].mine)
      BY <2>2, KnownAre DEF Known
    <3>2. NoRepeat(job[c].mine) /\ ToSet(job[c].mine) \cap RowEvents = {}
      BY DEF Fresh, New
    <3>3. NoRepeat(Append(job[c].mine, e))
      BY <1>2, <1>3, <3>1, <3>2, Appended
    <3>4. QED
      BY <1>1, <1>4, <2>2, <3>1, <3>2, <3>3
  <2>3. QED
    BY <2>1, <2>2
<1>6. Unique'
  BY <1>1 DEF Fresh, Unique
<1>7. New'
  BY <1>1, <1>5 DEF Fresh, New, RowEvents
<1>8. Disjoint'
  <2>1. ToSet(job'[c].todo) \cup ToSet(job'[c].mine) \subseteq Emits(c)
    BY <1>3, <1>4 DEF Emits
  <2>2. QED
    BY <1>1, <2>1 DEF Fresh, Disjoint, Emits
<1>9. QED
  BY <1>6, <1>7, <1>8 DEF Fresh

\* What was inserted becomes rows, which were of no event of the rows before.
LEMMA FreshCommits ==
  ASSUME Typed, Fresh, NEW c \in Clients, Commit(c)
  PROVE  Fresh'
<1> DEFINE mine == job[c].mine
<1>1. /\ mine \in Seq(Events) /\ Len(row') = Len(row) + Len(mine)
      /\ \A n \in 1 .. Len(row) : row'[n] = row[n]
      /\ \A n \in 1 .. Len(mine) : row'[Len(row) + n].event = mine[n]
      /\ job'[c].todo = <<>> /\ job'[c].mine = <<>>
      /\ \A d \in Clients \ {c} : job'[d] = job[d]
  BY WorkCommits
<1>2. NoRepeat(mine) /\ ToSet(mine) \cap RowEvents = {}
  BY DEF Fresh, New
<1>3. ToSet(mine) \subseteq Emits(c)
  BY DEF Emits
<1> HIDE DEF mine
<1>4. Len(row) \in Nat /\ Len(mine) \in Nat /\ DOMAIN mine = 1 .. Len(mine)
  BY <1>1 DEF Typed, TypeOK
<1>5. \A n \in 1 .. Len(row') :
        \/ n \in 1 .. Len(row) /\ row'[n].event = row[n].event /\ row'[n].event \in RowEvents
        \/ /\ n - Len(row) \in 1 .. Len(mine) /\ row'[n].event = mine[n - Len(row)]
           /\ row'[n].event \in ToSet(mine)
  <2>1. TAKE n \in 1 .. Len(row')
  <2>2. CASE n <= Len(row)
    BY <1>1, <1>4, <2>2 DEF RowEvents
  <2>3. CASE n > Len(row)
    <3>1. n - Len(row) \in 1 .. Len(mine) /\ n = Len(row) + (n - Len(row))
      BY <1>1, <1>4, <2>3
    <3>2. row'[n].event = mine[n - Len(row)]
      BY <1>1, <3>1
    <3>3. QED
      BY <1>4, <3>1, <3>2 DEF ToSet
  <2>4. QED
    BY <1>4, <2>2, <2>3
<1>6. RowEvents' \subseteq RowEvents \cup ToSet(mine)
  BY <1>5 DEF RowEvents
<1>7. Unique'
  <2>1. SUFFICES ASSUME NEW i \in 1 .. Len(row'), NEW j \in 1 .. Len(row'),
                        row'[i].event = row'[j].event
                 PROVE  i = j
    BY DEF Unique
  <2>2. CASE i \in 1 .. Len(row) /\ row'[i].event = row[i].event /\ row'[i].event \in RowEvents
    <3>1. j \in 1 .. Len(row) /\ row'[j].event = row[j].event
      BY <1>2, <1>5, <2>1, <2>2
    <3>2. QED
      BY <2>1, <2>2, <3>1 DEF Fresh, Unique
  <2>3. CASE i - Len(row) \in 1 .. Len(mine) /\ row'[i].event = mine[i - Len(row)]
             /\ row'[i].event \in ToSet(mine)
    <3>1. j - Len(row) \in 1 .. Len(mine) /\ row'[j].event = mine[j - Len(row)]
      BY <1>2, <1>5, <2>1, <2>3
    <3>2. i - Len(row) = j - Len(row)
      BY <1>2, <1>4, <2>1, <2>3, <3>1 DEF NoRepeat
    <3>3. QED
      BY <1>4, <3>2, <1>1
  <2>4. QED
    BY <1>5, <2>2, <2>3
<1>8. NoRepeat(job'[c].mine) /\ ToSet(job'[c].mine) = {} /\ ToSet(job'[c].todo) = {}
  BY <1>1, EmptyHasNone
<1>9. New'
  <2>1. ASSUME NEW d \in Clients \ {c}
        PROVE  NoRepeat(job[d].mine) /\ ToSet(job[d].mine) \cap RowEvents' = {}
    <3>1. ToSet(job[d].mine) \cap ToSet(mine) = {}
      BY <1>3 DEF Fresh, Disjoint, Emits
    <3>2. QED
      BY <1>6, <3>1 DEF Fresh, New
  <2>2. QED
    BY <1>1, <1>8, <2>1 DEF New
<1>10. Disjoint'
  BY <1>1, <1>8 DEF Fresh, Disjoint, Emits
<1>11. QED
  BY <1>7, <1>9, <1>10 DEF Fresh

\* The offer is looked up and recorded by one step, and no transaction emits it.
LEMMA FreshOffer ==
  ASSUME Typed, Typed', Fresh, NEW c \in Clients, EmitOffer(c)
  PROVE  Fresh'
<1>1. /\ job[c].op = "commit" /\ job'[c].op \in {"none", "dispatch"}
      /\ \A d \in Clients \ {c} : job'[d] = job[d]
  BY OfferEmitted
<1>2. Shape(job[c]) /\ Shape(job[c])' /\ Len(row) \in Nat
  BY DEF Typed, TypeOK
<1>3. CASE row' = row
  BY <1>1, <1>2, <1>3, FreshKept
<1>4. CASE /\ ~Known(c, Offer) /\ Len(row') = Len(row) + 1
           /\ \A n \in 1 .. Len(row) : row'[n] = row[n]
           /\ row'[Len(row) + 1].event = Offer
  <2>1. Offer \notin RowEvents
    BY <1>4, KnownAre DEF Known
  <2>2. \A n \in 1 .. Len(row') :
          \/ n \in 1 .. Len(row) /\ row'[n].event = row[n].event /\ row'[n].event \in RowEvents
          \/ n = Len(row) + 1 /\ row'[n].event = Offer
    BY <1>2, <1>4 DEF RowEvents
  <2>3. RowEvents' \subseteq RowEvents \cup {Offer}
    BY <2>2 DEF RowEvents
  <2>4. Unique'
    BY <2>1, <2>2 DEF Fresh, Unique
  <2>5. job'[c].todo = <<>> /\ job'[c].mine = <<>>
    BY <1>1, <1>2 DEF Shape
  <2>6. NoRepeat(job'[c].mine) /\ ToSet(job'[c].mine) = {} /\ ToSet(job'[c].todo) = {}
    BY <2>5, EmptyHasNone
  <2>7. New'
    <3>1. ASSUME NEW d \in Clients \ {c}
          PROVE  NoRepeat(job[d].mine) /\ ToSet(job[d].mine) \cap RowEvents' = {}
      <4>1. job[d].mine \in Seq(Events \ {Offer})
        BY DEF Typed, Shape
      <4>2. Offer \notin ToSet(job[d].mine)
        BY <4>1, ElementsIn
      <4>3. QED
        BY <2>3, <4>2 DEF Fresh, New
    <3>2. QED
      BY <1>1, <2>6, <3>1 DEF New
  <2>8. Disjoint'
    BY <1>1, <2>6 DEF Fresh, Disjoint, Emits
  <2>9. QED
    BY <2>4, <2>7, <2>8 DEF Fresh
<1>5. QED
  BY <1>3, <1>4, OfferEmitted

LEMMA FreshSame ==
  ASSUME Fresh, UNCHANGED <<row, job>>
  PROVE  Fresh'
<1>1. RowEvents' = RowEvents /\ \A c \in Clients : Emits(c)' = Emits(c)
  BY DEF RowEvents, Emits
<1>2. Unique' /\ Disjoint'
  BY <1>1 DEF Fresh, Unique, Disjoint
<1>3. New'
  BY <1>1 DEF Fresh, New
<1>4. QED
  BY <1>2, <1>3 DEF Fresh

LEMMA FreshNext ==
  ASSUME Typed, Typed', Fresh, <<"work", "work">> \in Apart, [Next]_vars
  PROVE  Fresh'
<1>1. CASE UNCHANGED vars
  BY <1>1, FreshSame DEF vars
<1>2. CASE Tick \/ Take \/ Switch \/ Deliver \/ ThrottleEnds
  <2>1. UNCHANGED <<row, job>>
    BY <1>2, OthersAct
  <2>2. QED
    BY <2>1, FreshSame
<1>3. ASSUME NEW c \in Clients,
             \/ \E lot \in Lots : BeginWork(c, lot)
             \/ Emit(c) \/ Commit(c) \/ AfterCommit(c)
             \/ PassOfPage(c) \/ PassOfCommand(c) \/ PassBreaksOff(c) \/ Die(c)
      PROVE  Fresh'
  <2>1. Shape(job[c])'
    BY DEF Typed
  <2>2. ASSUME NEW lot \in Lots, BeginWork(c, lot) PROVE Fresh'
    BY <2>2, FreshBegins
  <2>3. CASE Emit(c) \/ Commit(c)
    BY <2>3, FreshEmits, FreshCommits
  <2>4. CASE Address(c)
    <3>1. job'[c].op # "work"
      BY <2>4, RowAddressed
    <3>2. QED
      BY <2>1, <2>4, <3>1, RowAddressed, FreshKept
  <2>5. CASE Queue(c)
    <3>1. job'[c].op # "work"
      BY <2>5, RecipientQueued
    <3>2. QED
      BY <2>1, <2>5, <3>1, RecipientQueued, FreshKept
  <2>6. CASE Close(c)
    <3>1. job'[c].op # "work"
      BY <2>6, RowClosed
    <3>2. QED
      BY <2>1, <2>6, <3>1, RowClosed, FreshKept
  <2>7. CASE Finish(c) \/ EndPass(c) \/ Die(c)
    <3>1. job'[c].op # "work"
      BY <2>7, RequestEnds, IdleShape
    <3>2. QED
      BY <2>1, <2>7, <3>1, RequestEnds, FreshKept
  <2>8. CASE EmitOffer(c)
    BY <2>8, FreshOffer
  <2>9. CASE PassAfterCommit(c) \/ PassOfPage(c) \/ PassOfCommand(c)
    <3>1. job'[c].op # "work"
      BY <2>9, PassBegins DEF Passes
    <3>2. QED
      BY <2>1, <2>9, <3>1, PassBegins, FreshKept
  <2>10. CASE Look(c) \/ PassBreaksOff(c)
    <3>1. job'[c].op # "work"
      BY <2>10, PassLooks, PassBroken DEF Passes
    <3>2. QED
      BY <2>1, <2>10, <3>1, PassLooks, PassBroken, FreshKept
  <2>11. CASE Tell(c)
    <3>1. job'[c].op # "work"
      BY <2>11, PassTells DEF Passes
    <3>2. QED
      BY <2>1, <2>11, <3>1, PassTells, FreshKept
  <2>12. QED
    BY <1>3, <2>2, <2>3, <2>4, <2>5, <2>6, <2>7, <2>8, <2>9, <2>10, <2>11 DEF AfterCommit
<1>4. QED
  BY <1>1, <1>2, <1>3 DEF Next

\* A phone gets one message at most about an event, though the event may be emitted by
\* any number of transactions, messages leave the outbox and the office switches the
\* event: where no two transactions that emit it overlap, as the key is looked up and
\* inserted by two statements (NotificationEventService.emit).
THEOREM OneMessageForPhone ==
  ASSUME <<"work", "work">> \in Apart
  PROVE  Spec => []OneMessage
<1>1. Init => Fresh /\ Serving
  <2>1. SUFFICES ASSUME Init PROVE Fresh /\ Serving
    OBVIOUS
  <2>2. Len(row) = 0 /\ outbox = {}
    BY <2>1 DEF Init
  <2>3. \A c \in Clients : job[c].todo = <<>> /\ job[c].mine = <<>> /\ job[c].ids = <<>>
    BY <2>1 DEF Init, Idle
  <2>4. Fresh
    BY <2>2, <2>3, EmptyHasNone DEF Fresh, Unique, New, Disjoint, Emits
  <2>5. Serving
    BY <2>2, <2>3, EmptyHasNone DEF Serving, Dispatched, Unserved, OfRows, OneForRow
  <2>6. QED
    BY <2>4, <2>5
<1>2. Typed /\ Typed' /\ Fresh /\ Serving /\ [Next]_vars => Fresh' /\ Serving'
  BY FreshNext, ServingNext
<1>3. Fresh /\ Serving => OneMessage
  BY DEF Fresh, Unique, Serving, OfRows, OneForRow, OneMessage
<1>4. QED
  BY <1>1, <1>2, <1>3, TypedInit, TypedNext, PTL DEF Spec

----------------------------------------------------------------------------
USE OfferAssumption

----------------------------------------------------------------------------
\* Time, and the rules of the offers

\* A moment has a day and an hour of it.
LEMMA DayType ==
  ASSUME NEW n \in Nat
  PROVE  /\ Day(n) \in Nat
         /\ Hour(n) \in 0 .. PerDay - 1
         /\ n = PerDay * Day(n) + Hour(n)
  BY Z3 DEF Day, Hour

\* Days do not go back, and within one neither do hours.
LEMMA DayGrows ==
  ASSUME NEW m \in Nat, NEW n \in Nat, m <= n
  PROVE  Day(m) < Day(n) \/ (Day(m) = Day(n) /\ Hour(m) <= Hour(n))
<1> DEFINE d == Day(m)  e == Day(n)  g == Hour(m)  h == Hour(n)
<1>1. d \in Nat /\ e \in Nat /\ g \in 0 .. PerDay - 1 /\ h \in 0 .. PerDay - 1
      /\ m = PerDay * d + g /\ n = PerDay * e + h
  BY DayType
<1> HIDE DEF d, e, g, h
<1>2. ASSUME e < d PROVE FALSE
  <2>1. PerDay * (d - e) >= PerDay BY <1>1, <1>2
  <2>2. PerDay * (d - e) = PerDay * d - PerDay * e BY <1>1
  <2>3. QED BY <1>1, <2>1, <2>2
<1>3. d = e => g <= h BY <1>1
<1>4. QED BY <1>1, <1>2, <1>3 DEF d, e, g, h

----------------------------------------------------------------------------
\* The list of offers and the page of one

\* The columns compared in the list's query, and the day the page looks at, admit
\* the same dates.
LEMMA DatesAgree ==
  ASSUME NEW o \in OpenOrder, NEW s \in Settings, NEW n \in Times
  PROVE  ListedDate(o, s, n) <=> FutureVisible(o, s, n)
<1>0. n \in Nat BY DEF Times
<1>1. Day(n) \in Nat BY <1>0, DayType
<1>2. CASE o.service # None
  <2>1. o.service \in Nat BY <1>2 DEF OpenOrder
  <2>2. ServiceDay(o) = o.service BY <1>2 DEF ServiceDay
  <2>3. QED BY <1>1, <1>2, <2>1, <2>2 DEF ListedDate, FutureVisible, IsSince
<1>3. CASE o.service = None /\ o.scheduled = None
  <2>1. ServiceDay(o) = None BY <1>3 DEF ServiceDay
  <2>2. QED BY <1>3, <2>1 DEF ListedDate, FutureVisible
<1>4. CASE o.service = None /\ o.scheduled # None
  <2>1. o.scheduled \in Nat BY <1>4 DEF OpenOrder, Times
  <2>2. ServiceDay(o) = Day(o.scheduled) /\ Day(o.scheduled) \in Nat
    BY <1>4, <2>1, DayType DEF ServiceDay
  <2>3. QED BY <1>1, <1>4, <2>2 DEF ListedDate, FutureVisible, IsSince
<1>5. QED BY <1>2, <1>3, <1>4

\* A technician of some rank is in the list from the moment the page is open to him.
LEMMA RanksAgree ==
  ASSUME NEW o \in OpenOrder, NEW t \in Offered, NEW n \in Times, t.rank # 0
  PROVE  ListedRank(o, t, n) <=> Waited(o, t, n)
<1>1. t.rank \in {1, 2, 3} BY DEF Offered
<1>2. QED BY <1>1 DEF ListedRank, Waited

\* The list, the page and the notification offer an order to the same technicians, and
\* the button is shown to those the acceptance does not refuse, provided the old limit
\* is not 0, which the page takes for no limit and the acceptance for a refusal
\* (get_available_orders, is_order_visible_to_technician, TechnicianAcceptService).
THEOREM RulesAgree ==
  ASSUME LegacyLimit > 0
  PROVE  \A o \in OpenOrder, t \in Offered, s \in Settings, n \in Times :
           Agree(o, t, s, n)
<1> SUFFICES ASSUME NEW o \in OpenOrder, NEW t \in Offered, NEW s \in Settings, NEW n \in Times
             PROVE  Agree(o, t, s, n)
  OBVIOUS
<1>1. ASSUME o.category PROVE Listed(o, t, s, n) <=> Visible(o, t, s, n)
  BY <1>1, DatesAgree, RanksAgree DEF Listed, Visible
<1>2. ASSUME o.category PROVE Told(o, t, s, n) <=> Visible(o, t, s, n)
  BY <1>2 DEF Told, Visible
<1>3. ASSUME o.category PROVE HasButton(o, t, s, n) <=> Accepts(o, t, s, n)
  BY <1>3 DEF HasButton, Accepts, Visible
<1>4. ASSUME ~o.category, HasButton(o, t, s, n) PROVE LegacyAccepts(o, t)
  <2>1. t.free /\ ~Full(Active(t), LegacyLimit) /\ (o.skill => t.skill)
    BY <1>4 DEF HasButton, Visible
  <2>2. t.started \in Nat /\ t.waiting \in Nat BY DEF Offered
  <2>3. LegacyLimit > 0 => t.started < LegacyLimit
    BY <2>1, <2>2 DEF Full, Active
  <2>4. QED BY <2>1, <2>3 DEF LegacyAccepts
<1>5. QED BY <1>1, <1>2, <1>3, <1>4 DEF Agree

\* So they agree at every moment of every behaviour, for any orders, technicians and
\* settings they are compared for.
THEOREM OffersAgreeAlways == ASSUME LegacyLimit > 0 PROVE Spec => []OffersAgree
<1>1. TypeOK => OffersAgree
  BY RulesAgree, ComparedAssumption DEF TypeOK, OffersAgree, AgreeAt
<1>2. QED BY <1>1, NotificationsTypeCorrect, PTL

----------------------------------------------------------------------------
\* Waiting

\* What a technician may accept stays acceptable as time goes on, past the end of a
\* delay, the company's gate and the service date
\* (is_order_accept_allowed_by_service_date).
THEOREM OffersStayAlways ==
  \A o \in OpenOrder, t \in Offered, s \in Settings, n \in Times : Stays(o, t, s, n)
<1> SUFFICES ASSUME NEW o \in OpenOrder, NEW t \in Offered, NEW s \in Settings, NEW n \in Times,
                    Accepts(o, t, s, n), NEW later \in n .. Horizon
             PROVE  Accepts(o, t, s, later)
  BY DEF Stays
<1>1. n \in Nat /\ later \in Nat /\ n <= later BY DEF Times
<1>2. /\ Day(n) \in Nat /\ Day(later) \in Nat /\ Hour(n) \in Nat /\ Hour(later) \in Nat
      /\ Day(n) < Day(later) \/ (Day(n) = Day(later) /\ Hour(n) <= Hour(later))
  <2>1. Day(n) \in Nat /\ Hour(n) \in 0 .. PerDay - 1 BY <1>1, DayType
  <2>2. Day(later) \in Nat /\ Hour(later) \in 0 .. PerDay - 1 BY <1>1, DayType
  <2>3. QED BY <1>1, <2>1, <2>2, DayGrows
<1>3. Waited(o, t, later)
  <2>1. \A time \in Times \cup {None} : IsSince(time, n) => IsSince(time, later)
    BY <1>1 DEF IsSince, Times
  <2>2. QED BY <2>1 DEF Accepts, Waited, OpenOrder
<1>4. ServiceDay(o) \in Nat \cup {None}
  BY DayType DEF ServiceDay, OpenOrder, Times
<1>5. s.gate \in Nat \cup {None} BY DEF Settings
<1>6. AcceptDay(o, s, later)
  BY <1>2, <1>4, <1>5 DEF Accepts, AcceptDay, AfterGate
<1>7. FutureVisible(o, s, later)
  BY <1>2, <1>4, <1>6 DEF FutureVisible, AcceptDay
<1>8. QED BY <1>3, <1>6, <1>7 DEF Accepts

=============================================================================
