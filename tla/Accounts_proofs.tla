--------------------------- MODULE Accounts_proofs ---------------------------
(***************************************************************************)
(* Proofs about Accounts for any number of browsers, users, technicians,   *)
(* pages and codes.  What the office's edits and the one-time codes need   *)
(* to have to themselves is an assumption of the theorem that needs it.    *)
(***************************************************************************)
EXTENDS OperatorAccess, FiniteSetTheorems, TLAPS

\* The bounds are natural numbers.
LEMMA BoundsNat ==
  MaxAttempts \in Nat /\ MaxCodes \in Nat /\ MaxPasswords \in Nat /\ MaxOffice \in Nat
  BY BoundsAssumption

USE BoundsNat, ProfilesAssumption, ClientsAssumption

----------------------------------------------------------------------------
\* Requests

\* The idle request, a new user and the forgotten session are typed.
LEMMA ConstantTypes == Idle \in Job /\ NoUser \in UserRow /\ Forgotten \in Session /\ NoCode \in CodeRow
  BY DEF Idle, Job, NoUser, UserRow, Forgotten, Session, NoCode, CodeRow, Ops, Places,
         Existence, Passwords, Age

\* An assigned request is the only one that changes.
LEMMA Assigned ==
  ASSUME job \in [Clients -> Job], NEW c \in Clients, NEW f \in Job,
         job' = [job EXCEPT ![c] = f]
  PROVE  /\ job' \in [Clients -> Job]
         /\ job'[c] = f
         /\ \A d \in Clients \ {c} : job'[d] = job[d]
  OBVIOUS

\* A request that moves on keeps what it holds.
LEMMA Moves ==
  ASSUME job \in [Clients -> Job], NEW c \in Clients, NEW pc \in Places, Goto(c, pc)
  PROVE  /\ job' \in [Clients -> Job]
         /\ job'[c] = [job[c] EXCEPT !.pc = pc]
         /\ job'[c].op = job[c].op /\ job'[c].code = job[c].code /\ job'[c].pc = pc
         /\ \A d \in Clients \ {c} : job'[d] = job[d]
<1> DEFINE f == [job[c] EXCEPT !.pc = pc]
<1>1. f \in Job /\ f.op = job[c].op /\ f.code = job[c].code /\ f.pc = pc
  BY DEF Job
<1>2. job' = [job EXCEPT ![c] = f]
  BY DEF Goto
<1> HIDE DEF f
<1>3. QED
  BY <1>1, <1>2, Assigned DEF f

\* A request that ends is idle.
LEMMA Ends ==
  ASSUME job \in [Clients -> Job], NEW c \in Clients, Done(c)
  PROVE  /\ job' \in [Clients -> Job]
         /\ job'[c] = Idle
         /\ \A d \in Clients \ {c} : job'[d] = job[d]
  BY ConstantTypes, Assigned DEF Done

\* The request of an operation on user u, with or without a copy of the row.
Holding(op, u, copy) == [Idle EXCEPT !.op = op, !.pc = "save", !.user = {u}, !.copy = copy]

LEMMA HoldingType ==
  ASSUME NEW op \in Ops, NEW u \in Users, NEW copy \in UserRow
  PROVE  /\ Holding(op, u, copy) \in Job
         /\ Holding(op, u, copy).op = op
         /\ Holding(op, u, copy).pc = "save"
         /\ Holding(op, u, copy).user = {u}
         /\ Holding(op, u, copy).copy = copy
  BY ConstantTypes DEF Holding, Idle, Job, Places

LEMMA Holds ==
  ASSUME job \in [Clients -> Job], user \in [Users -> UserRow],
         NEW c \in Clients, NEW op \in Ops, NEW u \in Users,
         Hold(c, op, u) \/ HoldCopy(c, op, u)
  PROVE  /\ job' \in [Clients -> Job]
         /\ job'[c].op = op /\ job'[c].pc = "save" /\ job'[c].user = {u}
         /\ HoldCopy(c, op, u) => job'[c].copy = user[u]
         /\ \A d \in Clients \ {c} : job'[d] = job[d]
<1>1. CASE HoldCopy(c, op, u)
  <2>1. job' = [job EXCEPT ![c] = Holding(op, u, user[u])]
    BY <1>1 DEF HoldCopy, Holding
  <2>2. QED
    BY <2>1, Assigned, HoldingType
<1>2. CASE Hold(c, op, u) /\ ~HoldCopy(c, op, u)
  <2> DEFINE f == [Idle EXCEPT !.op = op, !.pc = "save", !.user = {u}]
  <2>1. f \in Job /\ f.op = op /\ f.pc = "save" /\ f.user = {u}
    BY ConstantTypes DEF Idle, Job, Places
  <2>2. job' = [job EXCEPT ![c] = f]
    BY <1>2 DEF Hold
  <2> HIDE DEF f
  <2>3. QED
    BY <1>2, <2>1, <2>2, Assigned
<1>3. QED
  BY <1>1, <1>2

\* The request that switches a technician, and what is left of it after a save.
LEMMA Toggles ==
  ASSUME job \in [Clients -> Job], user \in [Users -> UserRow],
         NEW c \in Clients, NEW u \in Users, NEW pc \in {"twice", "save"},
         job' = [job EXCEPT ![c] = [Idle EXCEPT !.op = "toggleTechnician", !.pc = pc,
                                      !.user = {u}, !.copy = user[u]]]
  PROVE  /\ job' \in [Clients -> Job]
         /\ job'[c].op = "toggleTechnician" /\ job'[c].pc = pc /\ job'[c].user = {u}
         /\ \A d \in Clients \ {c} : job'[d] = job[d]
<1> DEFINE f == [Idle EXCEPT !.op = "toggleTechnician", !.pc = pc, !.user = {u}, !.copy = user[u]]
<1>1. f \in Job /\ f.op = "toggleTechnician" /\ f.pc = pc /\ f.user = {u}
  BY ConstantTypes DEF Idle, Job, Ops, Places
<1> HIDE DEF f
<1>2. QED
  BY <1>1, Assigned DEF f

LEMMA TogglesOn ==
  ASSUME job \in [Clients -> Job], NEW c \in Clients, NEW u \in Users, SaveTechnicianToggle(c, u)
  PROVE  /\ job' \in [Clients -> Job] /\ job'[c].pc # "enter"
         /\ \A d \in Clients \ {c} : job'[d] = job[d]
         /\ job'[c].op = "none" \/ (job'[c].op = "toggleTechnician" /\ job'[c].user = {u})
<1> DEFINE f == [job[c] EXCEPT !.pc = "save", !.copy = SwitchedInFull(c, u)]
<1>1. SwitchedInFull(c, u) \in UserRow
  BY DEF SwitchedInFull, Job, UserRow
<1>2. f \in Job /\ f.pc = "save" /\ f.op = "toggleTechnician" /\ f.user = {u}
  BY <1>1 DEF SaveTechnicianToggle, Job, Places
<1>3. job' = [job EXCEPT ![c] = Idle] \/ job' = [job EXCEPT ![c] = f]
  BY DEF SaveTechnicianToggle
<1>4. Idle.op = "none" /\ Idle.pc = "idle"
  BY DEF Idle
<1> HIDE DEF f
<1>5. QED
  BY <1>2, <1>3, <1>4, Assigned, ConstantTypes

\* The request of someone who asks for a code.
LEMMA Asks ==
  ASSUME job \in [Clients -> Job], NEW c \in Clients,
         job' = [job EXCEPT ![c] = [Idle EXCEPT !.op = "ask", !.pc = "invalidate"]]
  PROVE  /\ job' \in [Clients -> Job]
         /\ job'[c].op = "ask" /\ job'[c].pc = "invalidate"
         /\ \A d \in Clients \ {c} : job'[d] = job[d]
<1> DEFINE f == [Idle EXCEPT !.op = "ask", !.pc = "invalidate"]
<1>1. f \in Job /\ f.op = "ask" /\ f.pc = "invalidate"
  BY ConstantTypes DEF Idle, Job, Ops, Places
<1> HIDE DEF f
<1>2. QED
  BY <1>1, Assigned DEF f

\* The request of someone who enters code i.
LEMMA Verifies ==
  ASSUME job \in [Clients -> Job], NEW c \in Clients, NEW i \in Codes, NEW n \in 0..MaxAttempts,
         job' = [job EXCEPT ![c] = [Idle EXCEPT !.op = "verify", !.pc = "enter", !.code = {i},
                                      !.attempts = n]]
  PROVE  /\ job' \in [Clients -> Job]
         /\ job'[c].op = "verify" /\ job'[c].pc = "enter"
         /\ job'[c].code = {i} /\ job'[c].attempts = n
         /\ \A d \in Clients \ {c} : job'[d] = job[d]
<1> DEFINE f == [Idle EXCEPT !.op = "verify", !.pc = "enter", !.code = {i}, !.attempts = n]
<1>1. f \in Job /\ f.op = "verify" /\ f.pc = "enter" /\ f.code = {i} /\ f.attempts = n
  BY ConstantTypes DEF Idle, Job, Ops, Places
<1> HIDE DEF f
<1>2. QED
  BY <1>1, Assigned DEF f

----------------------------------------------------------------------------
\* Rows, sessions and requests keep their types.  An entry under way was read
\* below the limit.

EntryBelowLimit == \A c \in Clients : job[c].pc = "enter" => job[c].attempts < MaxAttempts

Typed == TypeOK /\ EntryBelowLimit

\* The accounts as the office has created them.
LEMMA InitTyped == Init => Typed
<1> SUFFICES ASSUME Init PROVE Typed
  OBVIOUS
<1>1. user \in [Users -> UserRow]
  BY DEF Init, Created, UserRow, Existence, Passwords
<1>2. /\ rights \in [Users -> [Keys -> Right]] /\ code \in [Codes -> CodeRow]
      /\ session \in [Clients -> Session] /\ job \in [Clients -> Job]
  BY ConstantTypes DEF Init, Right
<1>3. /\ chosen \in [Users -> Passwords] /\ switched \in [Users -> BOOLEAN]
      /\ posted \in [Users -> SUBSET Keys] /\ entries \in [Codes -> Nat]
      /\ {verified, resets, choices, office} \subseteq Nat
  BY DEF Init, Passwords
<1>4. EntryBelowLimit
  BY DEF Init, EntryBelowLimit, Idle
<1>5. QED
  BY <1>1, <1>2, <1>3, <1>4 DEF Typed, TypeOK

\* A step of c that leaves the other requests alone keeps the limit.
LEMMA LimitKept ==
  ASSUME Typed, NEW c \in Clients, \A d \in Clients \ {c} : job'[d] = job[d],
         job'[c].pc = "enter" => job'[c].attempts < MaxAttempts
  PROVE  EntryBelowLimit'
  BY DEF Typed, EntryBelowLimit

\* Asking for codes and entering them.
LEMMA CodeTyped ==
  ASSUME Typed, NEW c \in Clients,
         \/ BeginAsk(c) \/ BeginResend(c) \/ Invalidate(c) \/ InsertCode(c)
         \/ \E i \in Codes : BeginVerify(c, i) \/ Enter(c, i) \/ Consume(c, i)
         \/ Select(c)
  PROVE  Typed'
<1> USE DEF Typed, TypeOK
<1>1. ASSUME NEW s \in Session, session' = [session EXCEPT ![c] = s]
      PROVE  session' \in [Clients -> Session]
  BY <1>1
<1>2. CASE BeginAsk(c)
  <2>1. /\ job' \in [Clients -> Job] /\ \A d \in Clients \ {c} : job'[d] = job[d]
        /\ job'[c].pc # "enter" \/ job'[c] = job[c]
    BY <1>2, Asks DEF BeginAsk
  <2>2. session' \in [Clients -> Session]
    <3>1. [Forgotten EXCEPT !.code = {i \in Unused : \A j \in Unused : j <= i}] \in Session
      BY DEF Forgotten, Session, Unused
    <3>2. QED
      BY <1>1, <1>2, <3>1, ConstantTypes DEF BeginAsk
  <2>3. QED
    BY <1>2, <2>1, <2>2, LimitKept DEF BeginAsk, accounts, promised, counted, bounds, EntryBelowLimit
<1>3. CASE BeginResend(c)
  <2>1. job' \in [Clients -> Job] /\ job'[c].pc # "enter" /\ \A d \in Clients \ {c} : job'[d] = job[d]
    BY <1>3, Asks DEF BeginResend
  <2>2. QED
    BY <1>3, <2>1, LimitKept DEF BeginResend, accounts, promised, counted, bounds
<1>4. CASE Invalidate(c)
  <2>1. job' \in [Clients -> Job] /\ job'[c].pc # "enter" /\ \A d \in Clients \ {c} : job'[d] = job[d]
    BY <1>4, Moves DEF Invalidate, Places
  <2>2. code' \in [Codes -> CodeRow]
    BY <1>4 DEF Invalidate, Invalidated, CodeRow
  <2>3. QED
    BY <1>4, <2>1, <2>2, LimitKept DEF Invalidate, accounts, promised, counted, bounds
<1>5. CASE InsertCode(c)
  <2>1. job' \in [Clients -> Job] /\ job'[c].pc # "enter" /\ \A d \in Clients \ {c} : job'[d] = job[d]
    BY <1>5, Ends DEF InsertCode, Idle
  <2>2. code' \in [Codes -> CodeRow]
    <3>1. [NoCode EXCEPT !.is = "unused"] \in CodeRow
      BY ConstantTypes DEF CodeRow
    <3>2. QED
      BY <1>5, <3>1 DEF InsertCode
  <2>3. session' \in [Clients -> Session]
    <3>1. PICK i \in Codes : session' = [session EXCEPT ![c].code = {i}]
      BY <1>5 DEF InsertCode
    <3>2. session \in [Clients -> Session] /\ session[c] \in Session
      OBVIOUS
    <3>3. [session[c] EXCEPT !.code = {i}] \in Session
      BY <3>2 DEF Session
    <3>4. QED
      BY <3>1, <3>2, <3>3
  <2>4. QED
    BY <1>5, <2>1, <2>2, <2>3, LimitKept DEF InsertCode, accounts, promised, counted, bounds
<1>6. ASSUME NEW i \in Codes, BeginVerify(c, i) PROVE Typed'
  <2>1. CASE i \in Unused /\ Usable(i)
    <3>1. code[i].attempts \in 0..MaxAttempts /\ code[i].attempts < MaxAttempts
      BY <2>1 DEF Usable, CodeRow
    <3>2. /\ job' \in [Clients -> Job] /\ job'[c].attempts < MaxAttempts
          /\ \A d \in Clients \ {c} : job'[d] = job[d]
      BY <1>6, <2>1, <3>1, Verifies DEF BeginVerify
    <3>3. QED
      BY <1>6, <2>1, <3>2, LimitKept DEF BeginVerify, accounts, promised, counted, bounds
  <2>2. CASE ~(i \in Unused /\ Usable(i))
    BY <1>1, <1>6, <2>2, ConstantTypes
       DEF BeginVerify, accounts, promised, counted, bounds, EntryBelowLimit
  <2>3. QED
    BY <2>1, <2>2
<1>7. ASSUME NEW i \in Codes, Enter(c, i) PROVE Typed'
  <2>1. job' \in [Clients -> Job] /\ job'[c].pc # "enter" /\ \A d \in Clients \ {c} : job'[d] = job[d]
    <3>1. CASE Goto(c, "consume")
      BY <3>1, Moves DEF Places
    <3>2. CASE Done(c)
      BY <3>2, Ends DEF Idle
    <3>3. QED
      BY <1>7, <3>1, <3>2 DEF Enter
  <2>2. job[c].attempts + 1 \in 0..MaxAttempts
    BY <1>7 DEF Enter, At, EntryBelowLimit, Job
  <2>3. code' \in [Codes -> CodeRow] /\ entries' \in [Codes -> Nat]
    <3>1. [code[i] EXCEPT !.attempts = job[c].attempts + 1] \in CodeRow
      BY <2>2 DEF CodeRow
    <3>2. code' = code \/ code' = [code EXCEPT ![i] = [code[i] EXCEPT !.attempts = job[c].attempts + 1]]
      BY <1>7 DEF Enter
    <3>3. code' \in [Codes -> CodeRow]
      BY <3>1, <3>2
    <3>4. entries' = entries \/ entries' = [entries EXCEPT ![i] = @ + 1]
      BY <1>7 DEF Enter
    <3>5. QED
      BY <3>3, <3>4
  <2>4. QED
    BY <1>7, <2>1, <2>3, LimitKept DEF Enter, accounts, promised, bounds
<1>8. ASSUME NEW i \in Codes, Consume(c, i) PROVE Typed'
  <2>1. job' \in [Clients -> Job] /\ job'[c].pc # "enter" /\ \A d \in Clients \ {c} : job'[d] = job[d]
    BY <1>8, Ends DEF Consume, Idle
  <2>2. code' \in [Codes -> CodeRow]
    BY <1>8 DEF Consume, Consumed, CodeRow
  <2>3. session' \in [Clients -> Session]
    BY <1>8 DEF Consume, Session, Active, Present
  <2>4. QED
    BY <1>8, <2>1, <2>2, <2>3, LimitKept DEF Consume, accounts, promised, bounds
<1>9. CASE Select(c)
  <2>1. session' \in [Clients -> Session]
    <3>1. ASSUME NEW u \in session[c].candidates,
                 session' = [session EXCEPT ![c].candidates = {}, ![c].uid = {u}]
          PROVE  session' \in [Clients -> Session]
      <4>1. [session[c] EXCEPT !.candidates = {}, !.uid = {u}] \in Session
        <5>1. session[c] \in Session /\ u \in Users
          BY <3>1 DEF Session
        <5>2. QED
          BY <5>1 DEF Session
      <4>2. session' = [session EXCEPT ![c] = [session[c] EXCEPT !.candidates = {}, !.uid = {u}]]
        BY <3>1
      <4>3. QED
        BY <4>1, <4>2
    <3>2. QED
      BY <1>1, <1>9, <3>1, ConstantTypes DEF Select
  <2>2. QED
    BY <1>9, <2>1 DEF Select, accounts, promised, counted, bounds, EntryBelowLimit
<1>10. QED
  BY <1>2, <1>3, <1>4, <1>5, <1>6, <1>7, <1>8, <1>9

\* A chosen password is one of the numbered passwords.
LEMMA ChooseType ==
  ASSUME TypeOK, NEW u \in Users, Choose(u)
  PROVE  /\ NextPassword \in Passwords
         /\ chosen' \in [Users -> Passwords] /\ chosen'[u] = NextPassword
         /\ \A v \in Users \ {u} : chosen'[v] = chosen[v]
         /\ choices' \in Nat
  BY DEF TypeOK, Choose, NextPassword, Passwords

\* Setting a password with a code or when logged in.
LEMMA PasswordTyped ==
  ASSUME Typed, NEW c \in Clients, NEW u \in Users,
         BeginReset(c, u) \/ SaveReset(c, u) \/ BeginChange(c, u) \/ SaveChange(c, u)
  PROVE  Typed'
<1> USE DEF Typed, TypeOK
<1>1. ASSUME NEW s \in Session, session' = [session EXCEPT ![c] = s]
      PROVE  session' \in [Clients -> Session]
  BY <1>1
<1>2. CASE BeginReset(c, u)
  <2>1. /\ job' \in [Clients -> Job] /\ \A d \in Clients \ {c} : job'[d] = job[d]
        /\ job'[c].pc # "enter" \/ job'[c] = job[c]
    BY <1>2, Holds DEF BeginReset, Ops
  <2>2. session' \in [Clients -> Session]
    BY <1>1, <1>2, ConstantTypes DEF BeginReset
  <2>3. QED
    BY <1>2, <2>1, <2>2, LimitKept DEF BeginReset, accounts, promised, counted, bounds, EntryBelowLimit
<1>3. CASE BeginChange(c, u)
  <2>1. job' \in [Clients -> Job] /\ job'[c].pc # "enter" /\ \A d \in Clients \ {c} : job'[d] = job[d]
    BY <1>3, Holds DEF BeginChange, Ops
  <2>2. QED
    BY <1>3, <2>1, LimitKept DEF BeginChange, accounts, promised, counted, bounds
<1>4. CASE SaveReset(c, u) \/ SaveChange(c, u)
  <2>1. job' \in [Clients -> Job] /\ job'[c].pc # "enter" /\ \A d \in Clients \ {c} : job'[d] = job[d]
    BY <1>4, Ends DEF SaveReset, SaveChange, Idle
  <2>2. user' \in [Users -> UserRow] /\ chosen' \in [Users -> Passwords] /\ choices' \in Nat
    <3>1. CASE Choose(u) /\ user' = [user EXCEPT ![u].password = NextPassword]
      <4>1. NextPassword \in Passwords /\ chosen' \in [Users -> Passwords] /\ choices' \in Nat
        BY <3>1, ChooseType
      <4>2. [user[u] EXCEPT !.password = NextPassword] \in UserRow
        BY <4>1 DEF UserRow
      <4>3. QED
        BY <3>1, <4>1, <4>2
    <3>2. CASE UNCHANGED <<user, chosen, choices>>
      BY <3>2
    <3>3. QED
      BY <1>4, <3>1, <3>2 DEF SaveReset, SaveChange
  <2>3. session' \in [Clients -> Session] /\ resets' \in Nat
    BY <1>1, <1>4, ConstantTypes DEF SaveReset, SaveChange, counted
  <2>4. QED
    BY <1>4, <2>1, <2>2, <2>3, LimitKept DEF SaveReset, SaveChange, counted
<1>5. QED
  BY <1>2, <1>3, <1>4

\* What an edit writes to a user's row.
LEMMA EditedType ==
  ASSUME NEW row \in UserRow
  PROVE  /\ Edited(row, {}) \in UserRow
         /\ Edited(row, {}).is = "present"
         /\ Edited(row, {}).active = row.active
         /\ Edited(row, {}).password = row.password
         /\ NextPassword \in Passwords =>
              /\ Edited(row, {NextPassword}) \in UserRow
              /\ Edited(row, {NextPassword}).is = "present"
              /\ Edited(row, {NextPassword}).active = row.active
              /\ Edited(row, {NextPassword}).password = NextPassword
<1>1. Edited(row, {}) = [row EXCEPT !.is = "present", !.password = row.password]
  BY DEF Edited
<1>2. Edited(row, {NextPassword}) = [row EXCEPT !.is = "present", !.password = NextPassword]
  BY DEF Edited
<1>3. QED
  BY <1>1, <1>2 DEF UserRow, Existence

\* A save of a copy writes one row: present, switched as the copy, with the
\* copy's password or a newly chosen one.
LEMMA SaveUserDoes ==
  ASSUME TypeOK, NEW c \in Clients, NEW u \in Users, NEW row \in UserRow, SaveUser(c, u, row)
  PROVE  /\ user' \in [Users -> UserRow]
         /\ \A v \in Users \ {u} : user'[v] = user[v] /\ chosen'[v] = chosen[v]
         /\ user'[u].is = "present" /\ user'[u].active = row.active
         /\ \/ user'[u].password = row.password /\ chosen' = chosen
            \/ user'[u].password = chosen'[u]
         /\ chosen' \in [Users -> Passwords] /\ choices' \in Nat
<1> USE DEF TypeOK
<1>2. CASE user' = [user EXCEPT ![u] = Edited(row, {})] /\ UNCHANGED <<chosen, choices>>
  BY <1>2, EditedType
<1>3. CASE Choose(u) /\ user' = [user EXCEPT ![u] = Edited(row, {NextPassword})]
  <2>1. /\ NextPassword \in Passwords /\ chosen'[u] = NextPassword
        /\ \A v \in Users \ {u} : chosen'[v] = chosen[v]
        /\ chosen' \in [Users -> Passwords] /\ choices' \in Nat
    BY <1>3, ChooseType
  <2>2. QED
    BY <1>3, <2>1, EditedType
<1>4. QED
  BY <1>2, <1>3 DEF SaveUser

\* The office's list form begins to save the pages.
Ticking(c, ticked) == [job[c] EXCEPT !.pc = "rights", !.ticked = ticked, !.todo = Keys]

LEMMA TickingType ==
  ASSUME job \in [Clients -> Job], NEW c \in Clients, NEW ticked \in SUBSET Keys,
         job' = [job EXCEPT ![c].pc = "rights", ![c].ticked = ticked, ![c].todo = Keys]
  PROVE  /\ job' \in [Clients -> Job]
         /\ job'[c].op = job[c].op /\ job'[c].pc = "rights" /\ job'[c].user = job[c].user
         /\ job'[c].ticked = ticked /\ job'[c].todo = Keys
         /\ \A d \in Clients \ {c} : job'[d] = job[d]
<1>1. /\ Ticking(c, ticked) \in Job
      /\ Ticking(c, ticked).op = job[c].op /\ Ticking(c, ticked).pc = "rights"
      /\ Ticking(c, ticked).user = job[c].user
      /\ Ticking(c, ticked).ticked = ticked /\ Ticking(c, ticked).todo = Keys
  BY DEF Ticking, Job, Places
<1>2. job' = [job EXCEPT ![c] = Ticking(c, ticked)]
  BY DEF Ticking
<1>3. QED
  BY <1>1, <1>2, Assigned

\* ... and saves them one by one.
LEMMA SaveRightJob ==
  ASSUME job \in [Clients -> Job], NEW c \in Clients, NEW k \in job[c].todo,
         job' = [job EXCEPT ![c] = IF job[c].todo = {k} THEN Idle ELSE [job[c] EXCEPT !.todo = @ \ {k}]]
  PROVE  /\ job' \in [Clients -> Job]
         /\ \A d \in Clients \ {c} : job'[d] = job[d]
         /\ job[c].todo = {k} => job'[c] = Idle
         /\ job[c].todo # {k} =>
              /\ job'[c].op = job[c].op /\ job'[c].pc = job[c].pc /\ job'[c].user = job[c].user
              /\ job'[c].ticked = job[c].ticked /\ job'[c].todo = job[c].todo \ {k}
<1> DEFINE f == IF job[c].todo = {k} THEN Idle ELSE [job[c] EXCEPT !.todo = job[c].todo \ {k}]
<1>1. job' = [job EXCEPT ![c] = f]
  OBVIOUS
<1>2. CASE job[c].todo = {k}
  <2>1. f = Idle
    BY <1>2
  <2> HIDE DEF f
  <2>2. QED
    BY <1>1, <1>2, <2>1, Assigned, ConstantTypes
<1>3. CASE job[c].todo # {k}
  <2>1. /\ f \in Job /\ f.op = job[c].op /\ f.pc = job[c].pc /\ f.user = job[c].user
        /\ f.ticked = job[c].ticked /\ f.todo = job[c].todo \ {k}
    BY <1>3 DEF Job
  <2> HIDE DEF f
  <2>2. QED
    BY <1>1, <1>3, <2>1, Assigned
<1>4. QED
  BY <1>2, <1>3

\* The office's edits.
LEMMA EditTyped ==
  ASSUME Typed, NEW c \in Clients, NEW u \in Users,
         \/ BeginEdit(c, u) \/ SaveTechnician(c, u) \/ SaveOperator(c, u) \/ UpdateOperator(c, u)
         \/ ChangeOperatorPassword(c, u) \/ \E k \in Keys : SaveRight(c, u, k)
  PROVE  Typed'
<1> USE DEF Typed, TypeOK
<1>0. job[c].copy \in UserRow
  BY DEF Job
<1>1. CASE BeginEdit(c, u)
  <2>1. job' \in [Clients -> Job] /\ job'[c].pc # "enter" /\ \A d \in Clients \ {c} : job'[d] = job[d]
    BY <1>1, Holds DEF BeginEdit, Ops
  <2>2. QED
    BY <1>1, <2>1, LimitKept DEF BeginEdit, Begun, accounts, promised, counted
<1>2. CASE SaveTechnician(c, u) \/ SaveOperator(c, u)
  <2>1. job' \in [Clients -> Job] /\ job'[c].pc # "enter" /\ \A d \in Clients \ {c} : job'[d] = job[d]
    BY <1>2, Ends DEF SaveTechnician, SaveOperator, Idle
  <2>2. user' \in [Users -> UserRow] /\ chosen' \in [Users -> Passwords] /\ choices' \in Nat
        /\ switched' \in [Users -> BOOLEAN]
    <3>1. \A active \in BOOLEAN : [job[c].copy EXCEPT !.active = active] \in UserRow
      BY <1>0 DEF UserRow
    <3>2. CASE SaveTechnician(c, u)
      BY <1>0, <3>2, SaveUserDoes DEF SaveTechnician
    <3>3. CASE SaveOperator(c, u)
      BY <3>1, <3>3, SaveUserDoes DEF SaveOperator
    <3>4. QED
      BY <1>2, <3>2, <3>3
  <2>3. QED
    BY <1>2, <2>1, <2>2, LimitKept DEF SaveTechnician, SaveOperator, counted
<1>3. CASE ChangeOperatorPassword(c, u)
  <2>1. job' \in [Clients -> Job] /\ job'[c].pc # "enter" /\ \A d \in Clients \ {c} : job'[d] = job[d]
    BY <1>3, Ends DEF ChangeOperatorPassword, Idle
  <2>2. SaveUser(c, u, job[c].copy)
    BY <1>3 DEF ChangeOperatorPassword, SaveUser
  <2>3. user' \in [Users -> UserRow] /\ chosen' \in [Users -> Passwords] /\ choices' \in Nat
    BY <1>0, <2>2, SaveUserDoes
  <2>4. QED
    BY <1>3, <2>1, <2>3, LimitKept DEF ChangeOperatorPassword, counted
<1>4. CASE UpdateOperator(c, u)
  <2>1. PICK active \in BOOLEAN, ticked \in SUBSET Keys :
       /\ user' = [user EXCEPT ![u] = [job[c].copy EXCEPT !.is = "present", !.active = active]]
       /\ switched' = [switched EXCEPT ![u] = active]
       /\ posted' = [posted EXCEPT ![u] = ticked]
       /\ job' = [job EXCEPT ![c].pc = "rights", ![c].ticked = ticked, ![c].todo = Keys]
    BY <1>4 DEF UpdateOperator
  <2>2. user' \in [Users -> UserRow]
    BY <1>0, <2>1 DEF UserRow, Existence
  <2>3. job' \in [Clients -> Job] /\ job'[c].pc = "rights" /\ \A d \in Clients \ {c} : job'[d] = job[d]
    BY <2>1, TickingType
  <2>4. switched' \in [Users -> BOOLEAN] /\ posted' \in [Users -> SUBSET Keys]
    BY <2>1
  <2>5. QED
    BY <1>4, <2>2, <2>3, <2>4, LimitKept DEF UpdateOperator, counted, bounds
<1>5. ASSUME NEW k \in Keys, SaveRight(c, u, k) PROVE Typed'
  <2>1. /\ job' \in [Clients -> Job] /\ job'[c].pc # "enter"
        /\ \A d \in Clients \ {c} : job'[d] = job[d]
    <3>1. CASE u \in Present
      <4>1. k \in job[c].todo /\ job[c].pc = "rights"
        BY <1>5 DEF SaveRight, At
      <4>2. job' = [job EXCEPT ![c] = IF job[c].todo = {k} THEN Idle ELSE [job[c] EXCEPT !.todo = @ \ {k}]]
        BY <1>5, <3>1 DEF SaveRight
      <4>3. Idle.pc = "idle"
        BY DEF Idle
      <4>4. QED
        BY <4>1, <4>2, <4>3, SaveRightJob
    <3>2. CASE u \notin Present
      BY <1>5, <3>2, Ends DEF SaveRight, Idle
    <3>3. QED
      BY <3>1, <3>2
  <2>2. rights' \in [Users -> [Keys -> Right]]
    <3>1. Allowed(c, u, k) \in Right
      BY DEF Allowed, Right
    <3>2. rights' = rights \/ rights' = [rights EXCEPT ![u] = [rights[u] EXCEPT ![k] = Allowed(c, u, k)]]
      BY <1>5 DEF SaveRight
    <3>3. [rights[u] EXCEPT ![k] = Allowed(c, u, k)] \in [Keys -> Right]
      BY <3>1
    <3>4. QED
      BY <3>2, <3>3
  <2>3. QED
    BY <1>5, <2>1, <2>2, LimitKept DEF SaveRight, promised, counted, bounds
<1>6. QED
  BY <1>1, <1>2, <1>3, <1>4, <1>5

\* The user an action on a technician's profile is for is a user.
LEMMA TargetType == ASSUME NEW t \in Technicians PROVE Target(t) \in Users
  BY DEF Target, Present

\* What deleting an account leaves.
LEMMA DeleteDoes ==
  ASSUME TypeOK, NEW u \in Users, Delete(u)
  PROVE  /\ user' \in [Users -> UserRow] /\ user'[u].is = "deleted"
         /\ rights' \in [Users -> [Keys -> Right]] /\ rights'[u] = [k \in Keys |-> "none"]
         /\ chosen' \in [Users -> Passwords] /\ switched' \in [Users -> BOOLEAN]
         /\ posted' \in [Users -> SUBSET Keys] /\ posted'[u] = {}
         /\ \A v \in Users \ {u} : /\ user'[v] = user[v] /\ rights'[v] = rights[v]
                                   /\ chosen'[v] = chosen[v] /\ switched'[v] = switched[v]
                                   /\ posted'[v] = posted[v]
<1>1. [NoUser EXCEPT !.is = "deleted"] \in UserRow /\ [NoUser EXCEPT !.is = "deleted"].is = "deleted"
  BY ConstantTypes DEF UserRow, Existence
<1>2. 0 \in Passwords /\ [k \in Keys |-> "none"] \in [Keys -> Right]
  BY DEF Passwords, Right
<1>3. QED
  BY <1>1, <1>2 DEF Delete, TypeOK

\* A row with its switch set is a row: the one in the database, and the copy read.
LEMMA SwitchedRow ==
  ASSUME NEW row \in UserRow, NEW on \in BOOLEAN PROVE [row EXCEPT !.active = on] \in UserRow
  BY DEF UserRow

LEMMA SwitchedType ==
  ASSUME TypeOK, NEW c \in Clients, NEW u \in Users
  PROVE  Switched(c, u) \in UserRow /\ SwitchedInFull(c, u) \in UserRow /\ (~job[c].copy.active) \in BOOLEAN
<1>1. user[u] \in UserRow /\ job[c] \in Job
  BY DEF TypeOK
<1>2. job[c].copy \in UserRow
  BY <1>1 DEF Job
<1>3. (~job[c].copy.active) \in BOOLEAN
  OBVIOUS
<1>4. Switched(c, u) \in UserRow
  BY <1>1, <1>3, SwitchedRow DEF Switched
<1>5. SwitchedInFull(c, u) \in UserRow
  BY <1>2, <1>3, SwitchedRow DEF SwitchedInFull
<1>6. QED
  BY <1>3, <1>4, <1>5

\* Switching and deleting accounts.
LEMMA SwitchTyped ==
  ASSUME Typed, NEW c \in Clients,
         \/ \E u \in Users : \/ ToggleOperator(c, u) \/ SaveToggle(c, u) \/ SaveTechnicianToggle(c, u)
                             \/ Deactivate(c, u) \/ BeginDelete(c, u) \/ DeleteOperator(c, u)
         \/ \E t \in Technicians : ToggleTechnician(c, t) \/ DeleteTechnician(c, t)
  PROVE  Typed'
<1> USE DEF Typed, TypeOK
<1>1. ASSUME NEW u \in Users, ToggleOperator(c, u) PROVE Typed'
  <2>1. job' \in [Clients -> Job] /\ job'[c].pc # "enter" /\ \A d \in Clients \ {c} : job'[d] = job[d]
    BY <1>1, Holds DEF ToggleOperator, Ops
  <2>2. QED
    BY <1>1, <2>1, LimitKept DEF ToggleOperator, Begun, accounts, promised, counted
<1>2. ASSUME NEW t \in Technicians, ToggleTechnician(c, t) PROVE Typed'
  <2>1. job' \in [Clients -> Job] /\ job'[c].pc # "enter" /\ \A d \in Clients \ {c} : job'[d] = job[d]
    BY <1>2, Toggles, TargetType DEF ToggleTechnician
  <2>2. UNCHANGED <<accounts, code, session, promised, counted, choices>> /\ Begun
    BY <1>2 DEF ToggleTechnician
  <2>3. office' \in Nat
    BY <2>2 DEF Begun
  <2>4. EntryBelowLimit'
    BY <2>1, LimitKept
  <2>5. QED
    BY <2>1, <2>2, <2>3, <2>4 DEF accounts, promised, counted
<1>9. ASSUME NEW u \in Users, SaveTechnicianToggle(c, u) PROVE Typed'
  <2>1. job' \in [Clients -> Job] /\ job'[c].pc # "enter" /\ \A d \in Clients \ {c} : job'[d] = job[d]
    BY <1>9, TogglesOn
  <2>2. Switched(c, u) \in UserRow /\ SwitchedInFull(c, u) \in UserRow /\ (~job[c].copy.active) \in BOOLEAN
    BY SwitchedType
  <2>3. user' \in [Users -> UserRow] /\ switched' \in [Users -> BOOLEAN]
    BY <1>9, <2>2 DEF SaveTechnicianToggle
  <2>4. QED
    BY <1>9, <2>1, <2>3, LimitKept DEF SaveTechnicianToggle, counted, bounds
<1>3. ASSUME NEW u \in Users, SaveToggle(c, u) PROVE Typed'
  <2>1. job' \in [Clients -> Job] /\ job'[c].pc # "enter" /\ \A d \in Clients \ {c} : job'[d] = job[d]
    BY <1>3, Ends DEF SaveToggle, Idle
  <2>2. Switched(c, u) \in UserRow /\ Switched(c, u).active \in BOOLEAN
    BY SwitchedType DEF UserRow
  <2>3. user' \in [Users -> UserRow] /\ switched' \in [Users -> BOOLEAN]
    BY <1>3, <2>2 DEF SaveToggle
  <2>4. QED
    BY <1>3, <2>1, <2>3, LimitKept DEF SaveToggle, counted, bounds
<1>4. ASSUME NEW u \in Users, Deactivate(c, u) PROVE Typed'
  <2>1. user' \in [Users -> UserRow] /\ switched' \in [Users -> BOOLEAN]
    BY <1>4 DEF Deactivate, UserRow
  <2>2. QED
    BY <1>4, <2>1 DEF Deactivate, Begun, counted, EntryBelowLimit
<1>5. ASSUME NEW u \in Users, BeginDelete(c, u) PROVE Typed'
  <2>1. job' \in [Clients -> Job] /\ job'[c].pc # "enter" /\ \A d \in Clients \ {c} : job'[d] = job[d]
    BY <1>5, Holds DEF BeginDelete, Ops
  <2>2. rights' \in [Users -> [Keys -> Right]] /\ posted' \in [Users -> SUBSET Keys]
    BY <1>5 DEF BeginDelete, Right
  <2>3. QED
    BY <1>5, <2>1, <2>2, LimitKept DEF BeginDelete, counted, bounds
<1>6. ASSUME NEW u \in Users, DeleteOperator(c, u) PROVE Typed'
  <2>1. job' \in [Clients -> Job] /\ job'[c].pc # "enter" /\ \A d \in Clients \ {c} : job'[d] = job[d]
    BY <1>6, Ends DEF DeleteOperator, Idle
  <2>2. QED
    BY <1>6, <2>1, DeleteDoes, LimitKept DEF DeleteOperator, counted, bounds
<1>7. ASSUME NEW t \in Technicians, DeleteTechnician(c, t) PROVE Typed'
  BY <1>7, DeleteDoes, TargetType DEF DeleteTechnician, counted, bounds, EntryBelowLimit
<1>8. QED
  BY <1>1, <1>2, <1>3, <1>4, <1>5, <1>6, <1>7, <1>9

\* Every step keeps the types.
LEMMA NextTyped == Typed /\ [Next]_vars => Typed'
<1> SUFFICES ASSUME Typed, [Next]_vars PROVE Typed'
  OBVIOUS
<1>1. ASSUME NEW i \in Codes, Grow(i) PROVE Typed'
  <2>1. code' \in [Codes -> CodeRow]
    <3>1. \A j \in Codes : Older(j) \in Age /\ [code[j] EXCEPT !.age = Older(j)] \in CodeRow
      BY DEF Older, CodeRow, Age, Typed, TypeOK
    <3>2. QED
      BY <1>1, <3>1 DEF Grow, Typed, TypeOK
  <2>2. QED
    BY <1>1, <2>1 DEF Grow, accounts, promised, counted, bounds, Typed, TypeOK, EntryBelowLimit
<1>2. ASSUME NEW c \in Clients, Reset(c) \/ Change(c) PROVE Typed'
  BY <1>2, CodeTyped, PasswordTyped DEF Reset, Change
<1>3. ASSUME NEW c \in Clients, Office(c) PROVE Typed'
  BY <1>3, EditTyped, SwitchTyped DEF Office
<1>4. CASE UNCHANGED vars
  BY <1>4 DEF vars, accounts, promised, counted, bounds, Typed, TypeOK, EntryBelowLimit
<1>5. QED
  BY <1>1, <1>2, <1>3, <1>4 DEF Next

\* Users, codes, sessions and requests keep their shape, and no count of
\* attempts passes the limit of its column.
THEOREM AccountsTypeCorrect == Spec => []TypeOK
<1>1. Typed => TypeOK
  BY DEF Typed
<1>2. QED
  BY <1>1, InitTyped, NextTyped, PTL DEF Spec

----------------------------------------------------------------------------
\* The last write stands.  An edit saves a whole copy, so it must be the only
\* request, and the toggle of a technician must not find the row deleted; every other
\* operation names its columns and may overlap any other.

EditsApart == \A op \in Ops \ {"none"} : <<"edit", op>> \in Apart /\ <<op, "edit">> \in Apart
TogglesApart == {<<"toggleTechnician", "delete">>, <<"delete", "toggleTechnician">>} \subseteq Apart

\* While a technician is switched, the row is there and nothing is deleted.
Toggling(c) == job[c].op = "toggleTechnician"
TogglesPresent ==
  \A c \in Clients : Toggling(c) =>
    /\ \E u \in Present : job[c].user = {u}
    /\ \A d \in Clients : job[d].op # "delete"

\* An edit runs alone, on an account that is there and as it was read.
EditsAlone ==
  \A c \in Clients : job[c].op = "edit" =>
    /\ \A d \in Clients \ {c} : job[d].op = "none"
    /\ \E u \in Present : job[c].user = {u} /\ (job[c].pc = "save" => job[c].copy = user[u])

LastWrites == \A u \in Present : user[u].password = chosen[u] /\ user[u].active = switched[u]

\* The pages an operator has are those last ticked, except those a list form
\* under way has still to save.
Saving(c, u) == job[c].op = "edit" /\ job[c].pc = "rights" /\ job[c].user = {u}
SavedSoFar(c, u) ==
  /\ job[c].ticked = posted[u]
  /\ \A k \in Keys \ job[c].todo : rights[u][k] = "yes" <=> k \in posted[u]
PagesSaved ==
  /\ \A u \in Operators, c \in Clients : Saving(c, u) => SavedSoFar(c, u)
  /\ \A u \in Operators : Granted(u) = posted[u] \/ \E c \in Clients : Saving(c, u)

Standing == EditsAlone /\ LastWrites /\ PagesSaved /\ TogglesPresent

NoEdit == \A c \in Clients : job[c].op # "edit"
DeletedKept == \A u \in Users : user[u].is = "deleted" => user'[u].is = "deleted"

\* At the start every account is as the office created it.
LEMMA InitStanding == Init => Standing
<1> SUFFICES ASSUME Init PROVE Standing
  OBVIOUS
<1>1. EditsAlone
  BY DEF Init, EditsAlone, Idle
<1>2. LastWrites
  BY DEF Init, LastWrites, Present, Created
<1>3. \A u \in Users : Granted(u) = {} /\ posted[u] = {}
  BY DEF Init, Granted
<1>4. \A u \in Users, c \in Clients : ~Saving(c, u)
  BY DEF Init, Saving, Idle
<1>5. TogglesPresent
  BY DEF Init, TogglesPresent, Toggling, Idle
<1>6. QED
  BY <1>1, <1>2, <1>3, <1>4, <1>5 DEF Standing, PagesSaved, Operators

\* While any other operation begins or is under way, there is no edit.
LEMMA NoEditBeside ==
  ASSUME EditsApart, EditsAlone, NEW c \in Clients, NEW op \in Ops \ {"none", "edit"},
         MayBegin(c, op) \/ job[c].op = op
  PROVE  NoEdit
<1>1. CASE MayBegin(c, op)
  BY <1>1 DEF MayBegin, EditsApart, NoEdit
<1>2. CASE job[c].op = op
  BY <1>2 DEF EditsAlone, NoEdit
<1>3. QED
  BY <1>1, <1>2

\* The operations of a browser other than the office's edits.
Other(c) ==
  \/ Reset(c) \/ Change(c)
  \/ \E u \in Users : \/ ToggleOperator(c, u) \/ SaveToggle(c, u) \/ SaveTechnicianToggle(c, u)
                      \/ Deactivate(c, u) \/ BeginDelete(c, u) \/ DeleteOperator(c, u)
  \/ \E t \in Technicians : ToggleTechnician(c, t) \/ DeleteTechnician(c, t)

Edits(c) ==
  \E u \in Users :
    \/ BeginEdit(c, u) \/ SaveTechnician(c, u) \/ SaveOperator(c, u) \/ UpdateOperator(c, u)
    \/ ChangeOperatorPassword(c, u) \/ \E k \in Keys : SaveRight(c, u, k)

\* They are all there is.
LEMMA Divided == ASSUME NEW c \in Clients PROVE Reset(c) \/ Change(c) \/ Office(c) <=> Other(c) \/ Edits(c)
  BY DEF Office, Other, Edits

\* Another operation either changes nothing an edit is about, or finds no edit
\* under way and begins none.
Quiet == UNCHANGED <<user, rights, chosen, switched, posted, job>>
WithoutEdit(c) ==
  /\ NoEdit
  /\ job'[c].op # "edit"
  /\ \A d \in Clients \ {c} : job'[d] = job[d]

LEMMA OtherJobs ==
  ASSUME EditsApart, Typed, EditsAlone, NEW c \in Clients, Other(c)
  PROVE  Quiet \/ WithoutEdit(c)
<1> USE DEF Typed, TypeOK
<1>1. ASSUME NEW op \in Ops \ {"none", "edit"}, MayBegin(c, op) \/ job[c].op = op,
             job'[c].op \in {op, "none"}, \A d \in Clients \ {c} : job'[d] = job[d]
      PROVE  WithoutEdit(c)
  BY <1>1, NoEditBeside DEF WithoutEdit
<1>0. Idle.op = "none"
  BY DEF Idle
<1>2. ASSUME NEW op \in Ops \ {"none", "edit"}, job[c].op = op, Done(c)
      PROVE  WithoutEdit(c)
  BY <1>0, <1>1, <1>2, Ends
<1>19. ASSUME NEW op \in Ops \ {"none", "edit"}, MayBegin(c, op), job' = job
       PROVE  WithoutEdit(c)
  BY <1>0, <1>1, <1>19 DEF MayBegin
<1>3. ASSUME NEW op \in Ops \ {"none", "edit"}, NEW u \in Users, MayBegin(c, op),
             Hold(c, op, u) \/ HoldCopy(c, op, u)
      PROVE  WithoutEdit(c)
  BY <1>1, <1>3, Holds
<1>4. ASSUME BeginAsk(c) \/ BeginResend(c) PROVE Quiet \/ WithoutEdit(c)
  <2>1. MayBegin(c, "ask")
    BY <1>4 DEF BeginAsk, BeginResend
  <2>2. CASE job' = job
    BY <1>4, <2>2 DEF BeginAsk, BeginResend, accounts, promised, Quiet
  <2>3. CASE job' = [job EXCEPT ![c] = [Idle EXCEPT !.op = "ask", !.pc = "invalidate"]]
    BY <1>1, <2>1, <2>3, Asks DEF Ops
  <2>4. QED
    BY <1>4, <2>2, <2>3 DEF BeginAsk, BeginResend
<1>5. ASSUME Invalidate(c) PROVE WithoutEdit(c)
  BY <1>1, <1>5, Moves DEF Invalidate, At, Ops, Places
<1>6. ASSUME InsertCode(c) PROVE WithoutEdit(c)
  BY <1>2, <1>6 DEF InsertCode, At, Ops
<1>7. ASSUME NEW i \in Codes, BeginVerify(c, i) PROVE Quiet \/ WithoutEdit(c)
  <2>1. CASE i \in Unused /\ Usable(i)
    <3>1. code[i].attempts \in 0..MaxAttempts
      BY DEF CodeRow
    <3>2. QED
      BY <1>1, <1>7, <2>1, <3>1, Verifies DEF BeginVerify, Ops
  <2>2. CASE ~(i \in Unused /\ Usable(i))
    BY <1>7, <2>2 DEF BeginVerify, accounts, promised, Quiet
  <2>3. QED
    BY <2>1, <2>2
<1>8. ASSUME NEW i \in Codes, Enter(c, i) PROVE WithoutEdit(c)
  <2>1. job[c].op = "verify" /\ (Goto(c, "consume") \/ Done(c))
    BY <1>8 DEF Enter, At
  <2>2. QED
    BY <1>1, <1>2, <2>1, Moves DEF Ops, Places
<1>9. ASSUME NEW i \in Codes, Consume(c, i) PROVE WithoutEdit(c)
  BY <1>2, <1>9 DEF Consume, At, Ops
<1>10. ASSUME Select(c) PROVE Quiet
  BY <1>10 DEF Select, accounts, promised, Quiet
<1>11. ASSUME NEW u \in Users, BeginReset(c, u) PROVE Quiet \/ WithoutEdit(c)
  BY <1>3, <1>11 DEF BeginReset, Ops, accounts, promised, Quiet
<1>12. ASSUME NEW u \in Users, SaveReset(c, u) \/ SaveChange(c, u) PROVE WithoutEdit(c)
  BY <1>2, <1>12 DEF SaveReset, SaveChange, At, Ops
<1>13. ASSUME NEW u \in Users, BeginChange(c, u) \/ ToggleOperator(c, u) \/ BeginDelete(c, u)
       PROVE  WithoutEdit(c)
  BY <1>3, <1>13 DEF BeginChange, ToggleOperator, BeginDelete, Ops
<1>14. ASSUME NEW u \in Users, SaveToggle(c, u) \/ DeleteOperator(c, u) PROVE WithoutEdit(c)
  BY <1>2, <1>14 DEF SaveToggle, DeleteOperator, At, Ops
<1>15. ASSUME NEW u \in Users, Deactivate(c, u) PROVE WithoutEdit(c)
  BY <1>15, <1>19 DEF Deactivate, Ops
<1>16. ASSUME NEW t \in Technicians, ToggleTechnician(c, t) PROVE WithoutEdit(c)
  BY <1>1, <1>16, Toggles, TargetType DEF ToggleTechnician, Ops
<1>20. ASSUME NEW u \in Users, SaveTechnicianToggle(c, u) PROVE WithoutEdit(c)
  <2>1. job[c].op = "toggleTechnician" /\ job'[c].op \in {"toggleTechnician", "none"}
        /\ \A d \in Clients \ {c} : job'[d] = job[d]
    BY <1>20, TogglesOn DEF SaveTechnicianToggle
  <2>2. QED
    BY <1>1, <2>1 DEF Ops
<1>17. ASSUME NEW t \in Technicians, DeleteTechnician(c, t) PROVE WithoutEdit(c)
  BY <1>17, <1>19 DEF DeleteTechnician, Ops
<1>18. QED
  BY <1>4, <1>5, <1>6, <1>7, <1>8, <1>9, <1>10, <1>11, <1>12, <1>13, <1>14, <1>15, <1>16, <1>17,
     <1>20
     DEF Other, Reset, Change

\* What an operation that names its columns leaves: a row written is as was
\* last chosen and switched, and pages are deleted together with what was ticked.
LEMMA OtherRows ==
  ASSUME Typed, LastWrites, TogglesPresent, \A u \in Operators : Granted(u) = posted[u],
         NEW c \in Clients, Other(c)
  PROVE  /\ LastWrites'
         /\ \A u \in Operators : Granted(u)' = posted'[u]
         /\ DeletedKept
<1> USE DEF Typed, TypeOK
<1> DEFINE Goal == LastWrites' /\ (\A u \in Operators : Granted(u)' = posted'[u]) /\ DeletedKept
<1>1. ASSUME UNCHANGED <<user, chosen, switched>> PROVE LastWrites' /\ DeletedKept
  BY <1>1 DEF LastWrites, Present, DeletedKept
<1>2. ASSUME UNCHANGED <<rights, posted>> PROVE \A u \in Operators : Granted(u)' = posted'[u]
  BY <1>2 DEF Granted
<1>3. ASSUME NEW u \in Users, \A v \in Users \ {u} : user'[v] = user[v] /\ chosen'[v] = chosen[v]
                                                      /\ switched'[v] = switched[v],
             user'[u].is = "present" => user'[u].password = chosen'[u] /\ user'[u].active = switched'[u],
             user[u].is = "deleted" => user'[u].is = "deleted"
      PROVE  LastWrites' /\ DeletedKept
  BY <1>3 DEF LastWrites, Present, DeletedKept
<1>4. ASSUME NEW u \in Users, Choose(u), u \in Present,
             user' = [user EXCEPT ![u].password = NextPassword], switched' = switched
      PROVE  LastWrites' /\ DeletedKept
  <2>1. chosen'[u] = NextPassword /\ \A v \in Users \ {u} : chosen'[v] = chosen[v]
    BY <1>4, ChooseType
  <2>2. /\ user'[u].password = NextPassword /\ user'[u].is = user[u].is
        /\ user'[u].active = user[u].active /\ \A v \in Users \ {u} : user'[v] = user[v]
    BY <1>4 DEF UserRow
  <2>3. user[u].active = switched[u]
    BY <1>4 DEF LastWrites
  <2>4. QED
    BY <1>3, <1>4, <2>1, <2>2, <2>3
<1>5. ASSUME NEW u \in Users, SaveReset(c, u) PROVE Goal
  BY <1>1, <1>2, <1>4, <1>5 DEF SaveReset
<1>6. ASSUME NEW u \in Users, SaveChange(c, u) PROVE Goal
  BY <1>1, <1>2, <1>4, <1>6 DEF SaveChange
<1>7. ASSUME NEW u \in Users, SaveToggle(c, u) PROVE Goal
  <2>1. Switched(c, u).password = user[u].password /\ Switched(c, u).is = user[u].is
    BY DEF Switched, UserRow
  <2>2. CASE Switched(c, u).is = "present"
    <3>1. user' = [user EXCEPT ![u] = Switched(c, u)] /\ chosen' = chosen
          /\ switched' = [switched EXCEPT ![u] = Switched(c, u).active]
      BY <1>7, <2>2 DEF SaveToggle
    <3>2. user[u].password = chosen[u]
      BY <2>1, <2>2 DEF LastWrites, Present
    <3>3. LastWrites' /\ DeletedKept
      BY <1>3, <2>1, <2>2, <3>1, <3>2
    <3>4. QED
      BY <1>2, <1>7, <3>3 DEF SaveToggle
  <2>3. CASE Switched(c, u).is # "present"
    BY <1>1, <1>2, <1>7, <2>3 DEF SaveToggle
  <2>4. QED
    BY <2>2, <2>3
<1>8. ASSUME NEW u \in Users, Deactivate(c, u) PROVE Goal
  <2>1. user'[u].password = user[u].password /\ user'[u].is = "present" /\ user'[u].active = FALSE
        /\ \A v \in Users \ {u} : user'[v] = user[v]
    BY <1>8 DEF Deactivate, Present, UserRow
  <2>2. user[u].password = chosen[u] /\ user[u].is = "present"
    BY <1>8 DEF Deactivate, LastWrites, Present
  <2>3. switched'[u] = FALSE /\ chosen' = chosen /\ \A v \in Users \ {u} : switched'[v] = switched[v]
    BY <1>8 DEF Deactivate
  <2>4. LastWrites' /\ DeletedKept
    BY <1>3, <2>1, <2>2, <2>3
  <2>5. QED
    BY <1>2, <1>8, <2>4 DEF Deactivate
<1>9. ASSUME NEW u \in Users, BeginDelete(c, u) PROVE Goal
  <2>1. rights'[u] = [k \in Keys |-> "none"] /\ posted'[u] = {}
        /\ \A v \in Users \ {u} : rights'[v] = rights[v] /\ posted'[v] = posted[v]
    BY <1>9 DEF BeginDelete
  <2>2. \A v \in Operators : Granted(v)' = posted'[v]
    BY <2>1 DEF Granted, Operators
  <2>3. QED
    BY <1>1, <1>9, <2>2 DEF BeginDelete
<1>10. ASSUME NEW u \in Users, Delete(u) PROVE Goal
  <2>1. /\ user'[u].is = "deleted" /\ rights'[u] = [k \in Keys |-> "none"] /\ posted'[u] = {}
        /\ \A v \in Users \ {u} : /\ user'[v] = user[v] /\ rights'[v] = rights[v]
                                  /\ chosen'[v] = chosen[v] /\ switched'[v] = switched[v]
                                  /\ posted'[v] = posted[v]
    BY <1>10, DeleteDoes
  <2>2. LastWrites' /\ DeletedKept
    BY <1>3, <2>1
  <2>3. ASSUME NEW v \in Operators PROVE Granted(v)' = posted'[v]
    <3>1. CASE v = u
      BY <2>1, <3>1 DEF Granted
    <3>2. CASE v # u
      BY <2>1, <3>2 DEF Granted, Operators
    <3>3. QED
      BY <3>1, <3>2
  <2>4. QED
    BY <2>2, <2>3
<1>11. ASSUME UNCHANGED <<user, rights, chosen, switched, posted>> PROVE Goal
  BY <1>1, <1>2, <1>11
<1>12. ASSUME BeginAsk(c) \/ BeginResend(c) \/ Invalidate(c) \/ InsertCode(c) \/ Select(c)
       PROVE  Goal
  BY <1>11, <1>12 DEF BeginAsk, BeginResend, Invalidate, InsertCode, Select, accounts, promised
<1>13. ASSUME NEW i \in Codes, BeginVerify(c, i) \/ Enter(c, i) \/ Consume(c, i) PROVE Goal
  BY <1>11, <1>13 DEF BeginVerify, Enter, Consume, accounts, promised
<1>14. ASSUME NEW u \in Users, BeginReset(c, u) \/ BeginChange(c, u) \/ ToggleOperator(c, u) PROVE Goal
  BY <1>11, <1>14 DEF BeginReset, BeginChange, ToggleOperator, accounts, promised
<1>15. ASSUME NEW t \in Technicians, ToggleTechnician(c, t) PROVE Goal
  BY <1>11, <1>15 DEF ToggleTechnician, accounts, promised
<1>18. ASSUME NEW u \in Users, SaveTechnicianToggle(c, u) PROVE Goal
  <2>1. u \in Present
    BY <1>18 DEF SaveTechnicianToggle, TogglesPresent, Toggling
  <2>2. Switched(c, u).password = user[u].password /\ Switched(c, u).is = "present"
        /\ Switched(c, u).active = ~job[c].copy.active
    BY <2>1 DEF Switched, UserRow, Present
  <2>3. /\ user' = [user EXCEPT ![u] = Switched(c, u)] /\ chosen' = chosen
        /\ switched' = [switched EXCEPT ![u] = ~job[c].copy.active]
        /\ UNCHANGED <<rights, posted>>
    BY <1>18, <2>1 DEF SaveTechnicianToggle
  <2>4. user[u].password = chosen[u]
    BY <2>1 DEF LastWrites
  <2>5. user'[u] = Switched(c, u) /\ switched'[u] = ~job[c].copy.active
        /\ \A v \in Users \ {u} : user'[v] = user[v] /\ switched'[v] = switched[v]
    BY <2>3
  <2>6. user'[u].is = "present" /\ user'[u].password = chosen'[u] /\ user'[u].active = switched'[u]
    BY <2>2, <2>3, <2>4, <2>5
  <2>7. \A v \in Users \ {u} : user'[v] = user[v] /\ chosen'[v] = chosen[v] /\ switched'[v] = switched[v]
    BY <2>3, <2>5
  <2>8. user[u].is # "deleted"
    BY <2>1 DEF Present
  <2>9. LastWrites' /\ DeletedKept
    BY <1>3, <2>6, <2>7, <2>8
  <2>10. QED
    BY <1>2, <2>3, <2>9
<1>16. ASSUME NEW t \in Technicians, DeleteTechnician(c, t) PROVE Goal
  BY <1>10, <1>16, TargetType DEF DeleteTechnician
<1> HIDE DEF Goal
<1>17. Goal
  BY <1>5, <1>6, <1>7, <1>8, <1>9, <1>10, <1>12, <1>13, <1>14, <1>15, <1>16, <1>18
     DEF Other, Reset, Change, DeleteOperator
<1>19. QED
  BY <1>17 DEF Goal

\* Without an edit no page is being saved.
LEMMA NothingSaved ==
  ASSUME NoEdit, PagesSaved
  PROVE  \A u \in Operators : Granted(u) = posted[u]
  BY DEF NoEdit, PagesSaved, Saving

\* No row that is there goes.
PresentKept == \A u \in Users : user[u].is = "present" => user'[u].is = "present"

\* A step of c that deletes nothing, begins no deletion and switches no technician.
LEMMA TogglesFramed ==
  ASSUME TogglesPresent, PresentKept, NEW c \in Clients, \A d \in Clients \ {c} : job'[d] = job[d],
         job'[c] = job[c] \/ job'[c].op \notin {"delete", "toggleTechnician"}
  PROVE  TogglesPresent'
<1>1. SUFFICES ASSUME NEW d \in Clients, Toggling(d)'
               PROVE  /\ \E u \in Present' : job'[d].user = {u}
                      /\ \A e \in Clients : job'[e].op # "delete"
  BY DEF TogglesPresent
<1>2. job'[d] = job[d] /\ Toggling(d)
  BY <1>1 DEF Toggling
<1>3. PICK u \in Present : job[d].user = {u}
  BY <1>2 DEF TogglesPresent
<1>4. u \in Present'
  BY <1>3 DEF PresentKept, Present
<1>5. \A e \in Clients : job[e].op # "delete"
  BY <1>2 DEF TogglesPresent
<1>6. QED
  BY <1>2, <1>3, <1>4, <1>5

\* A step while no technician is switched, by which none begins to be.
LEMMA NoneToggles ==
  ASSUME NEW c \in Clients, \A d \in Clients : ~Toggling(d), \A d \in Clients \ {c} : job'[d] = job[d],
         job'[c] = job[c] \/ job'[c].op # "toggleTechnician"
  PROVE  TogglesPresent'
  BY DEF TogglesPresent, Toggling

\* Asking for codes, entering them, and setting passwords.
LEMMA ResetToggles ==
  ASSUME Typed, TogglesPresent, NEW c \in Clients, Reset(c) \/ Change(c)
  PROVE  TogglesPresent'
<1> USE DEF Typed, TypeOK
<1>0. Idle.op = "none"
  BY DEF Idle
<1>1. ASSUME UNCHANGED user PROVE PresentKept
  BY <1>1 DEF PresentKept
<1>2. CASE BeginAsk(c) \/ BeginResend(c)
  <2>1. UNCHANGED user /\ (job' = job \/ job' = [job EXCEPT ![c] = [Idle EXCEPT !.op = "ask", !.pc = "invalidate"]])
    BY <1>2 DEF BeginAsk, BeginResend, accounts
  <2>2. QED
    BY <1>1, <2>1, Asks, TogglesFramed
<1>3. CASE Invalidate(c)
  BY <1>1, <1>3, Moves, TogglesFramed DEF Invalidate, At, Places, accounts
<1>4. CASE InsertCode(c)
  BY <1>0, <1>1, <1>4, Ends, TogglesFramed DEF InsertCode, accounts
<1>5. ASSUME NEW i \in Codes, BeginVerify(c, i) PROVE TogglesPresent'
  <2>1. UNCHANGED user
    BY <1>5 DEF BeginVerify, accounts
  <2>2. CASE i \in Unused /\ Usable(i)
    <3>1. code[i].attempts \in 0..MaxAttempts
      BY DEF CodeRow
    <3>2. QED
      BY <1>1, <1>5, <2>1, <2>2, <3>1, Verifies, TogglesFramed DEF BeginVerify
  <2>3. CASE ~(i \in Unused /\ Usable(i))
    BY <1>1, <1>5, <2>1, <2>3, TogglesFramed DEF BeginVerify
  <2>4. QED
    BY <2>2, <2>3
<1>6. ASSUME NEW i \in Codes, Enter(c, i) PROVE TogglesPresent'
  <2>1. UNCHANGED user /\ job[c].op = "verify" /\ (Goto(c, "consume") \/ Done(c))
    BY <1>6 DEF Enter, At, accounts
  <2>2. job'[c].op \in {"verify", "none"} /\ \A d \in Clients \ {c} : job'[d] = job[d]
    BY <1>0, <2>1, Moves, Ends DEF Places
  <2>3. QED
    BY <1>1, <2>1, <2>2, TogglesFramed
<1>7. ASSUME NEW i \in Codes, Consume(c, i) PROVE TogglesPresent'
  BY <1>0, <1>1, <1>7, Ends, TogglesFramed DEF Consume, accounts
<1>8. CASE Select(c)
  BY <1>1, <1>8, TogglesFramed DEF Select, accounts
<1>9. ASSUME NEW u \in Users, BeginReset(c, u) PROVE TogglesPresent'
  <2>1. UNCHANGED user /\ (job' = job \/ Hold(c, "reset", u))
    BY <1>9 DEF BeginReset, accounts
  <2>2. QED
    BY <1>1, <2>1, Holds, TogglesFramed DEF Ops
<1>10. ASSUME NEW u \in Users, BeginChange(c, u) PROVE TogglesPresent'
  BY <1>1, <1>10, Holds, TogglesFramed DEF BeginChange, Ops, accounts
<1>11. ASSUME NEW u \in Users, SaveReset(c, u) \/ SaveChange(c, u) PROVE TogglesPresent'
  <2>1. Done(c) /\ (UNCHANGED user \/ user' = [user EXCEPT ![u].password = NextPassword])
    BY <1>11 DEF SaveReset, SaveChange
  <2>2. PresentKept
    <3>1. [user[u] EXCEPT !.password = NextPassword].is = user[u].is
      BY DEF UserRow
    <3>2. user' = user \/ user' = [user EXCEPT ![u] = [user[u] EXCEPT !.password = NextPassword]]
      BY <2>1
    <3>3. \A v \in Users : user'[v].is = user[v].is
      BY <3>1, <3>2
    <3>4. QED
      BY <3>3 DEF PresentKept
  <2>3. QED
    BY <1>0, <2>1, <2>2, Ends, TogglesFramed
<1>12. QED
  BY <1>2, <1>3, <1>4, <1>5, <1>6, <1>7, <1>8, <1>9, <1>10, <1>11 DEF Reset, Change

\* Switching and deleting.
LEMMA SwitchToggles ==
  ASSUME TogglesApart, Typed, TogglesPresent, NEW c \in Clients,
         \/ \E u \in Users : \/ ToggleOperator(c, u) \/ SaveToggle(c, u) \/ SaveTechnicianToggle(c, u)
                             \/ Deactivate(c, u) \/ BeginDelete(c, u) \/ DeleteOperator(c, u)
         \/ \E t \in Technicians : ToggleTechnician(c, t) \/ DeleteTechnician(c, t)
  PROVE  TogglesPresent'
<1> USE DEF Typed, TypeOK
<1>0. Idle.op = "none"
  BY DEF Idle
<1>1. ASSUME MayBegin(c, "delete") \/ job[c].op = "delete" PROVE \A d \in Clients : ~Toggling(d)
  BY <1>1 DEF MayBegin, TogglesApart, TogglesPresent, Toggling
<1>2. ASSUME NEW u \in Users, ToggleOperator(c, u) PROVE TogglesPresent'
  <2>1. PresentKept
    BY <1>2 DEF ToggleOperator, accounts, PresentKept
  <2>2. QED
    BY <1>2, <2>1, Holds, TogglesFramed DEF ToggleOperator, Ops
<1>3. ASSUME NEW u \in Users, SaveToggle(c, u) PROVE TogglesPresent'
  <2>1. Switched(c, u).is = user[u].is
    BY DEF Switched, UserRow
  <2>2. PresentKept
    BY <1>3, <2>1 DEF SaveToggle, PresentKept
  <2>3. QED
    BY <1>0, <1>3, <2>2, Ends, TogglesFramed DEF SaveToggle
<1>4. ASSUME NEW u \in Users, SaveTechnicianToggle(c, u) PROVE TogglesPresent'
  <2>1. Toggling(c) /\ u \in Present
    BY <1>4 DEF SaveTechnicianToggle, TogglesPresent, Toggling
  <2>2. Switched(c, u).is = "present"
    BY <2>1 DEF Switched, UserRow, Present
  <2>3. PresentKept
    BY <1>4, <2>1, <2>2 DEF SaveTechnicianToggle, PresentKept
  <2>4. /\ \A d \in Clients \ {c} : job'[d] = job[d]
        /\ job'[c].op = "none" \/ (job'[c].op = "toggleTechnician" /\ job'[c].user = {u})
    BY <1>4, TogglesOn
  <2>5. \A d \in Clients : job[d].op # "delete"
    BY <2>1 DEF TogglesPresent
  <2>6. ASSUME NEW d \in Clients, Toggling(d)' PROVE \E v \in Present' : job'[d].user = {v}
    <3>1. PICK v \in Present : job'[d].user = {v}
      BY <2>1, <2>4, <2>6 DEF TogglesPresent, Toggling
    <3>2. v \in Present'
      BY <2>3 DEF PresentKept, Present
    <3>3. QED
      BY <3>1, <3>2
  <2>7. QED
    BY <2>4, <2>5, <2>6 DEF TogglesPresent
<1>5. ASSUME NEW u \in Users, Deactivate(c, u) PROVE TogglesPresent'
  <2>1. PresentKept
    BY <1>5 DEF Deactivate, PresentKept, UserRow
  <2>2. QED
    BY <1>5, <2>1, TogglesFramed DEF Deactivate
<1>6. ASSUME NEW u \in Users, BeginDelete(c, u) PROVE TogglesPresent'
  BY <1>1, <1>6, Holds, NoneToggles DEF BeginDelete, Ops
<1>7. ASSUME NEW u \in Users, DeleteOperator(c, u) PROVE TogglesPresent'
  BY <1>0, <1>1, <1>7, Ends, NoneToggles DEF DeleteOperator, At
<1>8. ASSUME NEW t \in Technicians, DeleteTechnician(c, t) PROVE TogglesPresent'
  BY <1>1, <1>8, NoneToggles DEF DeleteTechnician
<1>9. ASSUME NEW t \in Technicians, ToggleTechnician(c, t) PROVE TogglesPresent'
  <2>1. UNCHANGED user /\ MayBegin(c, "toggleTechnician") /\ Target(t) \in Present
    BY <1>9 DEF ToggleTechnician, accounts
  <2>2. job'[c].op = "toggleTechnician" /\ job'[c].user = {Target(t)}
        /\ \A d \in Clients \ {c} : job'[d] = job[d]
    BY <1>9, Toggles, TargetType DEF ToggleTechnician
  <2>3. \A d \in Clients : job'[d].op # "delete"
    BY <2>1, <2>2 DEF MayBegin, TogglesApart
  <2>4. ASSUME NEW d \in Clients, Toggling(d)' PROVE \E v \in Present' : job'[d].user = {v}
    BY <2>1, <2>2, <2>4 DEF TogglesPresent, Toggling, Present
  <2>5. QED
    BY <2>3, <2>4 DEF TogglesPresent
<1>10. QED
  BY <1>2, <1>3, <1>4, <1>5, <1>6, <1>7, <1>8, <1>9

\* A step that touches neither accounts nor requests.
LEMMA QuietStanding == ASSUME Standing, Quiet PROVE Standing' /\ DeletedKept
<1> USE DEF Quiet
<1>1. EditsAlone'
  BY DEF Standing, EditsAlone, Present
<1>2. LastWrites' /\ DeletedKept
  BY DEF Standing, LastWrites, Present, DeletedKept
<1>3. PagesSaved'
  BY DEF Standing, PagesSaved, Granted, Saving, SavedSoFar
<1>4. TogglesPresent'
  BY DEF Standing, TogglesPresent, Toggling, Present
<1>5. QED
  BY <1>1, <1>2, <1>3, <1>4 DEF Standing

\* The operations other than edits.
LEMMA OtherStanding ==
  ASSUME EditsApart, TogglesApart, Typed, Standing, NEW c \in Clients, Other(c)
  PROVE  Standing' /\ DeletedKept
<1>1. CASE Quiet
  BY <1>1, QuietStanding
<1>2. CASE WithoutEdit(c)
  <2>1. /\ LastWrites'
        /\ \A u \in Operators : Granted(u)' = posted'[u]
        /\ DeletedKept
    BY <1>2, OtherRows, NothingSaved DEF WithoutEdit, Standing
  <2>2. EditsAlone'
    BY <1>2 DEF WithoutEdit, NoEdit, EditsAlone
  <2>3. \A d \in Clients : job'[d].op # "edit"
    BY <1>2 DEF WithoutEdit, NoEdit
  <2>4. PagesSaved'
    BY <2>1, <2>3 DEF PagesSaved, Saving
  <2>5. TogglesPresent'
    BY ResetToggles, SwitchToggles DEF Other, Standing
  <2>6. QED
    BY <2>1, <2>2, <2>4, <2>5 DEF Standing
<1>3. QED
  BY <1>1, <1>2, OtherJobs DEF Standing

\* An edit begins alone, with a copy of the row that is there.
LEMMA BeginEditStanding ==
  ASSUME EditsApart, Typed, Standing, NEW c \in Clients, NEW u \in Users, BeginEdit(c, u)
  PROVE  Standing' /\ DeletedKept
<1>1. UNCHANGED <<user, rights, chosen, switched, posted>> /\ u \in Present
      /\ MayBegin(c, "edit") /\ HoldCopy(c, "edit", u)
  BY DEF BeginEdit, accounts, promised
<1>2. /\ job'[c].op = "edit" /\ job'[c].user = {u} /\ job'[c].copy = user[u] /\ job'[c].pc = "save"
      /\ \A d \in Clients \ {c} : job'[d] = job[d]
  BY <1>1, Holds DEF Typed, TypeOK, Ops
<1>3. \A d \in Clients : job[d].op = "none"
  BY <1>1 DEF MayBegin, EditsApart, Typed, TypeOK, Job
<1>4. EditsAlone'
  BY <1>1, <1>2, <1>3 DEF EditsAlone, Present
<1>5. LastWrites' /\ DeletedKept
  BY <1>1 DEF Standing, LastWrites, Present, DeletedKept
<1>6. \A v \in Operators : Granted(v) = posted[v]
  BY <1>3, NothingSaved DEF NoEdit, Standing
<1>7. PagesSaved'
  <2>1. \A d \in Clients : job'[d].op # "edit" \/ job'[d].pc # "rights"
    BY <1>2, <1>3
  <2>2. QED
    BY <1>1, <1>6, <2>1 DEF PagesSaved, Granted, Saving
<1>8. TogglesPresent'
  BY <1>2, <1>3 DEF TogglesPresent, Toggling
<1>9. QED
  BY <1>4, <1>5, <1>7, <1>8 DEF Standing

\* Saving an edit writes the row as chosen and switched last, and ends it.
LEMMA SaveEditStanding ==
  ASSUME Typed, Standing, NEW c \in Clients, NEW u \in Users,
         SaveTechnician(c, u) \/ SaveOperator(c, u) \/ ChangeOperatorPassword(c, u)
  PROVE  Standing' /\ DeletedKept
<1> USE DEF Typed, TypeOK
<1>1. /\ job[c].op = "edit" /\ job[c].pc = "save" /\ job[c].user = {u}
      /\ Done(c) /\ UNCHANGED <<rights, posted>>
  BY DEF SaveTechnician, SaveOperator, ChangeOperatorPassword, At
<1>2. u \in Present /\ job[c].copy = user[u] /\ \A d \in Clients \ {c} : job[d].op = "none"
  BY <1>1 DEF Standing, EditsAlone
<1>3. user[u].password = chosen[u] /\ user[u].active = switched[u]
  BY <1>2 DEF Standing, LastWrites
<1>4. PICK row \in UserRow :
        /\ SaveUser(c, u, row)
        /\ row.password = user[u].password
        /\ row.active = switched'[u]
        /\ \A v \in Users \ {u} : switched'[v] = switched[v]
  <2>1. CASE SaveTechnician(c, u) \/ ChangeOperatorPassword(c, u)
    <3>1. SaveUser(c, u, job[c].copy) /\ switched' = switched
      BY <2>1 DEF SaveTechnician, ChangeOperatorPassword, SaveUser
    <3>2. user[u] \in UserRow
      OBVIOUS
    <3>3. QED
      BY <1>2, <1>3, <3>1, <3>2
  <2>2. CASE SaveOperator(c, u)
    <3>1. PICK active \in BOOLEAN :
            /\ SaveUser(c, u, [job[c].copy EXCEPT !.active = active])
            /\ switched' = [switched EXCEPT ![u] = active]
      BY <2>2 DEF SaveOperator
    <3>2. /\ [user[u] EXCEPT !.active = active] \in UserRow
          /\ [user[u] EXCEPT !.active = active].password = user[u].password
          /\ [user[u] EXCEPT !.active = active].active = active
      BY DEF UserRow
    <3>3. SaveUser(c, u, [user[u] EXCEPT !.active = active])
      BY <1>2, <3>1
    <3>4. QED
      BY <3>1, <3>2, <3>3
  <2>3. QED
    BY <2>1, <2>2
<1>5. /\ \A v \in Users \ {u} : user'[v] = user[v] /\ chosen'[v] = chosen[v]
      /\ user'[u].is = "present" /\ user'[u].active = row.active
      /\ user'[u].password = chosen'[u]
  BY <1>3, <1>4, SaveUserDoes
<1>6. LastWrites' /\ DeletedKept
  BY <1>2, <1>4, <1>5 DEF Standing, LastWrites, Present, DeletedKept
<1>7. \A d \in Clients : job'[d].op = "none"
  BY <1>1, <1>2, Ends DEF Idle
<1>8. EditsAlone'
  BY <1>7 DEF EditsAlone
<1>9. ASSUME NEW v \in Operators PROVE Granted(v)' = posted'[v]
  <2>1. \A d \in Clients : ~Saving(d, v)
    BY <1>1, <1>2 DEF Saving
  <2>2. Granted(v) = posted[v]
    BY <2>1 DEF Standing, PagesSaved
  <2>3. QED
    BY <1>1, <2>2 DEF Granted
<1>10. \A d \in Clients, v \in Operators : ~Saving(d, v)'
  BY <1>7 DEF Saving
<1>11. TogglesPresent'
  BY <1>7 DEF TogglesPresent, Toggling
<1>12. QED
  BY <1>6, <1>8, <1>9, <1>10, <1>11 DEF Standing, PagesSaved

\* The list form writes the row, and keeps what was ticked for the pages.
LEMMA UpdateStanding ==
  ASSUME Typed, Standing, NEW c \in Clients, NEW u \in Users, UpdateOperator(c, u)
  PROVE  Standing' /\ DeletedKept
<1> USE DEF Typed, TypeOK
<1>1. job[c].op = "edit" /\ job[c].pc = "save" /\ job[c].user = {u} /\ UNCHANGED <<rights, chosen>>
  BY DEF UpdateOperator, At
<1>2. u \in Present /\ job[c].copy = user[u] /\ \A d \in Clients \ {c} : job[d].op = "none"
  BY <1>1 DEF Standing, EditsAlone
<1>3. user[u].password = chosen[u]
  BY <1>2 DEF Standing, LastWrites
<1>4. PICK active \in BOOLEAN, ticked \in SUBSET Keys :
        /\ user' = [user EXCEPT ![u] = [job[c].copy EXCEPT !.is = "present", !.active = active]]
        /\ switched' = [switched EXCEPT ![u] = active]
        /\ posted' = [posted EXCEPT ![u] = ticked]
        /\ job' = [job EXCEPT ![c].pc = "rights", ![c].ticked = ticked, ![c].todo = Keys]
  BY DEF UpdateOperator
<1>5. /\ job'[c].op = "edit" /\ job'[c].pc = "rights" /\ job'[c].user = {u}
      /\ job'[c].ticked = ticked /\ job'[c].todo = Keys
      /\ \A d \in Clients \ {c} : job'[d] = job[d]
  BY <1>1, <1>4, TickingType
<1>6. /\ user'[u].is = "present" /\ user'[u].active = active /\ user'[u].password = user[u].password
      /\ \A v \in Users \ {u} : user'[v] = user[v]
  BY <1>2, <1>4 DEF UserRow
<1>7. /\ switched'[u] = active /\ posted'[u] = ticked
      /\ \A v \in Users \ {u} : switched'[v] = switched[v] /\ posted'[v] = posted[v]
  BY <1>4
<1>8. LastWrites' /\ DeletedKept
  <2>1. \A v \in Users \ {u} : user'[v] = user[v] /\ switched'[v] = switched[v] /\ chosen'[v] = chosen[v]
    BY <1>1, <1>6, <1>7
  <2>2. user'[u].password = chosen'[u] /\ user'[u].active = switched'[u]
    BY <1>1, <1>3, <1>6, <1>7
  <2>3. LastWrites'
    BY <2>1, <2>2 DEF Standing, LastWrites, Present
  <2>4. DeletedKept
    BY <1>2, <2>1 DEF DeletedKept, Present
  <2>5. QED
    BY <2>3, <2>4
<1>9. EditsAlone'
  <2>1. \A d \in Clients \ {c} : job'[d].op = "none"
    BY <1>2, <1>5
  <2>2. u \in Present'
    BY <1>6 DEF Present
  <2>3. QED
    BY <1>5, <2>1, <2>2 DEF EditsAlone
<1>10. ASSUME NEW v \in Operators PROVE Granted(v)' = posted'[v] \/ Saving(c, v)'
  <2>1. CASE v = u
    BY <1>5, <1>7, <2>1 DEF Saving
  <2>2. CASE v # u
    <3>1. \A d \in Clients : ~Saving(d, v)
      BY <1>1, <1>2 DEF Saving
    <3>2. Granted(v) = posted[v] /\ v \in Users
      BY <3>1 DEF Standing, PagesSaved, Operators
    <3>3. QED
      BY <1>1, <1>7, <2>2, <3>2 DEF Granted
  <2>3. QED
    BY <2>1, <2>2
<1>11. ASSUME NEW v \in Operators, NEW d \in Clients, Saving(d, v)' PROVE SavedSoFar(d, v)'
  <2>1. d = c /\ v = u
    BY <1>2, <1>5, <1>11 DEF Saving
  <2>2. QED
    BY <1>5, <1>7, <2>1 DEF SavedSoFar
<1>12. TogglesPresent'
  BY <1>2, <1>5 DEF TogglesPresent, Toggling
<1>13. QED
  BY <1>8, <1>9, <1>10, <1>11, <1>12 DEF Standing, PagesSaved

\* Every page saved is as ticked; with the last one the form ends.
LEMMA SaveRightStanding ==
  ASSUME Typed, Standing, NEW c \in Clients, NEW u \in Users, NEW k \in Keys, SaveRight(c, u, k)
  PROVE  Standing' /\ DeletedKept
<1> USE DEF Typed, TypeOK
<1>1. /\ job[c].op = "edit" /\ job[c].pc = "rights" /\ job[c].user = {u} /\ k \in job[c].todo
      /\ UNCHANGED <<user, chosen, switched, posted>>
  BY DEF SaveRight, At, promised
<1>2. u \in Present /\ \A d \in Clients \ {c} : job[d].op = "none"
  BY <1>1 DEF Standing, EditsAlone
<1>3. /\ rights' = [rights EXCEPT ![u][k] = Allowed(c, u, k)]
      /\ job' = [job EXCEPT ![c] = IF job[c].todo = {k} THEN Idle
                                   ELSE [job[c] EXCEPT !.todo = @ \ {k}]]
  BY <1>2 DEF SaveRight
<1>4. LastWrites' /\ DeletedKept
  BY <1>1 DEF Standing, LastWrites, Present, DeletedKept
<1>5. /\ \A d \in Clients \ {c} : job'[d] = job[d]
      /\ job[c].todo = {k} => job'[c] = Idle
      /\ job[c].todo # {k} =>
              /\ job'[c].op = job[c].op /\ job'[c].pc = job[c].pc /\ job'[c].user = job[c].user
              /\ job'[c].ticked = job[c].ticked /\ job'[c].todo = job[c].todo \ {k}
  BY <1>1, <1>3, SaveRightJob
<1>0. Idle.op = "none"
  BY DEF Idle
<1>6. EditsAlone'
  <2>1. \A d \in Clients \ {c} : job'[d].op = "none"
    BY <1>2, <1>5
  <2>2. u \in Present'
    BY <1>1, <1>2 DEF Present
  <2>3. job'[c].op = "none" \/ (job'[c].user = {u} /\ job'[c].pc = "rights")
    BY <1>0, <1>1, <1>5
  <2>4. QED
    BY <2>1, <2>2, <2>3 DEF EditsAlone
<1>7. ASSUME NEW v \in Operators \ {u} PROVE Granted(v)' = posted'[v]
  <2>1. \A d \in Clients : ~Saving(d, v)
    BY <1>1, <1>2 DEF Saving
  <2>2. Granted(v) = posted[v] /\ v \in Users
    BY <2>1 DEF Standing, PagesSaved, Operators
  <2>3. rights'[v] = rights[v]
    BY <1>3, <2>2
  <2>4. QED
    BY <1>1, <2>2, <2>3 DEF Granted
<1>8. ASSUME u \in Operators
      PROVE  /\ Granted(u)' = posted'[u] \/ Saving(c, u)'
             /\ Saving(c, u)' => SavedSoFar(c, u)'
  <2>1. rights'[u][k] = Allowed(c, u, k) /\ \A j \in Keys \ {k} : rights'[u][j] = rights[u][j]
    BY <1>3
  <2>2. SavedSoFar(c, u)
    BY <1>1, <1>8 DEF Standing, PagesSaved, Saving
  <2>3. rights'[u][k] = "yes" <=> k \in posted[u]
    BY <2>1, <2>2 DEF Allowed, SavedSoFar
  <2>4. \A j \in Keys : j \notin job[c].todo \ {k} => (rights'[u][j] = "yes" <=> j \in posted[u])
    BY <2>1, <2>2, <2>3 DEF SavedSoFar
  <2>5. CASE job[c].todo = {k}
    <3>1. \A j \in Keys : rights'[u][j] = "yes" <=> j \in posted[u]
      BY <2>4, <2>5
    <3>2. posted[u] \subseteq Keys /\ posted' = posted
      BY <1>1
    <3>3. Granted(u)' = posted'[u]
      BY <3>1, <3>2 DEF Granted
    <3>4. ~Saving(c, u)'
      BY <1>5, <2>5 DEF Saving, Idle
    <3>5. QED
      BY <3>3, <3>4
  <2>6. CASE job[c].todo # {k}
    <3>1. Saving(c, u)'
      BY <1>1, <1>5, <2>6 DEF Saving
    <3>2. SavedSoFar(c, u)'
      BY <1>1, <1>5, <2>2, <2>4, <2>6 DEF SavedSoFar
    <3>3. QED
      BY <3>1, <3>2
  <2>7. QED
    BY <2>5, <2>6
<1>9. ASSUME NEW v \in Operators, NEW d \in Clients, Saving(d, v)' PROVE SavedSoFar(d, v)'
  <2>1. d = c
    BY <1>2, <1>5, <1>9 DEF Saving
  <2>2. v = u
    BY <1>0, <1>1, <1>5, <1>9, <2>1 DEF Saving
  <2>3. QED
    BY <1>8, <1>9, <2>1, <2>2
<1>10. TogglesPresent'
  BY <1>0, <1>1, <1>2, <1>5 DEF TogglesPresent, Toggling
<1>11. QED
  BY <1>4, <1>6, <1>7, <1>8, <1>9, <1>10 DEF Standing, PagesSaved

\* Every step keeps what was written last and brings no deleted account back.
LEMMA NextStanding ==
  ASSUME EditsApart, TogglesApart, Typed, Standing, [Next]_vars
  PROVE  Standing' /\ DeletedKept
<1>2. ASSUME NEW i \in Codes, Grow(i) PROVE Standing' /\ DeletedKept
  BY <1>2, QuietStanding DEF Grow, accounts, promised, Quiet
<1>3. ASSUME NEW c \in Clients, Reset(c) \/ Change(c) \/ Office(c) PROVE Standing' /\ DeletedKept
  BY <1>3, Divided, OtherStanding, BeginEditStanding, SaveEditStanding, UpdateStanding,
     SaveRightStanding DEF Edits
<1>4. CASE UNCHANGED vars
  BY <1>4, QuietStanding DEF vars, accounts, promised, Quiet
<1>5. QED
  BY <1>2, <1>3, <1>4 DEF Next

\* If the office's edits run alone and it deletes nobody beside the toggle of a technician,
\* passwords, switches and the pages ticked are those last written, however all other
\* requests overlap.
THEOREM LastWritesStand == ASSUME EditsApart, TogglesApart PROVE Spec => []LastWriteStands
<1>1. Standing => LastWriteStands
  <2> SUFFICES ASSUME Standing PROVE LastWriteStands
    OBVIOUS
  <2>1. ASSUME NEW u \in Operators, AtRest(u) PROVE Granted(u) = posted[u]
    BY <2>1 DEF Standing, PagesSaved, Saving, AtRest
  <2>2. QED
    BY <2>1 DEF Standing, LastWrites, LastWriteStands, Granted
<1>2. Typed /\ Standing /\ [Next]_vars => Standing'
  BY NextStanding
<1>3. QED
  BY <1>1, <1>2, InitTyped, InitStanding, NextTyped, PTL DEF Spec

\* With the form's rights an operator gets every page for operators.
LEMMA FormReachesAll ==
  \A request \in Requests : request.page \in StaffPages => GetsPage(TRUE, Listed, request)
  BY PagesAssumption DEF Requests, GetsPage, MayPass, HasRole, EffectiveKey, Listed, Synthetic

\* Under the same conditions an operator between two changes is out when switched off, is
\* shown the pages ticked, and acts on invoices by the rights to act only, whatever the
\* pages and whom they admit.
THEOREM ServedAsTickedAlways == ASSUME EditsApart, TogglesApart PROVE Spec => []ServedAsTicked
<1>1. TypeOK /\ LastWriteStands => ServedAsTicked
  <2>1. SUFFICES ASSUME TypeOK, LastWriteStands, NEW u \in Operators \cap Present, AtRest(u)
                 PROVE  SwitchedOffIsOut(u) /\ ViewingIsNotActing(u) /\ ShownWasTicked(u) /\ TickedIsShown(u)
    BY FormReachesAll DEF ServedAsTicked
  <2>2. user[u].active = switched[u] /\ Granted(u) = posted[u]
    BY <2>1 DEF LastWriteStands, Granted
  <2>3. \A request \in Requests : Gets(u, request) <=>
          switched[u] /\ EffectiveKey(request) \in AutoAllowed \cup posted[u] /\ request.page \in StaffPages
    BY <2>2 DEF Gets, GetsPage, MayPass, HasRole
  <2>4. SwitchedOffIsOut(u)
    BY <2>2, <2>3 DEF SwitchedOffIsOut, MayLogIn
  <2>5. ASSUME NEW request \in Requests, Gets(u, request), request.posts, request.page \in Invoices
        PROVE  posted[u] \cap Synthetic # {} /\ (request.cancels => "admin_invoice_cancel" \in posted[u])
    <3>1. EffectiveKey(request) \in AutoAllowed \cup posted[u]
      BY <2>3, <2>5
    <3>2. /\ request.cancels => EffectiveKey(request) = "admin_invoice_cancel"
          /\ ~request.cancels => EffectiveKey(request) = "admin_invoice_edit"
      BY <2>5 DEF EffectiveKey
    <3>3. AutoAllowed \cap Synthetic = {}
      BY DEF AutoAllowed, Synthetic
    <3>4. QED
      BY <3>1, <3>2, <3>3 DEF Synthetic
  <2>6. ViewingIsNotActing(u)
    BY <2>5 DEF ViewingIsNotActing
  <2>7. \A request \in Requests : ~request.posts => EffectiveKey(request) = request.page
    BY DEF EffectiveKey
  <2>8. ShownWasTicked(u) /\ TickedIsShown(u)
    BY <2>2, <2>3, <2>7 DEF ShownWasTicked, TickedIsShown, MayLogIn
  <2>9. QED
    BY <2>4, <2>6, <2>8
<1>2. QED
  BY <1>1, LastWritesStand, AccountsTypeCorrect, PTL

\* Nor does any request bring a deleted account back.
THEOREM DeletedAreGone == ASSUME EditsApart, TogglesApart PROVE Spec => DeletedStaysDeleted
<1>1. Typed /\ Standing /\ [Next]_vars
        => [\A u \in Users : user[u].is = "deleted" => user'[u].is = "deleted"]_vars
  BY NextStanding DEF DeletedKept
<1>2. Typed /\ Standing /\ [Next]_vars => Standing'
  BY NextStanding
<1>3. QED
  BY <1>1, <1>2, InitTyped, InitStanding, NextTyped, PTL DEF Spec, DeletedStaysDeleted

----------------------------------------------------------------------------
\* One reset for every code.  A code is asked for, and one is entered, by one
\* request at a time; resets, selections and all else may overlap anything.

CodesApart == {<<"ask", "ask">>, <<"verify", "verify">>} \subseteq Apart

OneEach ==
  \A c, d \in Clients : job[c].op \in {"ask", "verify"} /\ job[d].op = job[c].op => c = d

\* Codes are made in the order of their ids, and their attempts are counted.
MadeInOrder == \E n \in 0..MaxCodes : Made = 1..n
Counted == \A i \in Codes : entries[i] = IF i \in Made THEN code[i].attempts ELSE 0
EntryCurrent ==
  \A c \in Clients : job[c].op = "verify" =>
    \E i \in Made : /\ job[c].code = {i}
                    /\ job[c].pc = "enter" => job[c].attempts = code[i].attempts

\* Between the two halves of asking there is no unused code.
OneUnused ==
  /\ \A i, j \in Unused : i = j
  /\ \A c \in Clients : job[c].op = "ask" /\ job[c].pc = "insert" => Unused = {}

\* The codes that were right are used up, and none is being entered again.
WereRight(V) ==
  /\ Cardinality(V) = verified
  /\ \A i \in V : code[i].is = "used"
  /\ \A c \in Clients : job[c].op = "verify" => job[c].code \cap V = {}
RightCodes == \E V \in SUBSET Made : WereRight(V)

Coded == OneEach /\ MadeInOrder /\ Counted /\ EntryCurrent /\ OneUnused /\ RightCodes

\* A set of codes is finite.
LEMMA CodesFinite == IsFiniteSet(Codes) /\ \A V \in SUBSET Codes : IsFiniteSet(V)
<1>1. 1 \in Int /\ MaxCodes \in Int
  BY ConstantTypes
<1>2. IsFiniteSet(1..MaxCodes)
  BY <1>1, FS_Interval
<1>3. QED
  BY <1>2, FS_Subset DEF Codes

\* At the start no code was made.
LEMMA InitCoded == Init => Coded
<1> SUFFICES ASSUME Init PROVE Coded
  OBVIOUS
<1>1. Made = {} /\ Unused = {}
  BY DEF Init, Made, Unused, NoCode
<1>2. OneEach /\ EntryCurrent /\ OneUnused /\ Counted
  BY <1>1 DEF Init, Idle, OneEach, EntryCurrent, OneUnused, Counted
<1>3. MadeInOrder
  <2>1. 1..0 = {} /\ 0 \in 0..MaxCodes
    OBVIOUS
  <2>2. QED
    BY <1>1, <2>1 DEF MadeInOrder
<1>4. RightCodes
  <2>1. WereRight({})
    BY FS_EmptySet DEF WereRight, Init
  <2>2. QED
    BY <2>1 DEF RightCodes
<1>5. QED
  BY <1>2, <1>3, <1>4 DEF Coded

\* A step of c that leaves the codes as they are, and by which c asks, or enters a
\* code, only if no other browser does.
LEMMA CodesFramed ==
  ASSUME Coded, NEW c \in Clients, UNCHANGED <<code, entries, verified>>,
         \A d \in Clients \ {c} : job'[d] = job[d],
         job'[c].op \in {"ask", "verify"} => \A d \in Clients \ {c} : job[d].op # job'[c].op,
         job'[c].op = "ask" => job'[c].pc # "insert",
         job'[c].op = "verify" =>
           \/ \E i \in Unused : job'[c].code = {i} /\ job'[c].attempts = code[i].attempts
           \/ job[c].op = "verify" /\ job'[c].code = job[c].code /\ job'[c].pc # "enter"
  PROVE  Coded'
<1>1. Made' = Made /\ Unused' = Unused /\ Unused \subseteq Made
  BY DEF Made, Unused
<1>2. OneEach' /\ MadeInOrder' /\ Counted' /\ OneUnused'
  BY <1>1 DEF Coded, OneEach, MadeInOrder, Counted, OneUnused
<1>3. EntryCurrent'
  BY <1>1 DEF Coded, EntryCurrent
<1>4. RightCodes'
  <2>1. PICK V \in SUBSET Made : WereRight(V)
    BY DEF Coded, RightCodes
  <2>2. \A i \in Unused : i \notin V
    BY <2>1 DEF WereRight, Unused
  <2>3. job'[c].op = "verify" => job'[c].code \cap V = {}
    BY <2>1, <2>2 DEF WereRight
  <2>4. WereRight(V)'
    BY <2>1, <2>3 DEF WereRight
  <2>5. QED
    BY <1>1, <2>4 DEF RightCodes
<1>5. QED
  BY <1>2, <1>3, <1>4 DEF Coded

\* A browser that begins to ask or to enter a code is the only one to do so.
LEMMA BeginsAlone ==
  ASSUME CodesApart, NEW c \in Clients, NEW op \in {"ask", "verify"}, MayBegin(c, op)
  PROVE  \A d \in Clients : job[d].op # op
  BY DEF CodesApart, MayBegin

\* Whatever else a browser does leaves codes and sessions alone.
LEMMA ElseDoes ==
  ASSUME Typed, NEW c \in Clients, Change(c) \/ Office(c)
  PROVE  /\ UNCHANGED <<code, session, entries, verified, resets>>
         /\ job'[c].op \notin {"ask", "verify", "reset"}
         /\ \A d \in Clients \ {c} : job'[d] = job[d]
<1> USE DEF Typed, TypeOK
<1> DEFINE Goal == /\ UNCHANGED <<code, session, entries, verified, resets>>
                   /\ job'[c].op \notin {"ask", "verify", "reset"}
                   /\ \A d \in Clients \ {c} : job'[d] = job[d]
<1>0. Idle.op = "none"
  BY DEF Idle
<1>1. ASSUME NEW u \in Users, SaveChange(c, u) \/ SaveTechnician(c, u) \/ SaveOperator(c, u)
             \/ ChangeOperatorPassword(c, u) \/ SaveToggle(c, u) \/ DeleteOperator(c, u)
      PROVE  Goal
  <2>1. Done(c) /\ UNCHANGED <<code, session, entries, verified, resets>>
    BY <1>1 DEF SaveChange, SaveTechnician, SaveOperator, ChangeOperatorPassword, SaveToggle,
                DeleteOperator, counted
  <2>2. QED
    BY <1>0, <2>1, Ends
<1>2. ASSUME NEW u \in Users, BeginChange(c, u) \/ BeginEdit(c, u) \/ ToggleOperator(c, u)
             \/ BeginDelete(c, u)
      PROVE  Goal
  <2>1. /\ \E op \in {"change", "edit", "toggle", "delete"} : Hold(c, op, u) \/ HoldCopy(c, op, u)
        /\ UNCHANGED <<code, session, entries, verified, resets>>
    BY <1>2 DEF BeginChange, BeginEdit, ToggleOperator, BeginDelete, counted
  <2>2. {"change", "edit", "toggle", "delete"} \subseteq Ops
    BY DEF Ops
  <2>3. QED
    BY <2>1, <2>2, Holds
<1>3. ASSUME MayBegin(c, "toggle") \/ MayBegin(c, "delete"), job' = job,
             UNCHANGED <<code, session, entries, verified, resets>>
      PROVE  Goal
  BY <1>0, <1>3 DEF MayBegin
<1>4. ASSUME NEW u \in Users, Deactivate(c, u) PROVE Goal
  BY <1>3, <1>4 DEF Deactivate, counted
<1>5. ASSUME NEW t \in Technicians, ToggleTechnician(c, t) PROVE Goal
  BY <1>5, Toggles, TargetType DEF ToggleTechnician, counted
<1>11. ASSUME NEW u \in Users, SaveTechnicianToggle(c, u) PROVE Goal
  BY <1>11, TogglesOn DEF SaveTechnicianToggle, counted
<1>6. ASSUME NEW t \in Technicians, DeleteTechnician(c, t) PROVE Goal
  BY <1>3, <1>6 DEF DeleteTechnician, counted
<1>7. ASSUME NEW u \in Users, UpdateOperator(c, u) PROVE Goal
  <2>1. PICK ticked \in SUBSET Keys :
          job' = [job EXCEPT ![c].pc = "rights", ![c].ticked = ticked, ![c].todo = Keys]
    BY <1>7 DEF UpdateOperator
  <2>2. job'[c].op = "edit" /\ \A d \in Clients \ {c} : job'[d] = job[d]
    BY <1>7, <2>1, TickingType DEF UpdateOperator, At
  <2>3. QED
    BY <1>7, <2>2 DEF UpdateOperator, counted
<1>8. ASSUME NEW u \in Users, NEW k \in Keys, SaveRight(c, u, k) PROVE Goal
  <2>1. job[c].op = "edit" /\ k \in job[c].todo /\ UNCHANGED <<code, session, entries, verified, resets>>
    BY <1>8 DEF SaveRight, At, counted
  <2>2. CASE u \in Present
    <3>1. job' = [job EXCEPT ![c] = IF job[c].todo = {k} THEN Idle
                                   ELSE [job[c] EXCEPT !.todo = @ \ {k}]]
      BY <1>8, <2>2 DEF SaveRight
    <3>2. QED
      BY <1>0, <2>1, <3>1, SaveRightJob
  <2>3. CASE u \notin Present
    BY <1>0, <1>8, <2>1, <2>3, Ends DEF SaveRight
  <2>4. QED
    BY <2>2, <2>3
<1> HIDE DEF Goal
<1>9. Goal
  BY <1>1, <1>2, <1>4, <1>5, <1>6, <1>7, <1>8, <1>11 DEF Change, Office
<1>10. QED
  BY <1>9 DEF Goal

\* Asking for a code: the unused ones are used up first, then a new one is made.
LEMMA AskCoded ==
  ASSUME CodesApart, Typed, Coded, NEW c \in Clients,
         BeginAsk(c) \/ BeginResend(c) \/ Invalidate(c) \/ InsertCode(c)
  PROVE  Coded'
<1> USE DEF Typed, TypeOK
<1>0. Idle.op = "none"
  BY DEF Idle
<1>1. CASE BeginAsk(c) \/ BeginResend(c)
  <2>1. MayBegin(c, "ask") /\ UNCHANGED <<code, entries, verified>>
    BY <1>1 DEF BeginAsk, BeginResend, counted
  <2>2. CASE job' = job
    BY <1>0, <2>1, <2>2, CodesFramed DEF MayBegin
  <2>3. CASE job' = [job EXCEPT ![c] = [Idle EXCEPT !.op = "ask", !.pc = "invalidate"]]
    BY <2>1, <2>3, Asks, BeginsAlone, CodesFramed
  <2>4. QED
    BY <1>1, <2>2, <2>3 DEF BeginAsk, BeginResend
<1>2. CASE Invalidate(c)
  <2>1. /\ job'[c].op = "ask" /\ job[c].op = "ask" /\ \A d \in Clients \ {c} : job'[d] = job[d]
        /\ UNCHANGED <<entries, verified>>
    BY <1>2, Moves DEF Invalidate, At, Places, counted
  <2>2. \A i \in Codes : /\ code'[i].is = Invalidated(i)
                         /\ code'[i].attempts = code[i].attempts
    BY <1>2 DEF Invalidate, CodeRow
  <2>3. Made' = Made /\ Unused' = {}
    BY <2>2 DEF Made, Unused, Invalidated, CodeRow
  <2>4. OneEach' /\ MadeInOrder' /\ OneUnused'
    <3>1. OneEach'
      BY <2>1 DEF Coded, OneEach
    <3>2. MadeInOrder'
      BY <2>3 DEF Coded, MadeInOrder
    <3>3. OneUnused'
      BY <2>3 DEF OneUnused
    <3>4. QED
      BY <3>1, <3>2, <3>3
  <2>5. Counted'
    BY <2>1, <2>2, <2>3 DEF Coded, Counted
  <2>6. EntryCurrent'
    <3>1. SUFFICES ASSUME NEW d \in Clients, job'[d].op = "verify"
                   PROVE  \E i \in Made' : /\ job'[d].code = {i}
                                           /\ job'[d].pc = "enter" =>
                                                job'[d].attempts = code'[i].attempts
      BY DEF EntryCurrent
    <3>2. job'[d] = job[d]
      BY <2>1, <3>1
    <3>3. PICK i \in Made : /\ job[d].code = {i}
                            /\ job[d].pc = "enter" => job[d].attempts = code[i].attempts
      BY <3>1, <3>2 DEF Coded, EntryCurrent
    <3>4. i \in Codes
      BY DEF Made
    <3>5. QED
      BY <2>2, <2>3, <3>2, <3>3, <3>4
  <2>7. RightCodes'
    <3>1. PICK V \in SUBSET Made : WereRight(V)
      BY DEF Coded, RightCodes
    <3>2. WereRight(V)'
      BY <2>1, <2>2, <3>1 DEF WereRight, Invalidated, Made
    <3>3. QED
      BY <2>3, <3>2 DEF RightCodes
  <2>8. QED
    BY <2>4, <2>5, <2>6, <2>7 DEF Coded
<1>3. CASE InsertCode(c)
  <2> DEFINE i == Cardinality(Made) + 1
  <2>1. /\ job'[c].op = "none" /\ job[c].op = "ask" /\ job[c].pc = "insert"
        /\ \A d \in Clients \ {c} : job'[d] = job[d]
        /\ UNCHANGED <<entries, verified>>
        /\ i \in Codes /\ code' = [code EXCEPT ![i] = [NoCode EXCEPT !.is = "unused"]]
    BY <1>0, <1>3, Ends DEF InsertCode, At, counted
  <2>2. PICK n \in 0..MaxCodes : Made = 1..n
    BY DEF Coded, MadeInOrder
  <2>3. Cardinality(1..n) = n
    BY <2>2, FS_Interval
  <2>4. i = n + 1
    BY <2>2, <2>3
  <2> HIDE DEF i
  <2>5. i \notin Made /\ i \in 1..MaxCodes
    BY <2>1, <2>2, <2>4 DEF Codes
  <2>6. /\ code'[i].is = "unused" /\ code'[i].attempts = 0
        /\ \A j \in Codes \ {i} : code'[j] = code[j]
    BY <2>1 DEF NoCode
  <2>7. Unused = {}
    BY <2>1 DEF Coded, OneUnused
  <2>8. Made' = Made \cup {i} /\ Unused' = {i}
    BY <2>1, <2>6, <2>7 DEF Made, Unused
  <2>9. MadeInOrder'
    <3>1. 1..(n + 1) = (1..n) \cup {n + 1} /\ n + 1 \in 0..MaxCodes
      BY <2>2, <2>4, <2>5
    <3>2. QED
      BY <2>2, <2>4, <2>8, <3>1 DEF MadeInOrder
  <2>10. OneEach' /\ OneUnused'
    BY <2>1, <2>8 DEF Coded, OneEach, OneUnused
  <2>11. Counted'
    BY <2>1, <2>5, <2>6, <2>8 DEF Coded, Counted
  <2>12. EntryCurrent'
    <3>1. ASSUME NEW d \in Clients, job'[d].op = "verify"
          PROVE  \E j \in Made' : job'[d].code = {j}
                                   /\ (job'[d].pc = "enter" => job'[d].attempts = code'[j].attempts)
      <4>1. job'[d] = job[d]
        BY <2>1, <3>1
      <4>2. PICK j \in Made : job[d].code = {j}
                               /\ (job[d].pc = "enter" => job[d].attempts = code[j].attempts)
        BY <3>1, <4>1 DEF Coded, EntryCurrent
      <4>3. j # i /\ j \in Codes
        BY <2>5 DEF Made
      <4>4. QED
        BY <2>6, <2>8, <4>1, <4>2, <4>3
    <3>2. QED
      BY <3>1 DEF EntryCurrent
  <2>13. RightCodes'
    <3>1. PICK V \in SUBSET Made : WereRight(V)
      BY DEF Coded, RightCodes
    <3>2. \A j \in V : j \in Codes /\ j # i
      BY <2>5 DEF Made
    <3>3. WereRight(V)'
      BY <2>1, <2>6, <3>1, <3>2 DEF WereRight
    <3>4. QED
      BY <2>8, <3>3 DEF RightCodes
  <2>14. QED
    BY <2>9, <2>10, <2>11, <2>12, <2>13 DEF Coded
<1>4. QED
  BY <1>1, <1>2, <1>3

\* Entering a code: an attempt is counted on the row as read, a right one uses it up.
LEMMA VerifyCoded ==
  ASSUME CodesApart, Typed, Coded, NEW c \in Clients, NEW i \in Codes,
         BeginVerify(c, i) \/ Enter(c, i) \/ Consume(c, i)
  PROVE  Coded'
<1> USE DEF Typed, TypeOK
<1>0. Idle.op = "none"
  BY DEF Idle
<1>1. CASE BeginVerify(c, i)
  <2>1. MayBegin(c, "verify") /\ UNCHANGED <<code, entries, verified>>
    BY <1>1 DEF BeginVerify, counted
  <2>2. CASE i \in Unused /\ Usable(i)
    <3>1. code[i].attempts \in 0..MaxAttempts
      BY DEF CodeRow
    <3>2. /\ job'[c].op = "verify" /\ job'[c].code = {i} /\ job'[c].attempts = code[i].attempts
          /\ \A d \in Clients \ {c} : job'[d] = job[d]
      <4>1. job' = [job EXCEPT ![c] = [Idle EXCEPT !.op = "verify", !.pc = "enter", !.code = {i},
                                         !.attempts = code[i].attempts]]
        BY <1>1, <2>2 DEF BeginVerify
      <4>2. PICK n \in 0..MaxAttempts : n = code[i].attempts
        BY <3>1
      <4>3. job' = [job EXCEPT ![c] = [Idle EXCEPT !.op = "verify", !.pc = "enter", !.code = {i},
                                         !.attempts = n]]
        BY <4>1, <4>2
      <4>4. /\ job'[c].op = "verify" /\ job'[c].code = {i} /\ job'[c].attempts = n
            /\ \A d \in Clients \ {c} : job'[d] = job[d]
        BY <4>3, Verifies
      <4>5. QED
        BY <4>2, <4>4
    <3>3. QED
      BY <2>1, <2>2, <3>2, BeginsAlone, CodesFramed
  <2>3. CASE ~(i \in Unused /\ Usable(i))
    BY <1>0, <1>1, <2>1, <2>3, CodesFramed DEF BeginVerify, MayBegin
  <2>4. QED
    BY <2>2, <2>3
<1>2. ASSUME job[c].op = "verify", job[c].code = {i}
      PROVE  i \in Made /\ \A d \in Clients \ {c} : job[d].op # "verify"
  BY <1>2 DEF Coded, EntryCurrent, OneEach
<1>3. CASE Enter(c, i)
  <2>1. /\ job[c].op = "verify" /\ job[c].code = {i} /\ job[c].pc = "enter"
        /\ verified' = verified
        /\ Goto(c, "consume") \/ Done(c)
    BY <1>3 DEF Enter, At
  <2>2. /\ \A d \in Clients \ {c} : job'[d] = job[d]
        /\ \/ job'[c].op = "none"
           \/ job'[c].op = "verify" /\ job'[c].code = {i} /\ job'[c].pc = "consume"
    <3>1. CASE Goto(c, "consume")
      <4>1. "consume" \in Places /\ job \in [Clients -> Job]
        BY DEF Places
      <4>2. /\ job'[c].op = job[c].op /\ job'[c].code = job[c].code /\ job'[c].pc = "consume"
            /\ \A d \in Clients \ {c} : job'[d] = job[d]
        BY <3>1, <4>1, Moves
      <4>3. QED
        BY <2>1, <4>2
    <3>2. CASE Done(c)
      BY <1>0, <3>2, Ends
    <3>3. QED
      BY <2>1, <3>1, <3>2
  <2>3. i \in Made /\ job[c].attempts = code[i].attempts
        /\ \A d \in Clients \ {c} : job[d].op # "verify"
    BY <1>2, <2>1 DEF Coded, EntryCurrent
  <2>4. CASE code[i].age = "expired"
    <3>1. UNCHANGED <<code, entries>>
      BY <1>3, <2>4 DEF Enter
    <3>2. QED
      BY <2>1, <2>2, <2>3, <3>1, CodesFramed
  <2>5. CASE code[i].age # "expired"
    <3>1. /\ code' = [code EXCEPT ![i].attempts = job[c].attempts + 1]
          /\ entries' = [entries EXCEPT ![i] = @ + 1]
      BY <1>3, <2>5 DEF Enter
    <3>2. /\ \A j \in Codes : code'[j].is = code[j].is
          /\ code'[i].attempts = code[i].attempts + 1
          /\ \A j \in Codes \ {i} : code'[j] = code[j]
      BY <2>3, <3>1 DEF CodeRow
    <3>3. Made' = Made /\ Unused' = Unused
      BY <3>2 DEF Made, Unused
    <3>4. OneEach' /\ MadeInOrder' /\ OneUnused'
      <4>1. OneEach'
        BY <2>1, <2>2, <2>3 DEF Coded, OneEach
      <4>2. MadeInOrder'
        BY <3>3 DEF Coded, MadeInOrder
      <4>3. OneUnused'
        <5>1. \A d \in Clients : job'[d].op = "ask" => job'[d] = job[d]
          BY <2>2
        <5>2. QED
          BY <3>3, <5>1 DEF Coded, OneUnused
      <4>4. QED
        BY <4>1, <4>2, <4>3
    <3>5. Counted'
      <4>1. entries'[i] = entries[i] + 1 /\ \A j \in Codes \ {i} : entries'[j] = entries[j]
        BY <3>1
      <4>2. entries[i] = code[i].attempts
        BY <2>3 DEF Coded, Counted
      <4>3. QED
        BY <2>3, <3>2, <3>3, <4>1, <4>2 DEF Coded, Counted
    <3>6. EntryCurrent'
      BY <2>2, <2>3, <3>3 DEF EntryCurrent
    <3>7. RightCodes'
      <4>1. PICK V \in SUBSET Made : WereRight(V)
        BY DEF Coded, RightCodes
      <4>2. \A d \in Clients : job'[d].op = "verify" => job'[d].code \cap V = {}
        BY <2>1, <2>2, <4>1 DEF WereRight
      <4>3. WereRight(V)'
        BY <2>1, <3>2, <4>1, <4>2 DEF WereRight, Made
      <4>4. QED
        BY <3>3, <4>3 DEF RightCodes
    <3>8. QED
      BY <3>4, <3>5, <3>6, <3>7 DEF Coded
  <2>6. QED
    BY <2>4, <2>5
<1>4. CASE Consume(c, i)
  <2>1. /\ job[c].op = "verify" /\ job[c].code = {i} /\ job'[c].op = "none"
        /\ \A d \in Clients \ {c} : job'[d] = job[d]
        /\ entries' = entries /\ verified' = verified + 1
        /\ code' = [code EXCEPT ![i].is = Consumed(i)]
    BY <1>0, <1>4, Ends DEF Consume, At
  <2>2. i \in Made /\ \A d \in Clients \ {c} : job[d].op # "verify"
    BY <1>2, <2>1
  <2>3. /\ code'[i].is = "used" /\ code'[i].attempts = code[i].attempts
        /\ \A j \in Codes \ {i} : code'[j] = code[j]
    BY <2>1 DEF CodeRow, Consumed
  <2>4. Made' = Made /\ Unused' \subseteq Unused
    BY <2>2, <2>3 DEF Made, Unused
  <2>5. OneEach' /\ MadeInOrder' /\ EntryCurrent'
    <3>1. OneEach'
      BY <2>1, <1>0 DEF Coded, OneEach
    <3>2. MadeInOrder'
      BY <2>4 DEF Coded, MadeInOrder
    <3>3. \A d \in Clients : job'[d].op # "verify"
      BY <2>1, <2>2, <1>0
    <3>4. QED
      BY <3>1, <3>2, <3>3 DEF EntryCurrent
  <2>6. OneUnused'
    BY <2>1, <2>4 DEF Coded, OneUnused
  <2>7. Counted'
    BY <2>1, <2>3, <2>4 DEF Coded, Counted
  <2>8. RightCodes'
    <3>1. PICK V \in SUBSET Made : WereRight(V)
      BY DEF Coded, RightCodes
    <3>2. i \notin V
      BY <2>1, <3>1 DEF WereRight
    <3>3. IsFiniteSet(V)
      BY CodesFinite DEF Made
    <3>4. Cardinality(V \cup {i}) = verified + 1
      BY <3>1, <3>2, <3>3, FS_AddElement DEF WereRight
    <3>5. \A j \in V \cup {i} : code'[j].is = "used"
      BY <2>3, <3>1 DEF WereRight, Made
    <3>6. \A d \in Clients : job'[d].op # "verify"
      BY <2>1, <2>2
    <3>7. WereRight(V \cup {i})'
      BY <2>1, <3>4, <3>5, <3>6 DEF WereRight
    <3>8. QED
      BY <2>2, <2>4, <3>7 DEF RightCodes
  <2>9. QED
    BY <2>5, <2>6, <2>7, <2>8 DEF Coded
<1>5. QED
  BY <1>1, <1>3, <1>4

\* Selecting a user, resetting, and time passing.
LEMMA RestCoded ==
  ASSUME Typed, Coded, NEW c \in Clients,
         \/ Select(c) \/ \E u \in Users : BeginReset(c, u) \/ SaveReset(c, u)
         \/ Change(c) \/ Office(c)
  PROVE  Coded'
<1> USE DEF Typed, TypeOK
<1>0. Idle.op = "none"
  BY DEF Idle
<1>1. CASE Select(c)
  BY <1>0, <1>1, CodesFramed DEF Select, counted
<1>2. ASSUME NEW u \in Users, BeginReset(c, u) PROVE Coded'
  <2>1. UNCHANGED <<code, entries, verified>> /\ MayBegin(c, "reset")
        /\ (Hold(c, "reset", u) \/ job' = job)
    BY <1>2 DEF BeginReset, counted
  <2>2. CASE Hold(c, "reset", u)
    BY <2>1, <2>2, Holds, CodesFramed DEF Ops
  <2>3. CASE job' = job
    BY <1>0, <2>1, <2>3, CodesFramed DEF MayBegin
  <2>4. QED
    BY <2>1, <2>2, <2>3
<1>3. ASSUME NEW u \in Users, SaveReset(c, u) PROVE Coded'
  BY <1>0, <1>3, Ends, CodesFramed DEF SaveReset
<1>4. CASE Change(c) \/ Office(c)
  BY <1>4, ElseDoes, CodesFramed
<1>5. QED
  BY <1>1, <1>2, <1>3, <1>4

\* Codes grow older.
LEMMA GrowCoded ==
  ASSUME Typed, Coded, NEW i \in Codes, Grow(i)
  PROVE  Coded'
<1>1. /\ \A j \in Codes : code'[j].is = code[j].is /\ code'[j].attempts = code[j].attempts
      /\ UNCHANGED <<entries, verified, job>>
  BY DEF Grow, Typed, TypeOK, CodeRow, counted
<1>2. Made' = Made /\ Unused' = Unused
  BY <1>1 DEF Made, Unused
<1>3. OneEach' /\ MadeInOrder' /\ OneUnused'
  <2>1. OneEach'
    BY <1>1 DEF Coded, OneEach
  <2>2. MadeInOrder'
    BY <1>2 DEF Coded, MadeInOrder
  <2>3. OneUnused'
    BY <1>1, <1>2 DEF Coded, OneUnused
  <2>4. QED
    BY <2>1, <2>2, <2>3
<1>4. Counted' /\ EntryCurrent'
  BY <1>1, <1>2 DEF Coded, Counted, EntryCurrent, Made
<1>5. RightCodes'
  <2>1. PICK V \in SUBSET Made : WereRight(V)
    BY DEF Coded, RightCodes
  <2>2. WereRight(V)'
    BY <1>1, <2>1 DEF WereRight, Made
  <2>3. QED
    BY <1>2, <2>2 DEF RightCodes
<1>6. QED
  BY <1>3, <1>4, <1>5 DEF Coded

\* Every step keeps what is known of the codes.
LEMMA NextCoded == ASSUME CodesApart, Typed, Coded, [Next]_vars PROVE Coded'
<1>1. CASE UNCHANGED vars
  <2>1. UNCHANGED <<code, job, entries, verified>>
    BY <1>1 DEF vars, counted
  <2>2. OneEach' /\ MadeInOrder' /\ OneUnused' /\ Counted' /\ EntryCurrent'
    BY <2>1 DEF Coded, OneEach, MadeInOrder, OneUnused, Counted, EntryCurrent, Made, Unused
  <2>3. RightCodes'
    BY <2>1 DEF Coded, RightCodes, WereRight, Made
  <2>4. QED
    BY <2>2, <2>3 DEF Coded
<1>2. ASSUME NEW c \in Clients, Reset(c) \/ Change(c) \/ Office(c) PROVE Coded'
  BY <1>2, AskCoded, VerifyCoded, RestCoded DEF Reset
<1>3. QED
  BY <1>1, <1>2, GrowCoded DEF Next

\* The browsers that may still set a password with a code that was right.
Entitled == {c \in Clients : session[c].uid # {} \/ session[c].candidates # {}}
ResetsCovered ==
  /\ resets + Cardinality(Entitled) <= verified
  /\ \A c \in Clients : job[c].op = "reset" => c \in Entitled

\* At the start nobody is entitled.
LEMMA InitCovered == Init => ResetsCovered
<1> SUFFICES ASSUME Init PROVE ResetsCovered
  OBVIOUS
<1>1. Entitled = {}
  BY DEF Init, Entitled, Forgotten
<1>2. QED
  BY <1>1, FS_EmptySet DEF Init, ResetsCovered, Idle

\* The browsers are finitely many, and so are those entitled.
LEMMA EntitledFinite == IsFiniteSet(Entitled) /\ Cardinality(Entitled) \in Nat
  BY FS_Subset, FS_CardinalityType DEF Entitled

\* A step by which no browser comes to be entitled, and none resets.
LEMMA CoveredKept ==
  ASSUME Typed, ResetsCovered, Entitled' \subseteq Entitled, UNCHANGED <<resets, verified>>,
         \A c \in Clients : job'[c].op = "reset" => c \in Entitled'
  PROVE  ResetsCovered'
<1>1. IsFiniteSet(Entitled') /\ Cardinality(Entitled') <= Cardinality(Entitled)
      /\ Cardinality(Entitled') \in Nat
  BY EntitledFinite, FS_Subset, FS_CardinalityType
<1>2. QED
  BY <1>1, EntitledFinite DEF ResetsCovered, Typed, TypeOK

\* The session of c alone is written.
LEMMA OneSession ==
  ASSUME Typed, NEW c \in Clients, NEW s \in Session, session' = [session EXCEPT ![c] = s]
  PROVE  Entitled' = IF s.uid # {} \/ s.candidates # {} THEN Entitled \cup {c} ELSE Entitled \ {c}
  BY DEF Typed, TypeOK, Entitled

\* Every reset uses up what a right code has entitled to.
LEMMA NextCovered == ASSUME Typed, ResetsCovered, [Next]_vars PROVE ResetsCovered'
<1> USE DEF Typed, TypeOK
<1>0. Idle.op = "none"
  BY DEF Idle
<1>1. ASSUME UNCHANGED <<session, resets, verified>>,
             NEW c \in Clients, \A d \in Clients \ {c} : job'[d] = job[d],
             job'[c].op # "reset" \/ c \in Entitled
      PROVE  ResetsCovered'
  <2>1. Entitled' = Entitled
    BY <1>1 DEF Entitled
  <2>2. QED
    BY <1>1, <2>1, CoveredKept DEF ResetsCovered
<1>2. ASSUME NEW c \in Clients, NEW s \in Session, session' = [session EXCEPT ![c] = s],
             UNCHANGED <<resets, verified>>, s.uid # {} \/ s.candidates # {} => c \in Entitled,
             job'[c].op # "reset",
             \A d \in Clients \ {c} : job'[d] = job[d]
      PROVE  ResetsCovered'
  <2>1. Entitled' \subseteq Entitled /\ \A d \in Clients \ {c} : d \in Entitled => d \in Entitled'
    BY <1>2, OneSession
  <2>2. QED
    BY <1>2, <2>1, CoveredKept DEF ResetsCovered
<1>3. Forgotten \in Session /\ Forgotten.uid = {} /\ Forgotten.candidates = {}
  BY ConstantTypes DEF Forgotten
<1>4. ASSUME NEW i \in Codes, Grow(i) PROVE ResetsCovered'
  <2>1. UNCHANGED <<session, resets, verified, job>>
    BY <1>4 DEF Grow, counted
  <2>2. QED
    BY <2>1 DEF ResetsCovered, Entitled
<1>5. ASSUME NEW c \in Clients, BeginAsk(c) PROVE ResetsCovered'
  <2> DEFINE s == IF Active = {} \/ MaySend THEN Forgotten
                  ELSE [Forgotten EXCEPT !.code = {i \in Unused : \A j \in Unused : j <= i}]
  <2>1. s \in Session /\ s.uid = {} /\ s.candidates = {}
    BY <1>3 DEF Forgotten, Session, Unused
  <2>2. session' = [session EXCEPT ![c] = s] /\ UNCHANGED <<resets, verified>>
    BY <1>5 DEF BeginAsk, counted
  <2> HIDE DEF s
  <2>3. job'[c].op # "reset" /\ \A d \in Clients \ {c} : job'[d] = job[d]
    BY <1>0, <1>5, Asks DEF BeginAsk, MayBegin
  <2>4. QED
    BY <1>2, <2>1, <2>2, <2>3
<1>6. ASSUME NEW c \in Clients, BeginResend(c) \/ Invalidate(c) PROVE ResetsCovered'
  <2>1. UNCHANGED <<session, resets, verified>> /\ job'[c].op = "ask"
        /\ \A d \in Clients \ {c} : job'[d] = job[d]
    BY <1>6, Asks, Moves DEF BeginResend, Invalidate, At, Places, counted
  <2>2. QED
    BY <1>1, <2>1
<1>7. ASSUME NEW c \in Clients, InsertCode(c) PROVE ResetsCovered'
  <2> DEFINE s == [session[c] EXCEPT !.code = {Cardinality(Made) + 1}]
  <2>1. s \in Session /\ s.uid = session[c].uid /\ s.candidates = session[c].candidates
    BY <1>7 DEF InsertCode, Session
  <2>2. session' = [session EXCEPT ![c] = s] /\ UNCHANGED <<resets, verified>> /\ Done(c)
    BY <1>7 DEF InsertCode, counted
  <2> HIDE DEF s
  <2>3. QED
    BY <1>0, <1>2, <2>1, <2>2, Ends DEF Entitled
<1>8. ASSUME NEW c \in Clients, NEW i \in Codes, BeginVerify(c, i) PROVE ResetsCovered'
  <2>1. CASE i \in Unused /\ Usable(i)
    <3>1. code[i].attempts \in 0..MaxAttempts
      BY DEF CodeRow
    <3>2. UNCHANGED <<session, resets, verified>> /\ job'[c].op = "verify"
          /\ \A d \in Clients \ {c} : job'[d] = job[d]
      BY <1>8, <2>1, <3>1, Verifies DEF BeginVerify, counted
    <3>3. QED
      BY <1>1, <3>2
  <2>2. CASE ~(i \in Unused /\ Usable(i))
    BY <1>0, <1>2, <1>3, <1>8, <2>2 DEF BeginVerify, MayBegin, counted
  <2>3. QED
    BY <2>1, <2>2
<1>9. ASSUME NEW c \in Clients, NEW i \in Codes, Enter(c, i) PROVE ResetsCovered'
  <2>1. UNCHANGED <<session, resets, verified>> /\ job[c].op = "verify"
        /\ (Goto(c, "consume") \/ Done(c))
    BY <1>9 DEF Enter, At
  <2>2. job'[c].op # "reset" /\ \A d \in Clients \ {c} : job'[d] = job[d]
    BY <1>0, <2>1, Moves, Ends DEF Places
  <2>3. QED
    BY <1>1, <2>1, <2>2
<1>10. ASSUME NEW c \in Clients, NEW i \in Codes, Consume(c, i) PROVE ResetsCovered'
  <2>1. PICK s \in Session : session' = [session EXCEPT ![c] = s]
    BY <1>10 DEF Consume, Session, Active, Present
  <2>2. resets' = resets /\ verified' = verified + 1 /\ Done(c)
    BY <1>10 DEF Consume
  <2>3. Entitled' \subseteq Entitled \cup {c} /\ \A d \in Clients \ {c} : d \in Entitled => d \in Entitled'
    BY <2>1, OneSession
  <2>4. IsFiniteSet(Entitled \cup {c}) /\ Cardinality(Entitled \cup {c}) <= Cardinality(Entitled) + 1
    <3>1. IsFiniteSet(Entitled) /\ Cardinality(Entitled) \in Nat
      BY EntitledFinite
    <3>2. /\ IsFiniteSet(Entitled \cup {c})
          /\ Cardinality(Entitled \cup {c})
               = IF c \in Entitled THEN Cardinality(Entitled) ELSE Cardinality(Entitled) + 1
      BY <3>1, FS_AddElement
    <3>3. QED
      BY <3>1, <3>2
  <2>5. Cardinality(Entitled') <= Cardinality(Entitled \cup {c})
    BY <2>3, <2>4, FS_Subset
  <2>6. Cardinality(Entitled') \in Nat /\ Cardinality(Entitled \cup {c}) \in Nat
    BY <2>3, <2>4, FS_Subset, FS_CardinalityType
  <2>7. resets' + Cardinality(Entitled') <= verified'
    BY <2>2, <2>4, <2>5, <2>6, EntitledFinite DEF ResetsCovered
  <2>8. \A d \in Clients : job'[d].op = "reset" => d \in Entitled'
    BY <1>0, <2>2, <2>3, Ends DEF ResetsCovered
  <2>9. QED
    BY <2>7, <2>8 DEF ResetsCovered
<1>11. ASSUME NEW c \in Clients, Select(c) PROVE ResetsCovered'
  <2>1. PICK s \in Session : session' = [session EXCEPT ![c] = s]
    <3>1. session[c] \in Session
      OBVIOUS
    <3>2. ASSUME NEW u \in session[c].candidates,
                 session' = [session EXCEPT ![c].candidates = {}, ![c].uid = {u}]
          PROVE  \E s \in Session : session' = [session EXCEPT ![c] = s]
      <4>1. [session[c] EXCEPT !.candidates = {}, !.uid = {u}] \in Session
        BY <3>1, <3>2 DEF Session
      <4>2. session' = [session EXCEPT ![c] = [session[c] EXCEPT !.candidates = {}, !.uid = {u}]]
        BY <3>2
      <4>3. QED
        BY <4>1, <4>2
    <3>3. QED
      BY <1>3, <1>11, <3>2 DEF Select
  <2>2. job[c] = Idle /\ c \in Entitled /\ UNCHANGED <<job, resets, verified>>
    BY <1>11 DEF Select, Entitled, counted
  <2>3. QED
    BY <1>0, <1>2, <2>1, <2>2
<1>12. ASSUME NEW c \in Clients, NEW u \in Users, BeginReset(c, u) PROVE ResetsCovered'
  <2>1. c \in Entitled /\ job[c] = Idle /\ UNCHANGED <<resets, verified>>
    BY <1>12 DEF BeginReset, MayBegin, Entitled, counted
  <2>2. CASE u \in Active
    BY <1>1, <1>12, <2>1, <2>2, Holds DEF BeginReset, Ops
  <2>3. CASE u \notin Active
    BY <1>0, <1>2, <1>3, <1>12, <2>1, <2>3 DEF BeginReset
  <2>4. QED
    BY <2>2, <2>3
<1>13. ASSUME NEW c \in Clients, NEW u \in Users, SaveReset(c, u) PROVE ResetsCovered'
  <2>1. job[c].op = "reset" /\ c \in Entitled /\ Done(c) /\ verified' = verified
    BY <1>13 DEF SaveReset, At, ResetsCovered
  <2>2. CASE u \notin Present
    BY <1>0, <1>1, <1>13, <2>1, <2>2, Ends DEF SaveReset
  <2>3. CASE u \in Present
    <3>1. session' = [session EXCEPT ![c] = Forgotten] /\ resets' = resets + 1
      BY <1>13, <2>3 DEF SaveReset
    <3>2. Entitled' = Entitled \ {c}
      BY <1>3, <3>1, OneSession
    <3>3. Cardinality(Entitled') = Cardinality(Entitled) - 1
      BY <2>1, <3>2, EntitledFinite, FS_RemoveElement
    <3>4. resets' + Cardinality(Entitled') <= verified'
      BY <2>1, <3>1, <3>3, EntitledFinite DEF ResetsCovered
    <3>5. \A d \in Clients : job'[d].op = "reset" => d \in Entitled'
      BY <1>0, <2>1, <3>2, Ends DEF ResetsCovered
    <3>6. QED
      BY <3>4, <3>5 DEF ResetsCovered
  <2>4. QED
    BY <2>2, <2>3
<1>14. ASSUME NEW c \in Clients, Change(c) \/ Office(c) PROVE ResetsCovered'
  BY <1>1, <1>14, ElseDoes
<1>15. CASE UNCHANGED vars
  <2>1. UNCHANGED <<session, resets, verified, job>>
    BY <1>15 DEF vars, counted
  <2>2. QED
    BY <2>1 DEF ResetsCovered, Entitled
<1>16. QED
  BY <1>4, <1>5, <1>6, <1>7, <1>8, <1>9, <1>10, <1>11, <1>12, <1>13, <1>14, <1>15
     DEF Next, Reset

\* A phone has at most one unused code, no code is compared more often than
\* MAX_ATTEMPTS or right twice, and every right one sets at most one password.
THEOREM OneResetForEachCode == ASSUME CodesApart PROVE Spec => []OneResetPerCode
<1>1. Typed /\ Coded /\ ResetsCovered => OneResetPerCode
  <2> SUFFICES ASSUME Typed, Coded, ResetsCovered PROVE OneResetPerCode
    OBVIOUS
  <2>1. Cardinality(Unused) <= 1
    <3>1. CASE Unused = {}
      BY <3>1, FS_EmptySet
    <3>2. CASE Unused # {}
      <4>1. PICK i : Unused = {i}
        BY <3>2 DEF Coded, OneUnused
      <4>2. Cardinality({i}) = 1
        BY FS_Singleton
      <4>3. QED
        BY <4>1, <4>2
    <3>3. QED
      BY <3>1, <3>2
  <2>2. \A i \in Codes : entries[i] <= MaxAttempts
    BY DEF Coded, Counted, Typed, TypeOK, CodeRow
  <2>3. resets <= verified
    BY EntitledFinite DEF ResetsCovered, Typed, TypeOK
  <2>4. verified <= Cardinality(Made)
    <3>1. PICK V \in SUBSET Made : Cardinality(V) = verified
      BY DEF Coded, RightCodes, WereRight
    <3>2. IsFiniteSet(Made)
      BY CodesFinite DEF Made
    <3>3. QED
      BY <3>1, <3>2, FS_Subset
  <2>5. QED
    BY <2>1, <2>2, <2>3, <2>4 DEF OneResetPerCode
<1>2. Typed /\ Coded /\ [Next]_vars => Coded'
  BY NextCoded
<1>3. Typed /\ ResetsCovered /\ [Next]_vars => ResetsCovered'
  BY NextCovered
<1>4. QED
  BY <1>1, <1>2, <1>3, InitTyped, InitCoded, InitCovered, NextTyped, PTL DEF Spec

=============================================================================
