------------------------------ MODULE Accounts ------------------------------
(***************************************************************************)
(* The users of one company, their passwords, the one-time codes that let  *)
(* them choose a new one, and what the office does to their accounts.      *)
(*                                                                         *)
(* A request reads rows, and writes them some statements later.  Some      *)
(* writes name their columns, others save every column of the copy: what   *)
(* another request wrote meanwhile is then undone, or a deleted account    *)
(* comes back.                                                             *)
(***************************************************************************)
EXTENDS Naturals, FiniteSets

CONSTANTS
  Clients,       \* browsers, with one request at a time each
  Users,         \* ids of the users, all of one phone
  Technicians,   \* ids of the technician profiles
  UserOf,        \* the user of each profile; other users are operators
  Keys,          \* pages an operator may be given
  MaxAttempts,   \* entries a code allows, MAX_ATTEMPTS
  MaxCodes,      \* bound: codes ever made
  MaxPasswords,  \* bound: passwords ever chosen
  MaxOffice,     \* bound: how often the office edits or switches an account
  Apart          \* pairs of operations that do not overlap

ASSUME BoundsAssumption == {MaxAttempts, MaxCodes, MaxPasswords, MaxOffice} \subseteq Nat
ASSUME ProfilesAssumption == UserOf \in [Technicians -> Users]
ASSUME ClientsAssumption == IsFiniteSet(Clients)

VARIABLES
  user,      \* the committed rows of the users
  rights,    \* each operator's OperatorPermission rows
  code,      \* the PasswordResetOTP rows
  session,   \* what each browser's session holds
  job,       \* each browser's request: where it is, and what it read
  chosen,    \* history: the password last chosen for each user
  switched,  \* history: whether each user was last switched on
  posted,    \* history: the pages last ticked for each operator
  entries,   \* history: how often a code was compared with each row
  verified,  \* history: how often one was right
  resets,    \* history: how many passwords were set with one
  choices,   \* history: how many passwords were chosen
  office     \* history: how many edits and switches the office has begun

accounts == <<user, rights>>
promised == <<chosen, switched, posted>>
counted == <<entries, verified, resets>>
bounds == <<choices, office>>
vars == <<accounts, code, session, job, promised, counted, bounds>>

\* A password is the number of its choice, 0 the first one.
Passwords == 0..MaxPasswords
Existence == {"none", "present", "deleted"}
UserRow == [is : Existence, active : BOOLEAN, password : Passwords]
NoUser == [is |-> "none", active |-> FALSE, password |-> 0]

Operators == Users \ {UserOf[t] : t \in Technicians}

Right == {"none", "no", "yes"}

\* A code may not be replaced while fresh, and may not be used once expired;
\* of a used one only the first is told.
Age == {"fresh", "old", "expired"}
Codes == 1..MaxCodes
CodeRow == [is : {"none", "unused", "used"}, age : Age, attempts : 0..MaxAttempts]
NoCode == [is |-> "none", age |-> "fresh", attempts |-> 0]

\* code: pr_phone and pr_otp_id, candidates: pr_candidates, uid: pr_verified_uid.
\* Who is logged in is left out: a request is by whoever may make it.
Session == [code : SUBSET Codes, candidates : SUBSET Users, uid : SUBSET Users]
Forgotten == [code |-> {}, candidates |-> {}, uid |-> {}]

Ops == {"none", "ask", "verify", "reset", "change", "edit", "toggle", "toggleTechnician", "delete"}
Places == {"idle", "invalidate", "insert", "enter", "consume", "save", "twice", "rights"}

\* copy: the user row as read; attempts: of the code row as read;
\* ticked, todo: the pages posted and those still to save
Job == [op : Ops, pc : Places, code : SUBSET Codes, attempts : 0..MaxAttempts,
        user : SUBSET Users, copy : UserRow, ticked : SUBSET Keys, todo : SUBSET Keys]
Idle == [op |-> "none", pc |-> "idle", code |-> {}, attempts |-> 0,
         user |-> {}, copy |-> NoUser, ticked |-> {}, todo |-> {}]

\* The accounts the office has created, an operator's perhaps switched off.
Created(active) == [is |-> "present", active |-> active, password |-> 0]

Init ==
  /\ switched \in [Users -> BOOLEAN]
  /\ \A u \in Users \ Operators : switched[u]
  /\ user = [u \in Users |-> Created(switched[u])]
  /\ rights = [u \in Users |-> [k \in Keys |-> "none"]]
  /\ code = [i \in Codes |-> NoCode]
  /\ session = [c \in Clients |-> Forgotten]
  /\ job = [c \in Clients |-> Idle]
  /\ chosen = [u \in Users |-> 0]
  /\ posted = [u \in Users |-> {}]
  /\ entries = [i \in Codes |-> 0]
  /\ verified = 0
  /\ resets = 0
  /\ choices = 0
  /\ office = 0

----------------------------------------------------------------------------
\* Rows, sessions and requests

Present == {u \in Users : user[u].is = "present"}
Active == {u \in Present : user[u].active}

MayBegin(c, op) ==
  /\ job[c] = Idle
  /\ \A d \in Clients : <<op, job[d].op>> \notin Apart

At(c, op, pc) == job[c].op = op /\ job[c].pc = pc
Goto(c, pc) == job' = [job EXCEPT ![c].pc = pc]
Done(c) == job' = [job EXCEPT ![c] = Idle]
Hold(c, op, u) == job' = [job EXCEPT ![c] = [Idle EXCEPT !.op = op, !.pc = "save", !.user = {u}]]
HoldCopy(c, op, u) ==
  job' = [job EXCEPT ![c] = [Idle EXCEPT !.op = op, !.pc = "save", !.user = {u}, !.copy = user[u]]]

\* Bound: the office's next edit or switch.
Begun == office < MaxOffice /\ office' = office + 1

\* Someone chooses a password.
NextPassword == choices + 1
Choose(u) ==
  /\ choices < MaxPasswords
  /\ choices' = NextPassword
  /\ chosen' = [chosen EXCEPT ![u] = NextPassword]

----------------------------------------------------------------------------
\* Asking for a code

Made == {i \in Codes : code[i].is # "none"}
Unused == {i \in Codes : code[i].is = "unused"}
MaySend == \A i \in Made : code[i].age # "fresh"

\* The form: a code may be sent; or there is a recent one, and the session gets
\* the latest unused; or no such user is active.
BeginAsk(c) ==
  /\ MayBegin(c, "ask")
  /\ IF Active = {}
     THEN session' = [session EXCEPT ![c] = Forgotten] /\ UNCHANGED job
     ELSE IF MaySend
     THEN /\ session' = [session EXCEPT ![c] = Forgotten]
          /\ job' = [job EXCEPT ![c] = [Idle EXCEPT !.op = "ask", !.pc = "invalidate"]]
     ELSE /\ session' = [session EXCEPT ![c] = [Forgotten EXCEPT
                           !.code = {i \in Unused : \A j \in Unused : j <= i}]]
          /\ UNCHANGED job
  /\ MaySend => Made # Codes
  /\ UNCHANGED <<accounts, code, promised, counted, bounds>>

\* The code page sends another, for the phone of the session.
BeginResend(c) ==
  /\ MayBegin(c, "ask")
  /\ session[c].code # {}
  /\ MaySend
  /\ Made # Codes
  /\ job' = [job EXCEPT ![c] = [Idle EXCEPT !.op = "ask", !.pc = "invalidate"]]
  /\ UNCHANGED <<accounts, code, session, promised, counted, bounds>>

\* Mutant of Invalidated: only expired codes are taken out of use.
InvalidatedExpired(i) == IF code[i].age = "expired" /\ i \in Unused THEN "used" ELSE code[i].is
Invalidated(i) == IF i \in Unused THEN "used" ELSE code[i].is

Invalidate(c) ==
  /\ At(c, "ask", "invalidate")
  /\ code' = [i \in Codes |-> [code[i] EXCEPT !.is = Invalidated(i)]]
  /\ Goto(c, "insert")
  /\ UNCHANGED <<accounts, session, promised, counted, bounds>>

\* The new row, with the next id; its text message never fails the request.
InsertCode(c) ==
  LET i == Cardinality(Made) + 1
  IN /\ At(c, "ask", "insert")
     /\ i \in Codes
     /\ code' = [code EXCEPT ![i] = [NoCode EXCEPT !.is = "unused"]]
     /\ session' = [session EXCEPT ![c].code = {i}]
     /\ Done(c)
     /\ UNCHANGED <<accounts, promised, counted, bounds>>

\* Time passes: codes grow older in the order they were made.
Older(i) == IF code[i].age = "fresh" /\ i \in Unused THEN "old" ELSE "expired"
Grow(i) ==
  /\ i \in Made
  /\ code[i].age # "expired"
  /\ code' = [j \in Codes |-> IF j \in Made /\ j <= i THEN [code[j] EXCEPT !.age = Older(j)] ELSE code[j]]
  /\ UNCHANGED <<accounts, session, job, promised, counted, bounds>>

----------------------------------------------------------------------------
\* Entering it

Usable(i) == code[i].age # "expired" /\ code[i].attempts < MaxAttempts

\* The row is read if it is unused; else, or when it is expired or its attempts
\* are used up, the reset starts over.
BeginVerify(c, i) ==
  /\ MayBegin(c, "verify")
  /\ session[c].code = {i}
  /\ IF i \in Unused /\ Usable(i)
     THEN /\ job' = [job EXCEPT ![c] = [Idle EXCEPT !.op = "verify", !.pc = "enter", !.code = {i},
                                          !.attempts = code[i].attempts]]
          /\ UNCHANGED session
     ELSE /\ session' = [session EXCEPT ![c] = Forgotten]
          /\ UNCHANGED job
  /\ UNCHANGED <<accounts, code, promised, counted, bounds>>

\* check_code looks at the clock again, counts on its copy, and compares.
Enter(c, i) ==
  /\ At(c, "verify", "enter")
  /\ job[c].code = {i}
  /\ IF code[i].age = "expired"
     THEN Done(c) /\ UNCHANGED <<code, entries>>
     ELSE /\ code' = [code EXCEPT ![i].attempts = job[c].attempts + 1]
          /\ entries' = [entries EXCEPT ![i] = @ + 1]
          /\ Goto(c, "consume") \/ Done(c)
  /\ UNCHANGED <<accounts, session, promised, verified, resets, bounds>>

Consumed(i) == "used"

\* The code is used up; the session learns the accounts of the phone: none, one,
\* or several to select from.
Consume(c, i) ==
  LET one == Cardinality(Active) = 1
  IN /\ At(c, "verify", "consume")
     /\ job[c].code = {i}
     /\ code' = [code EXCEPT ![i].is = Consumed(i)]
     /\ verified' = verified + 1
     /\ session' = [session EXCEPT ![c] = [code |-> {},
                      candidates |-> IF one THEN {} ELSE Active, uid |-> IF one THEN Active ELSE {}]]
     /\ Done(c)
     /\ UNCHANGED <<accounts, promised, entries, resets, bounds>>

\* One of them, even if no longer active, as long as another is.
Select(c) ==
  /\ job[c] = Idle
  /\ session[c].candidates # {}
  /\ IF session[c].candidates \cap Active = {}
     THEN session' = [session EXCEPT ![c] = Forgotten]
     ELSE \E u \in session[c].candidates :
            session' = [session EXCEPT ![c].candidates = {}, ![c].uid = {u}]
  /\ UNCHANGED <<accounts, code, job, promised, counted, bounds>>

BeginReset(c, u) ==
  /\ MayBegin(c, "reset")
  /\ session[c].uid = {u}
  /\ IF u \in Active
     THEN Hold(c, "reset", u) /\ UNCHANGED session
     ELSE session' = [session EXCEPT ![c] = Forgotten] /\ UNCHANGED job
  /\ UNCHANGED <<accounts, code, promised, counted, bounds>>

\* Only the password column is saved; a row deleted meanwhile fails the request.
SaveReset(c, u) ==
  /\ At(c, "reset", "save")
  /\ job[c].user = {u}
  /\ IF u \in Present
     THEN /\ Choose(u)
          /\ user' = [user EXCEPT ![u].password = NextPassword]
          /\ session' = [session EXCEPT ![c] = Forgotten]
          /\ resets' = resets + 1
     ELSE UNCHANGED <<user, chosen, choices, session, resets>>
  /\ Done(c)
  /\ UNCHANGED <<rights, code, switched, posted, entries, verified, office>>

----------------------------------------------------------------------------
\* A user logged in changes the password

BeginChange(c, u) ==
  /\ MayBegin(c, "change")
  /\ u \in Active
  /\ Hold(c, "change", u)
  /\ UNCHANGED <<accounts, code, session, promised, counted, bounds>>

SaveChange(c, u) ==
  /\ At(c, "change", "save")
  /\ job[c].user = {u}
  /\ IF u \in Present
     THEN /\ Choose(u)
          /\ user' = [user EXCEPT ![u].password = NextPassword]
     ELSE UNCHANGED <<user, chosen, choices>>
  /\ Done(c)
  /\ UNCHANGED <<rights, code, session, switched, posted, counted, office>>

----------------------------------------------------------------------------
\* The office: creating and editing accounts

BeginEdit(c, u) ==
  /\ MayBegin(c, "edit")
  /\ u \in Present
  /\ Begun
  /\ HoldCopy(c, "edit", u)
  /\ UNCHANGED <<accounts, code, session, promised, counted, choices>>

\* Mutant of Edited: a blank password field sets the default password.
EditedBlank(row, password) == [row EXCEPT !.is = "present", !.password = IF password = {} THEN 0 ELSE NextPassword]

\* Every column of the copy, with the new password if one is given.  An update
\* that finds no row inserts one.
Edited(row, password) ==
  [row EXCEPT !.is = "present", !.password = IF password = {} THEN @ ELSE NextPassword]

\* Saves the copy of u; the password is given or left blank.
SaveUser(c, u, row) ==
  \/ /\ user' = [user EXCEPT ![u] = Edited(row, {})]
     /\ UNCHANGED <<chosen, choices>>
  \/ /\ Choose(u)
     /\ user' = [user EXCEPT ![u] = Edited(row, {NextPassword})]

\* A technician's form leaves the account switched as it was read.
SaveTechnician(c, u) ==
  /\ At(c, "edit", "save")
  /\ job[c].user = {u}
  /\ u \notin Operators
  /\ SaveUser(c, u, job[c].copy)
  /\ Done(c)
  /\ UNCHANGED <<rights, code, session, switched, posted, counted, office>>

\* The settings form of an operator posts the switch.
SaveOperator(c, u) ==
  /\ At(c, "edit", "save")
  /\ job[c].user = {u}
  /\ u \in Operators
  /\ \E active \in BOOLEAN :
       /\ SaveUser(c, u, [job[c].copy EXCEPT !.active = active])
       /\ switched' = [switched EXCEPT ![u] = active]
  /\ Done(c)
  /\ UNCHANGED <<rights, code, session, posted, counted, office>>

\* The list form that only sets an operator's password saves the whole copy too.
ChangeOperatorPassword(c, u) ==
  /\ At(c, "edit", "save")
  /\ job[c].user = {u}
  /\ u \in Operators
  /\ Choose(u)
  /\ user' = [user EXCEPT ![u] = Edited(job[c].copy, {NextPassword})]
  /\ Done(c)
  /\ UNCHANGED <<rights, code, session, switched, posted, counted, office>>

\* The list form of an operator posts the switch and the pages ticked; the
\* pages' rows are saved one by one.
UpdateOperator(c, u) ==
  /\ At(c, "edit", "save")
  /\ job[c].user = {u}
  /\ u \in Operators
  /\ \E active \in BOOLEAN, ticked \in SUBSET Keys :
       /\ user' = [user EXCEPT ![u] = [job[c].copy EXCEPT !.is = "present", !.active = active]]
       /\ switched' = [switched EXCEPT ![u] = active]
       /\ posted' = [posted EXCEPT ![u] = ticked]
       /\ job' = [job EXCEPT ![c].pc = "rights", ![c].ticked = ticked, ![c].todo = Keys]
  /\ UNCHANGED <<rights, code, session, chosen, counted, bounds>>

Allowed(c, u, k) == IF k \in job[c].ticked THEN "yes" ELSE "no"

SaveRight(c, u, k) ==
  /\ At(c, "edit", "rights")
  /\ job[c].user = {u}
  /\ k \in job[c].todo
  /\ IF u \in Present
     THEN /\ rights' = [rights EXCEPT ![u][k] = Allowed(c, u, k)]
          /\ job' = [job EXCEPT ![c] = IF job[c].todo = {k} THEN Idle
                                       ELSE [job[c] EXCEPT !.todo = @ \ {k}]]
     ELSE Done(c) /\ UNCHANGED rights
  /\ UNCHANGED <<user, code, session, promised, counted, bounds>>

----------------------------------------------------------------------------
\* The office: switching accounts on and off, and deleting them

\* Every column of the copy, with the switch turned; put for Switched, a mutant.
SwitchedInFull(c, u) == [job[c].copy EXCEPT !.active = ~@]
\* The column of the switch alone.
Switched(c, u) == [user[u] EXCEPT !.active = ~job[c].copy.active]

ToggleOperator(c, u) ==
  /\ MayBegin(c, "toggle")
  /\ u \in Operators \cap Present
  /\ Begun
  /\ HoldCopy(c, "toggle", u)
  /\ UNCHANGED <<accounts, code, session, promised, counted, choices>>

\* If the row is gone, the request fails.
SaveToggle(c, u) ==
  /\ At(c, "toggle", "save")
  /\ job[c].user = {u}
  /\ IF Switched(c, u).is = "present"
     THEN /\ user' = [user EXCEPT ![u] = Switched(c, u)]
          /\ switched' = [switched EXCEPT ![u] = Switched(c, u).active]
     ELSE UNCHANGED <<user, switched>>
  /\ Done(c)
  /\ UNCHANGED <<rights, code, session, chosen, posted, counted, bounds>>

\* The user an action on technician profile t is for: the user whose own id is t,
\* if that is a technician's, and the user of the profile otherwise.
Target(t) == IF t \in Present \ Operators THEN t ELSE UserOf[t]

\* Profile and user are switched in turn, where they have a switch: a profile has
\* none, and a user found by its own id stands for both and is switched twice.
ToggleTechnician(c, t) ==
  LET u == Target(t)
  IN /\ MayBegin(c, "toggleTechnician")
     /\ u \in Present
     /\ Begun
     /\ job' = [job EXCEPT ![c] = [Idle EXCEPT !.op = "toggleTechnician",
                   !.pc = IF u = t THEN "twice" ELSE "save", !.user = {u}, !.copy = user[u]]]
     /\ UNCHANGED <<accounts, code, session, promised, counted, choices>>

\* If the row is gone, the whole copy is saved instead, which inserts it again.
SaveTechnicianToggle(c, u) ==
  /\ job[c].op = "toggleTechnician"
  /\ job[c].user = {u}
  /\ user' = [user EXCEPT ![u] = IF u \in Present THEN Switched(c, u) ELSE SwitchedInFull(c, u)]
  /\ switched' = [switched EXCEPT ![u] = ~job[c].copy.active]
  /\ job' = [job EXCEPT ![c] = IF job[c].pc = "save" THEN Idle
               ELSE [job[c] EXCEPT !.pc = "save", !.copy = SwitchedInFull(c, u)]]
  /\ UNCHANGED <<rights, code, session, chosen, posted, counted, bounds>>

\* The settings page deletes an operator by switching it off.
Deactivate(c, u) ==
  /\ MayBegin(c, "toggle")
  /\ u \in Operators \cap Present
  /\ Begun
  /\ user' = [user EXCEPT ![u].active = FALSE]
  /\ switched' = [switched EXCEPT ![u] = FALSE]
  /\ UNCHANGED <<rights, code, session, job, chosen, posted, counted, choices>>

\* The list page first deletes the rows of the operator's pages ...
BeginDelete(c, u) ==
  /\ MayBegin(c, "delete")
  /\ u \in Operators \cap Present
  /\ Hold(c, "delete", u)
  /\ rights' = [rights EXCEPT ![u] = [k \in Keys |-> "none"]]
  /\ posted' = [posted EXCEPT ![u] = {}]
  /\ UNCHANGED <<user, code, session, chosen, switched, counted, bounds>>

\* ... and then the account, with what hangs on it.
Delete(u) ==
  /\ user' = [user EXCEPT ![u] = [NoUser EXCEPT !.is = "deleted"]]
  /\ rights' = [rights EXCEPT ![u] = [k \in Keys |-> "none"]]
  /\ chosen' = [chosen EXCEPT ![u] = 0]
  /\ switched' = [switched EXCEPT ![u] = FALSE]
  /\ posted' = [posted EXCEPT ![u] = {}]

DeleteOperator(c, u) ==
  /\ At(c, "delete", "save")
  /\ job[c].user = {u}
  /\ Delete(u)
  /\ Done(c)
  /\ UNCHANGED <<code, session, counted, bounds>>

DeleteTechnician(c, t) ==
  /\ MayBegin(c, "delete")
  /\ Target(t) \in Present
  /\ Delete(Target(t))
  /\ UNCHANGED <<code, session, job, counted, bounds>>

----------------------------------------------------------------------------
Reset(c) ==
  \/ BeginAsk(c) \/ BeginResend(c) \/ Invalidate(c) \/ InsertCode(c)
  \/ \E i \in Codes : BeginVerify(c, i) \/ Enter(c, i) \/ Consume(c, i)
  \/ Select(c)
  \/ \E u \in Users : BeginReset(c, u) \/ SaveReset(c, u)

Change(c) == \E u \in Users : BeginChange(c, u) \/ SaveChange(c, u)

Office(c) ==
  \/ \E u \in Users :
       \/ BeginEdit(c, u) \/ SaveTechnician(c, u) \/ SaveOperator(c, u) \/ UpdateOperator(c, u)
       \/ ChangeOperatorPassword(c, u)
       \/ \E k \in Keys : SaveRight(c, u, k)
       \/ ToggleOperator(c, u) \/ SaveToggle(c, u) \/ SaveTechnicianToggle(c, u) \/ Deactivate(c, u)
       \/ BeginDelete(c, u) \/ DeleteOperator(c, u)
  \/ \E t \in Technicians : ToggleTechnician(c, t) \/ DeleteTechnician(c, t)

Next ==
  \/ \E i \in Codes : Grow(i)
  \/ \E c \in Clients : Reset(c) \/ Change(c) \/ Office(c)

Spec == Init /\ [][Next]_vars

----------------------------------------------------------------------------
\* Properties

\* The rows, sessions and requests have their types.
TypeOK ==
  /\ user \in [Users -> UserRow]
  /\ rights \in [Users -> [Keys -> Right]]
  /\ code \in [Codes -> CodeRow]
  /\ session \in [Clients -> Session]
  /\ job \in [Clients -> Job]
  /\ chosen \in [Users -> Passwords]
  /\ switched \in [Users -> BOOLEAN]
  /\ posted \in [Users -> SUBSET Keys]
  /\ entries \in [Codes -> Nat]
  /\ {verified, resets, choices, office} \subseteq Nat

\* A user's password is the one last chosen, the account is on or off as it was
\* last switched, and between requests an operator has the pages last ticked,
\* whatever requests overlapped: resets, changes and toggles name the columns they
\* save (password_reset_confirm, change_password_required, admin_operator_list).  The
\* edits, and the toggle of a technician whose row is gone, save whole copies: Apart
\* keeps them from what they would undo.
AtRest(u) == \A c \in Clients : u \notin job[c].user
LastWriteStands ==
  /\ \A u \in Present : user[u].password = chosen[u] /\ user[u].active = switched[u]
  /\ \A u \in Operators :
       AtRest(u) => {k \in Keys : rights[u][k] = "yes"} = posted[u]

\* A deleted account does not come back through a request that still held a copy of
\* it (admin_operator_list, admin_technician_delete); Apart keeps edits, and toggles
\* of technicians, from deletions.
DeletedStaysDeleted ==
  [][\A u \in Users : user[u].is = "deleted" => user'[u].is = "deleted"]_vars

\* A phone has at most one unused code, each is compared no more often than
\* MAX_ATTEMPTS and right at most once, and every right code sets at most one
\* password, in however many browsers codes are asked for and entered
\* (PasswordResetOTP.generate_for_phone, check_code, consume,
\* password_reset_confirm).
OneResetPerCode ==
  /\ Cardinality(Unused) <= 1
  /\ \A i \in Codes : entries[i] <= MaxAttempts
  /\ resets <= verified /\ verified <= Cardinality(Made)

\* A step of an action on one technician's profile changes no other account
\* (admin_technician_delete, admin_technician_toggle_active).
OnlyTheTechnician ==
  [][\A c \in Clients, t \in Technicians : DeleteTechnician(c, t) =>
       \A u \in Users \ {UserOf[t]} : user'[u] = user[u]]_vars

============================================================================
