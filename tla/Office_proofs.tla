---------------------------- MODULE Office_proofs ----------------------------
(***************************************************************************)
(* Proofs about SmsTemplates, for any number of requests and wordings, and *)
(* about OrderIntake, for any number of requests, orders, customers, items *)
(* and categories.  What may not overlap is an assumption of the theorem   *)
(* that needs it.                                                          *)
(***************************************************************************)
EXTENDS SmsTemplates, OrderIntake, TLAPS

USE TemplatesAssumption

----------------------------------------------------------------------------
\* Wordings.  Requests and commands are where they are, and rows have their types.

LEMMA WordingTypes == Idle \in Job /\ NoTemplate \in Template /\ NoRequest \in Request
  BY DEF Idle, Job, Places, NoTemplate, Template, NoRequest, Request, Status, AllTexts

\* A request or command that moves on, holds a switch, or ends is the only one that changes.
LEMMA GotoMoves ==
  ASSUME job \in [Clients -> Job], NEW c \in Clients, NEW place \in Places, Goto(c, place)
  PROVE  /\ job' \in [Clients -> Job]
         /\ job'[c] = [job[c] EXCEPT !.at = place] /\ job'[c].at = place
         /\ \A d \in Clients \ {c} : job'[d] = job[d]
<1>1. [job[c] EXCEPT !.at = place] \in Job
  BY DEF Job
<1>2. job' = [job EXCEPT ![c] = [job[c] EXCEPT !.at = place]]
  BY DEF Goto
<1>3. [job[c] EXCEPT !.at = place].at = place
  BY DEF Job
<1>4. QED
  BY <1>1, <1>2, <1>3

LEMMA HoldMoves ==
  ASSUME job \in [Clients -> Job], NEW c \in Clients, NEW place \in Places, NEW on \in BOOLEAN,
         Hold(c, place, on)
  PROVE  /\ job' \in [Clients -> Job]
         /\ job'[c].at = place
         /\ \A d \in Clients \ {c} : job'[d] = job[d]
<1>1. [job[c] EXCEPT !.at = place, !.on = on] \in Job
  BY DEF Job
<1>2. job' = [job EXCEPT ![c] = [job[c] EXCEPT !.at = place, !.on = on]]
  BY DEF Hold
<1>3. [job[c] EXCEPT !.at = place, !.on = on].at = place
  BY DEF Job
<1>4. QED
  BY <1>1, <1>2, <1>3

LEMMA DoneMoves ==
  ASSUME job \in [Clients -> Job], NEW c \in Clients, Done(c)
  PROVE  /\ job' \in [Clients -> Job]
         /\ job'[c] = Idle /\ job'[c].at = "idle"
         /\ \A d \in Clients \ {c} : job'[d] = job[d]
<1>1. Idle.at = "idle"
  BY DEF Idle
<1>2. QED
  BY <1>1, WordingTypes DEF Done

LEMMA TakesMoves ==
  ASSUME job \in [Clients -> Job], NEW c \in Clients, NEW j \in Job, job' = [job EXCEPT ![c] = j]
  PROVE  /\ job' \in [Clients -> Job]
         /\ job'[c] = j
         /\ \A d \in Clients \ {c} : job'[d] = job[d]
  OBVIOUS

----------------------------------------------------------------------------
\* The switches and the queue leave wordings and decisions alone.

Deciders == {"approve", "approved", "reject"}
Carriers == {"found", "insert"}

\* What a step of c keeps that decides nothing: no other request moves, and
\* a template that is there keeps its text.
KeepsWording(c) ==
  /\ job[c].at \notin Deciders /\ job'[c].at \notin Deciders
  /\ \A d \in Clients \ {c} : job'[d] = job[d]
  /\ template'.text \in {template.text, Master}
  /\ template.is => template'.is /\ template'.text = template.text
  /\ request' = request

LEMMA SwitchTypes ==
  ASSUME TypeOK
  PROVE  /\ \A on \in BOOLEAN : Switch(on) \in Setting
         /\ Ensured \in Setting
         /\ \A on \in BOOLEAN : /\ Provisioned(on) \in Template
                                /\ Activated(template, on) \in Template
  BY DEF TypeOK, Switch, Ensured, Setting, Provisioned, Activated, Template, AllTexts

\* Saving a switch to the template leaves its text.
LEMMA SwitchKeepsText ==
  ASSUME TypeOK, NEW on \in BOOLEAN,
         template' = Provisioned(on) \/ template' = Activated(template, on)
  PROVE  /\ template'.text \in {template.text, Master}
         /\ template.is => template'.is /\ template'.text = template.text
<1>1. CASE template' = Provisioned(on)
  BY <1>1 DEF TypeOK, Provisioned
<1>2. CASE template' = Activated(template, on)
  BY <1>2 DEF TypeOK, Activated, Template
<1>3. QED
  BY <1>1, <1>2

LEMMA SwitchingKeeps ==
  ASSUME TypeOK, NEW c \in Clients, Switching(c)
  PROVE  TypeOK' /\ KeepsWording(c) /\ job'[c].at \notin Carriers /\ UNCHANGED <<queued, endorsed>>
<1> DEFINE Keeps == /\ setting' \in Setting /\ template' \in Template /\ job' \in [Clients -> Job]
                    /\ job[c].at \notin Deciders /\ job'[c].at \notin Deciders \cup Carriers
                    /\ \A d \in Clients \ {c} : job'[d] = job[d]
                    /\ template' = template \/ \E on \in BOOLEAN : \/ template' = Provisioned(on)
                                                                  \/ template' = Activated(template, on)
                    /\ UNCHANGED <<platform, request, queued, endorsed>>
<1> USE DEF TypeOK, Deciders, Carriers, MayBegin
<1>0. job[c] \in Job /\ job[c].on \in BOOLEAN
  BY DEF Job
<1>1. ASSUME BeginProvision(c) PROVE Keeps
  <2>1. (Ensured = "on") \in BOOLEAN
    OBVIOUS
  <2>2. QED
    BY <1>1, <2>1, HoldMoves, SwitchTypes DEF BeginProvision, Places
<1>2. ASSUME Provision(c) PROVE Keeps
  BY <1>0, <1>2, DoneMoves, SwitchTypes DEF Provision
<1>3. ASSUME PostSetting(c) PROVE Keeps
  BY <1>3, HoldMoves, SwitchTypes DEF PostSetting, Places
<1>4. ASSUME PostTemplate(c) PROVE Keeps
  BY <1>0, <1>4, DoneMoves, SwitchTypes DEF PostTemplate
<1>5. ASSUME BeginToggle(c) PROVE Keeps
  <2> DEFINE j == [Idle EXCEPT !.at = "toggle", !.on = ~template.active, !.text = template.text]
  <2>1. j \in Job /\ j.at = "toggle"
    BY WordingTypes DEF Job, Places, Template
  <2>2. job' = [job EXCEPT ![c] = j]
    BY <1>5 DEF BeginToggle
  <2>3. QED
    BY <1>5, <2>1, <2>2, TakesMoves DEF BeginToggle
<1>6. ASSUME Toggle(c) PROVE Keeps
  BY <1>0, <1>6, GotoMoves, SwitchTypes DEF Toggle, Toggled, Places
<1>7. ASSUME LookAtSetting(c) PROVE Keeps
  BY <1>7, GotoMoves, DoneMoves, SwitchTypes DEF LookAtSetting, Places
<1>8. ASSUME Agree(c) PROVE Keeps
  BY <1>0, <1>8, DoneMoves, SwitchTypes DEF Agree
<1>9. ASSUME BeginSync(c) PROVE Keeps
  <2>1. (Ensured = "on") \in BOOLEAN /\ template.active \in BOOLEAN
    BY DEF Template
  <2>2. QED
    BY <1>9, <2>1, HoldMoves, SwitchTypes DEF BeginSync, Places
<1>10. ASSUME CompareTemplate(c) \/ CompareSetting(c) PROVE Keeps
  BY <1>10, GotoMoves, DoneMoves DEF CompareTemplate, CompareSetting, Places
<1>11. ASSUME AlignTemplate(c) \/ AlignSetting(c) PROVE Keeps
  BY <1>0, <1>11, DoneMoves, SwitchTypes DEF AlignTemplate, AlignSetting
<1>12. Keeps
  BY <1>1, <1>2, <1>3, <1>4, <1>5, <1>6, <1>7, <1>8, <1>9, <1>10, <1>11 DEF Switching
<1>13. /\ template'.text \in {template.text, Master}
       /\ template.is => template'.is /\ template'.text = template.text
  <2>1. CASE template' = template
    BY <2>1
  <2>2. ASSUME NEW on \in BOOLEAN, template' = Provisioned(on) \/ template' = Activated(template, on)
        PROVE  <1>13
    BY <2>2, SwitchKeepsText
  <2>3. QED
    BY <1>12, <2>1, <2>2
<1>14. QED
  BY <1>12, <1>13 DEF KeepsWording

\* Queuing changes nothing but the messages queued, by the text that was carried to
\* the insertion; and what is carried was that of the template, the master or the program.
LEMMA QueuingKeeps ==
  ASSUME TypeOK, NEW c \in Clients, Queuing(c)
  PROVE  /\ TypeOK' /\ KeepsWording(c) /\ UNCHANGED <<template, endorsed>>
         /\ queued' = queued \/ (job[c].at = "insert" /\ queued' = queued \cup {job[c].text})
         /\ job'[c].at \in Carriers =>
              \/ job'[c].text \in {template.text, Master, Fallback}
              \/ job[c].at = "found" /\ job'[c].text = job[c].text
<1> USE DEF TypeOK, Deciders, Carriers, MayBegin
<1> DEFINE Inserts == queued' = queued \/ (job[c].at = "insert" /\ queued' = queued \cup {job[c].text})
           Carries == job'[c].at \in Carriers =>
                        \/ job'[c].text \in {template.text, Master, Fallback}
                        \/ job[c].at = "found" /\ job'[c].text = job[c].text
           Keeps == /\ setting' \in Setting /\ job' \in [Clients -> Job]
                    /\ job[c].at \notin Deciders /\ job'[c].at \notin Deciders
                    /\ \A d \in Clients \ {c} : job'[d] = job[d]
                    /\ Inserts /\ Carries
                    /\ UNCHANGED <<platform, template, request, endorsed>>
<1>0. job[c] \in Job /\ job[c].text \in AllTexts /\ template.text \in AllTexts
  BY DEF Job, Template
<1>1. ASSUME BeginQueue(c) PROVE Keeps
  BY <1>1, GotoMoves, SwitchTypes DEF BeginQueue, Places
<1>2. ASSUME Wanted(c) PROVE Keeps
  BY <1>2, GotoMoves, DoneMoves, SwitchTypes DEF Wanted, Places
<1>3. ASSUME Resolve(c) PROVE Keeps
  <2>1. PICK place \in {"override", "master"} : Goto(c, place)
    BY <1>3 DEF Resolve
  <2>2. QED
    BY <1>3, <2>1, GotoMoves DEF Resolve, Places
<1>4. ASSUME NEW text \in AllTexts, Carry(c, text)
      PROVE  /\ job' \in [Clients -> Job] /\ job'[c].at = "found" /\ job'[c].text = text
             /\ \A d \in Clients \ {c} : job'[d] = job[d]
  <2> DEFINE j == [job[c] EXCEPT !.at = "found", !.text = text]
  <2>1. j \in Job /\ j.at = "found" /\ j.text = text
    BY <1>0 DEF Job, Places
  <2>2. job' = [job EXCEPT ![c] = j]
    BY <1>4 DEF Carry
  <2> HIDE DEF j
  <2>3. QED
    BY <2>1, <2>2, TakesMoves
<1>5. ASSUME TakeOverride(c) PROVE Keeps
  <2>0. template.is \in BOOLEAN /\ template.active \in BOOLEAN
    BY DEF Template
  <2>1. CASE ~template.is
    BY <1>5, <2>1, GotoMoves DEF TakeOverride, Places
  <2>2. CASE template.is /\ ~template.active
    BY <1>5, <2>2, DoneMoves DEF TakeOverride
  <2>3. CASE template.is /\ template.active
    BY <1>0, <1>4, <1>5, <2>3 DEF TakeOverride
  <2>4. QED
    BY <2>0, <2>1, <2>2, <2>3
<1>6. ASSUME TakeMaster(c) PROVE Keeps
  <2>1. PICK text \in {Master, Fallback} : Carry(c, text)
    BY <1>6 DEF TakeMaster
  <2>2. QED
    BY <1>4, <1>6, <2>1 DEF TakeMaster, AllTexts
<1>7. ASSUME LookAgain(c) PROVE Keeps
  <2>1. CASE platform
    <3>1. job'[c] = [job[c] EXCEPT !.at = "insert"]
      BY <1>7, <2>1, GotoMoves DEF LookAgain, Places
    <3>2. job'[c].text = job[c].text
      BY <1>0, <3>1 DEF Job
    <3>3. QED
      BY <1>7, <2>1, <3>2, GotoMoves DEF LookAgain, Places
  <2>2. CASE ~platform
    BY <1>7, <2>2, DoneMoves DEF LookAgain
  <2>3. QED
    BY <2>1, <2>2
<1>8. ASSUME Insert(c) PROVE Keeps
  BY <1>8, DoneMoves, SwitchTypes DEF Insert
<1>9. Keeps
  BY <1>1, <1>2, <1>3, <1>5, <1>6, <1>7, <1>8 DEF Queuing
<1>10. TypeOK'
  BY <1>0, <1>9
<1>11. QED
  BY <1>9, <1>10 DEF KeepsWording

----------------------------------------------------------------------------
\* Deciding.  A text being approved was posted by the owner.

OwnersTexts == \A c \in Clients : job[c].at \in {"approve", "approved"} => job[c].text \in Texts

\* What every kind of decision does to the requests in flight.
LEMMA BeginsApprove ==
  ASSUME TypeOK, NEW c \in Clients, NEW r \in Requests, BeginApprove(c, r)
  PROVE  /\ job' \in [Clients -> Job]
         /\ job[c].at = "idle" /\ job'[c].at = "approve" /\ job'[c].of = {r} /\ job'[c].text \in Texts
         /\ \A d \in Clients \ {c} : job'[d] = job[d]
<1>1. PICK text \in Texts :
        job' = [job EXCEPT ![c] = [Idle EXCEPT !.at = "approve", !.text = text, !.of = {r}]]
  BY DEF BeginApprove
<1> DEFINE j == [Idle EXCEPT !.at = "approve", !.text = text, !.of = {r}]
<1>2. j \in Job /\ j.at = "approve" /\ j.text = text /\ j.of = {r}
  BY WordingTypes DEF Job, Places, AllTexts
<1>3. job' = [job EXCEPT ![c] = j]
  BY <1>1
<1> HIDE DEF j
<1>4. QED
  BY <1>2, <1>3, TakesMoves DEF TypeOK, BeginApprove, MayDecide, MayBegin

LEMMA BeginsReject ==
  ASSUME TypeOK, NEW c \in Clients, NEW r \in Requests, BeginReject(c, r)
  PROVE  /\ job' \in [Clients -> Job]
         /\ job[c].at = "idle" /\ job'[c].at = "reject" /\ job'[c].of = {r}
         /\ \A d \in Clients \ {c} : job'[d] = job[d]
<1> DEFINE j == [Idle EXCEPT !.at = "reject", !.of = {r}]
<1>1. j \in Job /\ j.at = "reject" /\ j.of = {r}
  BY WordingTypes DEF Job, Places
<1>2. job' = [job EXCEPT ![c] = j]
  BY DEF BeginReject
<1> HIDE DEF j
<1>3. QED
  BY <1>1, <1>2, TakesMoves DEF TypeOK, BeginReject, MayDecide, MayBegin

LEMMA WritesOverride ==
  ASSUME TypeOK, OwnersTexts, NEW c \in Clients, NEW r \in Requests, WriteOverride(c, r)
  PROVE  /\ TypeOK'
         /\ job'[c].at = "approved" /\ job'[c].of = job[c].of /\ job'[c].text = job[c].text
         /\ \A d \in Clients \ {c} : job'[d] = job[d]
         /\ template'.is /\ template'.text = job[c].text
         /\ endorsed' = endorsed \cup {job[c].text}
         /\ UNCHANGED <<request, queued>>
<1>1. job[c] \in Job /\ job[c].text \in Texts
  BY DEF TypeOK, OwnersTexts, WriteOverride
<1>2. /\ job' \in [Clients -> Job] /\ job'[c] = [job[c] EXCEPT !.at = "approved"]
      /\ \A d \in Clients \ {c} : job'[d] = job[d]
  BY GotoMoves DEF TypeOK, WriteOverride, Places
<1>3. [job[c] EXCEPT !.at = "approved"].at = "approved"
      /\ [job[c] EXCEPT !.at = "approved"].of = job[c].of
      /\ [job[c] EXCEPT !.at = "approved"].text = job[c].text
  BY <1>1 DEF Job
<1>4. template' \in Template /\ template'.is /\ template'.text = job[c].text
  BY <1>1 DEF WriteOverride, Final, Template, AllTexts
<1>5. TypeOK'
  BY <1>1, <1>2, <1>4 DEF TypeOK, WriteOverride
<1>6. QED
  BY <1>2, <1>3, <1>4, <1>5 DEF WriteOverride

LEMMA SavesApproval ==
  ASSUME TypeOK, NEW c \in Clients, NEW r \in Requests, SaveApproval(c, r)
  PROVE  /\ TypeOK'
         /\ job'[c].at = "idle" /\ \A d \in Clients \ {c} : job'[d] = job[d]
         /\ request'[r].status = "approved" /\ request'[r].approved = job[c].text
         /\ \A q \in Requests \ {r} : request'[q] = request[q]
         /\ UNCHANGED <<template, queued, endorsed>>
<1> DEFINE row == [request[r] EXCEPT !.status = "approved", !.approved = job[c].text]
<1>1. row \in Request /\ row.status = "approved" /\ row.approved = job[c].text
  BY DEF TypeOK, Job, Request, Status
<1>2. request' = [request EXCEPT ![r] = row]
  BY DEF SaveApproval
<1> HIDE DEF row
<1>3. /\ request' \in [Requests -> Request] /\ request'[r] = row
      /\ \A q \in Requests \ {r} : request'[q] = request[q]
  BY <1>1, <1>2 DEF TypeOK
<1>4. QED
  BY <1>1, <1>3, DoneMoves DEF TypeOK, SaveApproval

LEMMA SavesRejection ==
  ASSUME TypeOK, NEW c \in Clients, NEW r \in Requests, Reject(c, r)
  PROVE  /\ TypeOK'
         /\ job'[c].at = "idle" /\ \A d \in Clients \ {c} : job'[d] = job[d]
         /\ request'[r].status = "rejected"
         /\ \A q \in Requests \ {r} : request'[q] = request[q]
         /\ UNCHANGED <<template, queued, endorsed>>
<1> DEFINE row == [request[r] EXCEPT !.status = "rejected"]
<1>1. row \in Request /\ row.status = "rejected"
  BY DEF TypeOK, Request, Status
<1>2. request' = [request EXCEPT ![r] = row]
  BY DEF Reject
<1> HIDE DEF row
<1>3. /\ request' \in [Requests -> Request] /\ request'[r] = row
      /\ \A q \in Requests \ {r} : request'[q] = request[q]
  BY <1>1, <1>2 DEF TypeOK
<1>4. QED
  BY <1>1, <1>3, DoneMoves DEF TypeOK, Reject

LEMMA Submits ==
  ASSUME TypeOK, NEW r \in Requests, Submit(r)
  PROVE  /\ TypeOK'
         /\ request[r].status = "none" /\ request'[r].status = "pending"
         /\ \A q \in Requests \ {r} : request'[q] = request[q]
         /\ UNCHANGED <<template, job, queued, endorsed>>
<1>1. PICK text \in Texts :
        request' = [request EXCEPT ![r] = [NoRequest EXCEPT !.status = "pending", !.asked = text]]
  BY DEF Submit
<1> DEFINE row == [NoRequest EXCEPT !.status = "pending", !.asked = text]
<1>2. row \in Request /\ row.status = "pending"
  BY WordingTypes DEF Request, Status, AllTexts
<1>3. request' = [request EXCEPT ![r] = row]
  BY <1>1
<1> HIDE DEF row
<1>4. QED
  BY <1>2, <1>3 DEF TypeOK, Submit

LEMMA Dies ==
  ASSUME TypeOK, NEW c \in Clients, Die(c)
  PROVE  /\ TypeOK'
         /\ job[c].at \in Fatal /\ job'[c].at = "idle" /\ \A d \in Clients \ {c} : job'[d] = job[d]
         /\ UNCHANGED <<template, request, queued, endorsed>>
  BY DoneMoves DEF TypeOK, Die

----------------------------------------------------------------------------
\* What is sent, and what is in force

\* A text on its way to the outbox has been endorsed before it was looked up.
CarriedTexts ==
  \A c \in Clients : job[c].at \in Carriers => job[c].text \in endorsed \cup {Master, Fallback}

Endorsed ==
  /\ TypeOK /\ OwnersTexts /\ CarriedTexts
  /\ queued \subseteq endorsed \cup {Master, Fallback}
  /\ template.text \in endorsed \cup {Master}

LEMMA InitEndorsed == Init => Endorsed
<1> SUFFICES ASSUME Init PROVE Endorsed
  OBVIOUS
<1>1. job \in [Clients -> Job] /\ request \in [Requests -> Request] /\ template \in Template
  BY WordingTypes DEF Init
<1>2. TypeOK
  BY <1>1 DEF Init, TypeOK, Setting
<1>3. OwnersTexts /\ CarriedTexts /\ template.text = Master
  BY DEF Init, OwnersTexts, CarriedTexts, Carriers, Idle, NoTemplate
<1>4. QED
  BY <1>2, <1>3 DEF Init, Endorsed

LEMMA NextEndorsed == Endorsed /\ [Next]_vars => Endorsed'
<1> SUFFICES ASSUME Endorsed, [Next]_vars PROVE Endorsed'
  OBVIOUS
<1> USE DEF Endorsed
<1>1. CASE UNCHANGED vars
  BY <1>1 DEF vars, TypeOK, OwnersTexts, CarriedTexts
<1>2. CASE SwitchPlatform \/ ApplyDefaults \/ SwitchSetting
  BY <1>2, SwitchTypes DEF SwitchPlatform, ApplyDefaults, SwitchSetting, TypeOK, OwnersTexts,
                           CarriedTexts
<1>3. ASSUME NEW r \in Requests, Submit(r) PROVE Endorsed'
  BY <1>3, Submits DEF OwnersTexts, CarriedTexts
<1>4. ASSUME NEW c \in Clients, Switching(c) PROVE Endorsed'
  BY <1>4, SwitchingKeeps DEF KeepsWording, Deciders, OwnersTexts, CarriedTexts
<1>5. ASSUME NEW c \in Clients, Queuing(c) PROVE Endorsed'
  <2>1. OwnersTexts'
    BY <1>5, QueuingKeeps DEF KeepsWording, Deciders, OwnersTexts
  <2>2. CarriedTexts'
    BY <1>5, QueuingKeeps DEF KeepsWording, Carriers, CarriedTexts
  <2>3. queued' \subseteq endorsed' \cup {Master, Fallback}
    BY <1>5, QueuingKeeps DEF Carriers, CarriedTexts
  <2>4. QED
    BY <1>5, <2>1, <2>2, <2>3, QueuingKeeps
<1>6. ASSUME NEW c \in Clients, NEW r \in Requests,
             BeginApprove(c, r) \/ BeginReject(c, r)
      PROVE  Endorsed'
  <2>1. /\ job' \in [Clients -> Job] /\ \A d \in Clients \ {c} : job'[d] = job[d]
        /\ job'[c].at \notin Carriers
        /\ job'[c].at = "reject" \/ job'[c].text \in Texts
    BY <1>6, BeginsApprove, BeginsReject DEF Carriers
  <2>2. UNCHANGED <<platform, setting, template, request, queued, endorsed>>
    BY <1>6 DEF BeginApprove, BeginReject
  <2>3. QED
    BY <2>1, <2>2 DEF TypeOK, OwnersTexts, CarriedTexts
<1>7. ASSUME NEW c \in Clients, NEW r \in Requests, WriteOverride(c, r) PROVE Endorsed'
  <2>1. job[c].text \in Texts
    BY <1>7 DEF WriteOverride, OwnersTexts
  <2>2. OwnersTexts' /\ CarriedTexts'
    BY <1>7, <2>1, WritesOverride DEF OwnersTexts, CarriedTexts, Carriers
  <2>3. QED
    BY <1>7, <2>1, <2>2, WritesOverride
<1>8. ASSUME NEW c \in Clients, NEW r \in Requests, SaveApproval(c, r) \/ Reject(c, r)
      PROVE  Endorsed'
  BY <1>8, SavesApproval, SavesRejection DEF OwnersTexts, CarriedTexts, Carriers
<1>9. ASSUME NEW c \in Clients, Die(c) PROVE Endorsed'
  BY <1>9, Dies DEF OwnersTexts, CarriedTexts, Carriers
<1>10. QED
  BY <1>1, <1>2, <1>3, <1>4, <1>5, <1>6, <1>7, <1>8, <1>9 DEF Next, Deciding

\* Settings, templates and change requests keep their shape.
THEOREM WordingTypeCorrect == Spec => []TypeOK
<1>1. Endorsed => TypeOK
  BY DEF Endorsed
<1>2. QED
  BY <1>1, InitEndorsed, NextEndorsed, PTL DEF Spec

\* Customers are sent the platform's wording or one the owner has posted with an
\* approval, however decisions, switches and deaths overlap.
THEOREM WordingEndorsed == Spec => []SentAsEndorsed
<1>1. Endorsed => SentAsEndorsed
  BY DEF Endorsed, SentAsEndorsed
<1>2. QED
  BY <1>1, InitEndorsed, NextEndorsed, PTL DEF Spec

----------------------------------------------------------------------------
\* The wording in force.  One request is decided in one tab at a time, and no
\* process dies between the two saves of an approval.

DecidedOnce == {"approve", "reject"} \X {"approve", "reject"} \subseteq Apart
ApprovalsFinish == "approved" \notin Fatal

\* A request under decision is pending, and is decided by nobody else.
Decided ==
  \A c \in Clients : job[c].at \in Deciders =>
    \E r \in Requests :
      /\ job[c].of = {r} /\ request[r].status = "pending"
      /\ \A d \in Clients \ {c} : job[d].at \in Deciders => job[d].of # {r}

InForceTexts == {request[r].approved : r \in Approved} \cup BeingApproved
Overridden == MayOverride \/ \E c \in Clients : job[c].at = "approved"
InForce == Decided /\ (Overridden => template.is /\ template.text \in InForceTexts)

\* A step of c that leaves decisions and texts alone.
LEMMA InForceKept ==
  ASSUME Decided, Overridden => template.is /\ template.text \in InForceTexts,
         request' = request, template.is => template'.is /\ template'.text = template.text,
         NEW c \in Clients, \A d \in Clients \ {c} : job'[d] = job[d],
         job[c].at # "approved", job'[c].at \notin Deciders
  PROVE  InForce'
<1>1. Decided'
  BY DEF Decided, Deciders
<1>2. Approved' = Approved
  BY DEF Approved
<1>3. BeingApproved' = BeingApproved
  BY DEF BeingApproved, Deciders
<1>4. Overridden' => Overridden
  BY <1>2 DEF Overridden, MayOverride, Deciders
<1>5. InForceTexts' = InForceTexts
  BY <1>2, <1>3 DEF InForceTexts
<1>6. QED
  BY <1>1, <1>4, <1>5 DEF InForce

LEMMA InitInForce == Init => InForce
  BY DEF Init, InForce, Decided, Deciders, Overridden, MayOverride, Approved, Idle, NoRequest

\* A decision begins on a request nobody else decides.
LEMMA BeginsInForce ==
  ASSUME DecidedOnce, TypeOK, InForce, NEW c \in Clients, NEW r \in Requests,
         BeginApprove(c, r) \/ BeginReject(c, r)
  PROVE  InForce'
<1>1. /\ request[r].status = "pending" /\ job[c].at = "idle"
      /\ \A d \in Clients \ {c} : job[d].at \in Deciders => job[d].of # {r}
  <2>1. PICK op \in {"approve", "reject"} : MayDecide(c, op, r)
    BY DEF BeginApprove, BeginReject
  <2>2. \A d \in Clients : job[d].at \in Deciders => <<Decides(job[d].at), op>> \in Apart
    BY DEF DecidedOnce, Deciders, Decides
  <2>3. QED
    BY <2>1, <2>2 DEF MayDecide, MayBegin
<1>2. /\ job'[c].at \in {"approve", "reject"} /\ job'[c].of = {r}
      /\ \A d \in Clients \ {c} : job'[d] = job[d]
  BY BeginsApprove, BeginsReject
<1>3. UNCHANGED <<template, request>>
  BY DEF BeginApprove, BeginReject
<1>4. Decided'
  <2>1. SUFFICES ASSUME NEW e \in Clients, job'[e].at \in Deciders
                 PROVE  \E q \in Requests :
                          /\ job'[e].of = {q} /\ request'[q].status = "pending"
                          /\ \A d \in Clients \ {e} : job'[d].at \in Deciders => job'[d].of # {q}
    BY DEF Decided, Deciders
  <2>2. CASE e = c
    BY <1>1, <1>2, <1>3, <2>2
  <2>3. CASE e # c
    <3>1. job'[e] = job[e] /\ job[e].of # {r}
      BY <1>1, <1>2, <2>1, <2>3
    <3>2. PICK q \in Requests :
            /\ job[e].of = {q} /\ request[q].status = "pending"
            /\ \A d \in Clients \ {e} : job[d].at \in Deciders => job[d].of # {q}
      BY <2>1, <3>1 DEF InForce, Decided
    <3>3. \A d \in Clients \ {e} : job'[d].at \in Deciders => job'[d].of # {q}
      BY <1>2, <2>3, <3>1, <3>2
    <3>4. QED
      BY <1>3, <3>1, <3>2, <3>3
  <2>4. QED
    BY <2>2, <2>3
<1>5. Approved' = Approved /\ BeingApproved' = BeingApproved
  BY <1>1, <1>2, <1>3 DEF Approved, BeingApproved
<1>6. Overridden' => Overridden
  BY <1>1, <1>2, <1>5 DEF Overridden, MayOverride
<1>7. InForceTexts' = InForceTexts
  BY <1>3, <1>5 DEF InForceTexts
<1>8. QED
  BY <1>3, <1>4, <1>6, <1>7 DEF InForce

\* A request decided leaves the others as they are.
LEMMA DecidedKept ==
  ASSUME Decided, NEW c \in Clients, NEW r \in Requests,
         job[c].at \in Deciders, job[c].of = {r}, job'[c].at = "idle",
         \A d \in Clients \ {c} : job'[d] = job[d],
         \A q \in Requests \ {r} : request'[q] = request[q]
  PROVE  Decided' /\ request[r].status = "pending"
<1>1. /\ request[r].status = "pending"
      /\ \A d \in Clients \ {c} : job[d].at \in Deciders => job[d].of # {r}
  <2>1. PICK q \in Requests :
          /\ job[c].of = {q} /\ request[q].status = "pending"
          /\ \A d \in Clients \ {c} : job[d].at \in Deciders => job[d].of # {q}
    BY DEF Decided
  <2>2. q = r
    BY <2>1
  <2>3. QED
    BY <2>1, <2>2
<1>2. SUFFICES ASSUME NEW e \in Clients, job'[e].at \in Deciders
               PROVE  \E q \in Requests :
                        /\ job'[e].of = {q} /\ request'[q].status = "pending"
                        /\ \A d \in Clients \ {e} : job'[d].at \in Deciders => job'[d].of # {q}
  BY <1>1 DEF Decided, Deciders
<1>3. e # c /\ job'[e] = job[e] /\ job[e].of # {r}
  BY <1>1, <1>2 DEF Deciders
<1>4. PICK q \in Requests :
        /\ job[e].of = {q} /\ request[q].status = "pending"
        /\ \A d \in Clients \ {e} : job[d].at \in Deciders => job[d].of # {q}
  BY <1>2, <1>3 DEF Decided
<1>5. \A d \in Clients \ {e} : job'[d].at \in Deciders => job'[d].of # {q}
  BY <1>4 DEF Deciders
<1>6. QED
  BY <1>3, <1>4, <1>5

\* The override is written with the text being approved.
LEMMA WritesInForce ==
  ASSUME TypeOK, OwnersTexts, InForce, NEW c \in Clients, NEW r \in Requests, WriteOverride(c, r)
  PROVE  InForce'
<1>1. job[c].at = "approve"
  BY DEF WriteOverride
<1>2. /\ job'[c].at = "approved" /\ job'[c].of = job[c].of /\ job'[c].text = job[c].text
      /\ \A d \in Clients \ {c} : job'[d] = job[d]
      /\ template'.is /\ template'.text = job[c].text /\ request' = request
  BY WritesOverride
<1>3. Decided'
  <2>1. \A d \in Clients : /\ job'[d].at \in Deciders <=> job[d].at \in Deciders
                           /\ job'[d].of = job[d].of
    BY <1>1, <1>2 DEF Deciders
  <2>2. QED
    BY <1>2, <2>1 DEF InForce, Decided, Deciders
<1>4. template'.text \in BeingApproved'
  BY <1>2 DEF BeingApproved
<1>5. QED
  BY <1>2, <1>3, <1>4 DEF InForce, InForceTexts

\* Once approved the request holds the text that was being approved.
LEMMA ApprovesInForce ==
  ASSUME TypeOK, InForce, NEW c \in Clients, NEW r \in Requests, SaveApproval(c, r)
  PROVE  InForce'
<1>1. job[c].at = "approved" /\ job[c].of = {r}
  BY DEF SaveApproval
<1>2. /\ job'[c].at = "idle" /\ \A d \in Clients \ {c} : job'[d] = job[d]
      /\ request'[r].status = "approved" /\ request'[r].approved = job[c].text
      /\ \A q \in Requests \ {r} : request'[q] = request[q]
      /\ template' = template
  BY SavesApproval
<1>3. Decided' /\ request[r].status = "pending"
  BY <1>1, <1>2, DecidedKept DEF InForce, Deciders
<1>4. template.is /\ template.text \in InForceTexts
  BY <1>1 DEF InForce, Overridden
<1>5. ASSUME NEW q \in Approved PROVE request[q].approved \in InForceTexts'
  <2>1. q \in Approved' /\ request'[q].approved = request[q].approved
    BY <1>2, <1>3 DEF Approved
  <2>2. QED
    BY <2>1 DEF InForceTexts
<1>6. ASSUME NEW d \in Clients, job[d].at = "approved" PROVE job[d].text \in InForceTexts'
  <2>1. CASE d = c
    <3>1. r \in Approved'
      BY <1>2 DEF Approved
    <3>2. QED
      BY <1>2, <2>1, <3>1 DEF InForceTexts
  <2>2. CASE d # c
    BY <1>2, <1>6, <2>2 DEF InForceTexts, BeingApproved
  <2>3. QED
    BY <2>1, <2>2
<1>7. template.text \in InForceTexts'
  <2>1. CASE \E q \in Approved : template.text = request[q].approved
    BY <1>5, <2>1
  <2>2. CASE \E d \in Clients : job[d].at = "approved" /\ template.text = job[d].text
    BY <1>6, <2>2
  <2>3. QED
    BY <1>4, <2>1, <2>2 DEF InForceTexts, BeingApproved
<1>8. QED
  BY <1>2, <1>3, <1>4, <1>7 DEF InForce

\* A rejection changes no request that was approved, and neither does a new request.
LEMMA RejectsInForce ==
  ASSUME TypeOK, InForce, NEW c \in Clients, NEW r \in Requests, Reject(c, r)
  PROVE  InForce'
<1>1. job[c].at = "reject" /\ job[c].of = {r}
  BY DEF Reject
<1>2. /\ job'[c].at = "idle" /\ \A d \in Clients \ {c} : job'[d] = job[d]
      /\ request'[r].status = "rejected"
      /\ \A q \in Requests \ {r} : request'[q] = request[q]
      /\ template' = template
  BY SavesRejection
<1>3. Decided' /\ request[r].status = "pending"
  BY <1>1, <1>2, DecidedKept DEF InForce, Deciders
<1>4. Approved' = Approved /\ \A q \in Approved : request'[q] = request[q]
  BY <1>2, <1>3 DEF Approved
<1>5. BeingApproved' = BeingApproved
  BY <1>1, <1>2 DEF BeingApproved
<1>6. InForceTexts' = InForceTexts
  BY <1>4, <1>5 DEF InForceTexts
<1>7. Overridden' => Overridden
  BY <1>1, <1>2, <1>4 DEF Overridden, MayOverride
<1>8. QED
  BY <1>2, <1>3, <1>6, <1>7 DEF InForce

LEMMA SubmitsInForce ==
  ASSUME TypeOK, InForce, NEW r \in Requests, Submit(r)
  PROVE  InForce'
<1>1. /\ request[r].status = "none" /\ request'[r].status = "pending"
      /\ \A q \in Requests \ {r} : request'[q] = request[q]
      /\ UNCHANGED <<template, job>>
  BY Submits
<1>2. Decided'
  BY <1>1 DEF InForce, Decided, Deciders
<1>3. Approved' = Approved /\ \A q \in Approved : request'[q] = request[q]
  BY <1>1 DEF Approved
<1>4. InForceTexts' = InForceTexts
  BY <1>1, <1>3 DEF InForceTexts, BeingApproved
<1>5. Overridden' => Overridden
  BY <1>1, <1>3 DEF Overridden, MayOverride
<1>6. QED
  BY <1>1, <1>2, <1>4, <1>5 DEF InForce

LEMMA NextInForce ==
  ASSUME DecidedOnce, ApprovalsFinish
  PROVE  Endorsed /\ InForce /\ [Next]_vars => InForce'
<1> SUFFICES ASSUME Endorsed, InForce, [Next]_vars PROVE InForce'
  OBVIOUS
<1>0. TypeOK /\ OwnersTexts
  BY DEF Endorsed
<1>1. CASE UNCHANGED <<template, request, job>>
  BY <1>1 DEF InForce, Decided, Overridden, MayOverride, InForceTexts, Approved, BeingApproved
<1>2. ASSUME NEW c \in Clients, Switching(c) \/ Queuing(c) PROVE InForce'
  <2>1. KeepsWording(c)
    BY <1>0, <1>2, SwitchingKeeps, QueuingKeeps
  <2>2. /\ job[c].at # "approved" /\ job'[c].at \notin Deciders
        /\ \A d \in Clients \ {c} : job'[d] = job[d]
        /\ request' = request
        /\ template.is => template'.is /\ template'.text = template.text
    BY <2>1 DEF KeepsWording, Deciders
  <2>3. QED
    BY <2>2, InForceKept DEF InForce
<1>3. ASSUME NEW c \in Clients, Die(c) PROVE InForce'
  <2>1. /\ job[c].at # "approved" /\ job'[c].at = "idle"
        /\ \A d \in Clients \ {c} : job'[d] = job[d]
        /\ UNCHANGED <<template, request>>
    BY <1>0, <1>3, Dies DEF ApprovalsFinish
  <2>2. job'[c].at \notin Deciders
    BY <2>1 DEF Deciders
  <2>3. QED
    BY <2>1, <2>2, InForceKept DEF InForce
<1>4. CASE \E c \in Clients : Deciding(c)
  BY <1>0, <1>4, BeginsInForce, WritesInForce, ApprovesInForce, RejectsInForce DEF Deciding
<1>5. QED
  BY <1>0, <1>1, <1>2, <1>3, <1>4, SubmitsInForce
  DEF Next, vars, SwitchPlatform, ApplyDefaults, SwitchSetting

\* If one request is decided in one tab at a time and no process dies between the
\* two saves of an approval, the wording in force is an approved request's, or that
\* of a request just being approved.
THEOREM WordingApproved ==
  ASSUME DecidedOnce, ApprovalsFinish
  PROVE  Spec => []OverrideIsApproved
<1>1. InForce => OverrideIsApproved
  BY DEF InForce, Overridden, InForceTexts, OverrideIsApproved
<1>2. Endorsed /\ InForce /\ [Next]_vars => InForce'
  BY NextInForce
<1>3. QED
  BY <1>1, <1>2, InitEndorsed, NextEndorsed, InitInForce, PTL DEF Spec

----------------------------------------------------------------------------
LEMMA FormSets ==
  ASSUME form \in [Desks -> Form], NEW d \in Desks, NEW f \in Form
  PROVE  [form EXCEPT ![d] = f] \in [Desks -> Form]
OBVIOUS

LEMMA NoFormTyped == NoForm \in Form
BY DEF NoForm, Form, FormOps, FormSteps

LEMMA LeavesTyped ==
  ASSUME form \in [Desks -> Form], NEW d \in Desks, Leave(d)
  PROVE  form' \in [Desks -> Form]
BY NoFormTyped DEF Leave

LEMMA FoundAreCustomers == \A p \in Phones : Found(p) \subseteq Customers
BY DEF Found

\* What beginning a request leaves alone.
LEMMA BegunTyped ==
  ASSUME IntakeTypeOK, Begun
  PROVE  begun' \in 0..MaxRequests
BY RequestsAssumption DEF IntakeTypeOK, Begun

\* Beginning a request keeps rows and requests typed.
LEMMA OrdersBegunTyped ==
  ASSUME IntakeTypeOK, NEW d \in Desks, NEW p \in Phones, NEW ks \in SUBSET Categories,
         NEW posted \in SUBSET Items, NEW op \in {"public", "office"},
         BeginOrder(d, op, p, ks, posted)
  PROVE  IntakeTypeOK'
<1>1. PICK cs \in SUBSET Found(p) :
        form' = [form EXCEPT ![d] = [NoForm EXCEPT
          !.op = op, !.at = IF op = "office" /\ cs = {} THEN "customer" ELSE "place",
          !.phone = {p}, !.category = ks, !.customer = cs, !.posted = posted]]
  BY DEF BeginOrder
<1>2. cs \subseteq Customers BY FoundAreCustomers
<1>3. [NoForm EXCEPT !.op = op, !.at = IF op = "office" /\ cs = {} THEN "customer" ELSE "place",
                     !.phone = {p}, !.category = ks, !.customer = cs, !.posted = posted] \in Form
  BY <1>2 DEF NoForm, Form, FormOps, FormSteps
<1>4. form' \in [Desks -> Form] BY <1>1, <1>3 DEF IntakeTypeOK
<1>5. begun' \in 0..MaxRequests BY BegunTyped DEF BeginOrder, MayTake
<1>6. UNCHANGED <<category, item, customer, order, behind, had>> BY DEF BeginOrder
<1>7. QED BY <1>4, <1>5, <1>6 DEF IntakeTypeOK

LEMMA EditsBegunTyped ==
  ASSUME IntakeTypeOK, NEW d \in Desks, NEW p \in Phones, NEW ks \in SUBSET Categories,
         NEW posted \in SUBSET Items, NEW o \in Orders, BeginEdit(d, o, p, ks, posted)
  PROVE  IntakeTypeOK'
<1>1. PICK cs \in SUBSET Found(p) :
        form' = [form EXCEPT ![d] = [NoForm EXCEPT
          !.op = "edit", !.at = IF cs = {} THEN "customer" ELSE "update",
          !.order = {o}, !.phone = {p}, !.category = ks,
          !.customer = cs, !.was = order[o].customer, !.posted = posted]]
  BY DEF BeginEdit
<1>2. cs \subseteq Customers BY FoundAreCustomers
<1>3. order[o].customer \subseteq Customers BY DEF IntakeTypeOK, OrderRow
<1>4. [NoForm EXCEPT !.op = "edit", !.at = IF cs = {} THEN "customer" ELSE "update",
                     !.order = {o}, !.phone = {p}, !.category = ks, !.customer = cs,
                     !.was = order[o].customer, !.posted = posted] \in Form
  BY <1>2, <1>3 DEF NoForm, Form, FormOps, FormSteps
<1>5. form' \in [Desks -> Form] BY <1>1, <1>4 DEF IntakeTypeOK
<1>6. begun' \in 0..MaxRequests BY BegunTyped DEF BeginEdit, MayTake
<1>7. UNCHANGED <<category, item, customer, order, behind, had>> BY DEF BeginEdit
<1>8. QED BY <1>5, <1>6, <1>7 DEF IntakeTypeOK

LEMMA OthersBegunTyped ==
  ASSUME IntakeTypeOK, NEW d \in Desks,
         \/ \E o \in Orders : BeginRecycle(d, o)
         \/ \E c \in Customers : BeginDeleteCustomer(d, c) \/ \E p \in Phones : BeginPutCustomer(d, c, p)
  PROVE  IntakeTypeOK'
<1>1. form' \in [Desks -> Form]
  <2>1. ASSUME NEW o \in Orders, BeginRecycle(d, o) PROVE form' \in [Desks -> Form]
    BY <2>1 DEF IntakeTypeOK, BeginRecycle, Form, FormOps, FormSteps, NoForm, OrderRow
  <2>2. ASSUME NEW c \in Customers, BeginDeleteCustomer(d, c) PROVE form' \in [Desks -> Form]
    BY <2>2 DEF IntakeTypeOK, BeginDeleteCustomer, Form, FormOps, FormSteps, NoForm
  <2>3. ASSUME NEW c \in Customers, NEW p \in Phones, BeginPutCustomer(d, c, p)
        PROVE  form' \in [Desks -> Form]
    BY <2>3 DEF IntakeTypeOK, BeginPutCustomer, Form, FormOps, FormSteps, NoForm
  <2>4. QED BY <2>1, <2>2, <2>3
<1>2. begun' \in 0..MaxRequests
  BY BegunTyped DEF BeginRecycle, BeginDeleteCustomer, BeginPutCustomer, MayTake
<1>3. UNCHANGED <<category, item, customer, order, behind, had>>
  BY DEF BeginRecycle, BeginDeleteCustomer, BeginPutCustomer
<1>4. QED BY <1>1, <1>2, <1>3 DEF IntakeTypeOK

----------------------------------------------------------------------------
\* Types

LEMMA AddsTyped ==
  ASSUME IntakeTypeOK, NEW c \in Customers, NEW p \in Phones, AddCustomer(c, p)
  PROVE  /\ customer' \in [Customers -> CustomerRow]
         /\ had' \in [Customers -> SUBSET Phones]
BY DEF IntakeTypeOK, AddCustomer, CustomerRow

LEMMA ProceedsTyped ==
  ASSUME form \in [Desks -> Form], NEW d \in Desks, NEW at \in FormSteps, Proceed(d, at)
  PROVE  form' \in [Desks -> Form]
BY DEF Proceed, Form

\* A request and an order remain typed when their columns change.
LEMMA FormChanges ==
  ASSUME NEW f \in Form, NEW at \in FormSteps, NEW ks \in SUBSET Categories
  PROVE  /\ \A c \in Customers : [f EXCEPT !.customer = {c}, !.at = at] \in Form
         /\ \A o \in Orders : [f EXCEPT !.at = at, !.order = {o}, !.category = ks] \in Form
         /\ \A items \in SUBSET Items :
              [f EXCEPT !.at = at, !.category = ks, !.doomed = items] \in Form
BY DEF Form

LEMMA OrderChanges ==
  ASSUME NEW row \in OrderRow, NEW ks \in SUBSET Categories, NEW cs \in SUBSET Customers,
         NEW ps \in SUBSET Phones, NEW items \in SUBSET Items
  PROVE  /\ [row EXCEPT !.customer = cs, !.phone = ps, !.category = ks] \in OrderRow
         /\ [row EXCEPT !.answers = items] \in OrderRow
         /\ [NoOrder EXCEPT !.there = TRUE, !.category = ks, !.customer = cs, !.phone = ps] \in OrderRow
         /\ [NoOrder EXCEPT !.there = TRUE, !.customer = cs, !.phone = ps] \in OrderRow
BY DEF OrderRow, NoOrder

LEMMA CustomerCreatedTyped ==
  ASSUME IntakeTypeOK, NEW d \in Desks, CreateCustomer(d)
  PROVE  IntakeTypeOK'
<1>1. UNCHANGED <<category, item, order, behind, begun>> BY DEF CreateCustomer
<1>2. PICK p \in form[d].phone :
        IF Found(p) = {}
        THEN \E c \in Customers :
               /\ AddCustomer(c, p)
               /\ form' = [form EXCEPT ![d].customer = {c},
                                       ![d].at = IF form[d].op = "edit" THEN "update" ELSE "place"]
        ELSE Leave(d) /\ UNCHANGED <<customer, had>>
  BY DEF CreateCustomer
<1>3. p \in Phones BY DEF IntakeTypeOK, Form
<1>4. CASE Found(p) = {}
  <2>1. PICK c \in Customers :
          /\ AddCustomer(c, p)
          /\ form' = [form EXCEPT ![d].customer = {c},
                                  ![d].at = IF form[d].op = "edit" THEN "update" ELSE "place"]
    BY <1>2, <1>4
  <2>2. form[d] \in Form /\ "update" \in FormSteps /\ "place" \in FormSteps
    BY DEF IntakeTypeOK, FormSteps
  <2>3. [form[d] EXCEPT !.customer = {c}, !.at = IF form[d].op = "edit" THEN "update" ELSE "place"]
          \in Form
    BY <2>2, FormChanges
  <2>4. form' \in [Desks -> Form] BY <2>1, <2>3 DEF IntakeTypeOK
  <2>5. QED BY <1>1, <1>3, <2>1, <2>4, AddsTyped DEF IntakeTypeOK
<1>5. CASE Found(p) # {}
  BY <1>1, <1>2, <1>5, LeavesTyped DEF IntakeTypeOK
<1>6. QED BY <1>4, <1>5

LEMMA PlacedTyped ==
  ASSUME IntakeTypeOK, NEW d \in Desks, NEW o \in Orders, NEW c \in Customers, Placed(d, o, c)
  PROVE  order' \in [Orders -> OrderRow] /\ form' \in [Desks -> Form]
<1>1. form[d] \in Form /\ "clear" \in FormSteps BY DEF IntakeTypeOK, FormSteps
<1>2. PICK ks \in SUBSET Categories :
        /\ order' = [order EXCEPT ![o] = [NoOrder EXCEPT
                       !.there = TRUE, !.category = ks, !.customer = {c}, !.phone = form[d].phone]]
        /\ form' = [form EXCEPT ![d].at = "clear", ![d].order = {o}, ![d].category = ks]
  <2>1. form[d].category \in SUBSET Categories BY <1>1 DEF Form
  <2>2. QED BY <2>1 DEF Placed, Existing
<1>3. [form[d] EXCEPT !.at = "clear", !.order = {o}, !.category = ks] \in Form
  BY <1>1, FormChanges
<1>4. form[d].phone \in SUBSET Phones BY <1>1 DEF Form
<1>5. order[o] \in OrderRow BY DEF IntakeTypeOK
<1>6. [NoOrder EXCEPT !.there = TRUE, !.category = ks, !.customer = {c}, !.phone = form[d].phone]
        \in OrderRow
  BY <1>4, <1>5, OrderChanges
<1>7. QED BY <1>2, <1>3, <1>6 DEF IntakeTypeOK

LEMMA OrderPlacedTyped ==
  ASSUME IntakeTypeOK, NEW d \in Desks, PlaceOrder(d)
  PROVE  IntakeTypeOK'
<1>1. UNCHANGED <<category, item, behind, begun>> BY DEF PlaceOrder
<1>2. PICK o \in Orders, p \in form[d].phone :
        IF form[d].customer = {}
        THEN IF Found(p) = {}
             THEN \E c \in Customers : AddCustomer(c, p) /\ Placed(d, o, c)
             ELSE Leave(d) /\ UNCHANGED <<order, customer, had>>
        ELSE /\ \E c \in form[d].customer :
                  IF Here(c) THEN Placed(d, o, c) ELSE Leave(d) /\ UNCHANGED order
             /\ UNCHANGED <<customer, had>>
  BY DEF PlaceOrder
<1>3. p \in Phones BY DEF IntakeTypeOK, Form
<1>4. CASE Leave(d) /\ UNCHANGED <<order, customer, had>>
  BY <1>1, <1>4, LeavesTyped DEF IntakeTypeOK
<1>5. ASSUME NEW c \in Customers, AddCustomer(c, p), Placed(d, o, c) PROVE IntakeTypeOK'
  BY <1>1, <1>3, <1>5, AddsTyped, PlacedTyped DEF IntakeTypeOK
<1>6. ASSUME NEW c \in form[d].customer, Placed(d, o, c), UNCHANGED <<customer, had>>
      PROVE  IntakeTypeOK'
  <2>1. c \in Customers BY DEF IntakeTypeOK, Form
  <2>2. QED BY <1>1, <1>6, <2>1, PlacedTyped DEF IntakeTypeOK
<1>7. QED BY <1>2, <1>4, <1>5, <1>6

LEMMA OrderUpdatedTyped ==
  ASSUME IntakeTypeOK, NEW d \in Desks, UpdateOrder(d)
  PROVE  IntakeTypeOK'
<1>1. UNCHANGED <<category, item, customer, behind, had, begun>> BY DEF UpdateOrder
<1>2. \/ Leave(d) /\ UNCHANGED order
      \/ /\ Proceed(d, "clear")
         /\ \E o \in form[d].order, cs \in {form[d].customer, form[d].was} :
              order' = [order EXCEPT ![o].customer = cs, ![o].phone = form[d].phone,
                                     ![o].category = Existing(form[d].category)]
  BY DEF UpdateOrder
<1>3. form' \in [Desks -> Form]
  BY <1>2, LeavesTyped, ProceedsTyped DEF IntakeTypeOK, FormSteps
<1>4. order' \in [Orders -> OrderRow]
  <2>1. CASE UNCHANGED order BY <2>1 DEF IntakeTypeOK
  <2>2. ASSUME NEW o \in form[d].order, NEW cs \in {form[d].customer, form[d].was},
               order' = [order EXCEPT ![o].customer = cs, ![o].phone = form[d].phone,
                                      ![o].category = Existing(form[d].category)]
        PROVE  order' \in [Orders -> OrderRow]
    <3>1. form[d] \in Form BY DEF IntakeTypeOK
    <3>2. /\ o \in Orders
          /\ cs \in SUBSET Customers
          /\ form[d].phone \in SUBSET Phones
          /\ Existing(form[d].category) \in SUBSET Categories
      BY <3>1 DEF Form, Existing
    <3>3. order[o] \in OrderRow BY <3>2 DEF IntakeTypeOK
    <3>4. [order[o] EXCEPT !.customer = cs, !.phone = form[d].phone,
                           !.category = Existing(form[d].category)] \in OrderRow
      BY <3>2, <3>3, OrderChanges
    <3>5. QED BY <2>2, <3>2, <3>4 DEF IntakeTypeOK
  <2>3. QED BY <1>2, <2>1, <2>2
<1>5. QED BY <1>1, <1>3, <1>4 DEF IntakeTypeOK

LEMMA AnswersTyped ==
  ASSUME IntakeTypeOK, NEW d \in Desks, BeginSave(d) \/ CommitSave(d)
  PROVE  IntakeTypeOK'
<1>1. CASE BeginSave(d)
  <2>1. UNCHANGED <<category, item, customer, order, had, begun>> BY <1>1 DEF BeginSave
  <2>2. PICK o \in form[d].order :
          \E ks \in {order[o].category, form[d].category} :
            /\ form' = [form EXCEPT ![d].at = "write", ![d].category = ks,
                                    ![d].doomed = IF ks = {} THEN order[o].answers ELSE Doomed(o, ks)]
            /\ behind' = behind \ {o}
    BY <1>1 DEF BeginSave
  <2>3. o \in Orders BY DEF IntakeTypeOK, Form
  <2>4. order[o].category \in SUBSET Categories /\ form[d].category \in SUBSET Categories
    BY <2>3 DEF IntakeTypeOK, Form, OrderRow
  <2>5. order[o].answers \in SUBSET Items /\ \A ks : Doomed(o, ks) \in SUBSET Items
    BY <2>3 DEF IntakeTypeOK, OrderRow, Doomed
  <2>6. form' \in [Desks -> Form]
    <3>1. PICK ks \in SUBSET Categories, items \in SUBSET Items :
            form' = [form EXCEPT ![d].at = "write", ![d].category = ks, ![d].doomed = items]
      BY <2>2, <2>4, <2>5
    <3>2. form[d] \in Form /\ "write" \in FormSteps BY DEF IntakeTypeOK, FormSteps
    <3>3. [form[d] EXCEPT !.at = "write", !.category = ks, !.doomed = items] \in Form
      BY <3>2, FormChanges
    <3>4. QED BY <3>1, <3>3 DEF IntakeTypeOK
  <2>7. QED BY <2>1, <2>2, <2>6 DEF IntakeTypeOK
<1>2. CASE CommitSave(d)
  <2>1. UNCHANGED <<category, item, customer, behind, had, begun>> BY <1>2 DEF CommitSave
  <2>2. PICK o \in form[d].order, asked \in SUBSET Items :
          order' = [order EXCEPT ![o].answers =
                      (@ \ (form[d].doomed \cup asked)) \cup Answered(asked, form[d].posted)]
    BY <1>2 DEF CommitSave, Asked
  <2>3. order' \in [Orders -> OrderRow]
    <3>1. form[d] \in Form BY DEF IntakeTypeOK
    <3>2. o \in Orders /\ form[d].posted \in SUBSET Items BY <3>1 DEF Form
    <3>3. order[o] \in OrderRow BY <3>2 DEF IntakeTypeOK
    <3>4. order[o].answers \in SUBSET Items BY <3>3 DEF OrderRow
    <3>5. PICK items \in SUBSET Items : order' = [order EXCEPT ![o].answers = items]
      BY <2>2, <3>2, <3>4 DEF Answered
    <3>6. [order[o] EXCEPT !.answers = items] \in OrderRow
      BY <3>3, {} \in SUBSET Categories, {} \in SUBSET Customers, {} \in SUBSET Phones, OrderChanges
    <3>7. QED BY <3>2, <3>5, <3>6 DEF IntakeTypeOK
  <2>4. form' \in [Desks -> Form] BY <1>2, LeavesTyped DEF CommitSave, IntakeTypeOK
  <2>5. QED BY <2>1, <2>3, <2>4 DEF IntakeTypeOK
<1>3. QED BY <1>1, <1>2

LEMMA RecycledTyped ==
  ASSUME IntakeTypeOK, NEW d \in Desks, Recycle(d)
  PROVE  IntakeTypeOK'
<1>1. UNCHANGED <<category, item, customer, had, begun>> /\ Leave(d) BY DEF Recycle
<1>2. form' \in [Desks -> Form] BY <1>1, LeavesTyped DEF IntakeTypeOK
<1>3. CASE UNCHANGED <<order, behind>> BY <1>1, <1>2, <1>3 DEF IntakeTypeOK
<1>4. ASSUME NEW o \in form[d].order, NEW n \in Orders,
             order' = [order EXCEPT ![n] = [NoOrder EXCEPT
               !.there = TRUE, !.category = form[d].category,
               !.customer = form[d].customer, !.answers = order[o].answers]],
             behind' = IF o \in behind THEN behind \cup {n} ELSE behind
      PROVE  IntakeTypeOK'
  <2>1. o \in Orders BY DEF IntakeTypeOK, Form
  <2>2. order' \in [Orders -> OrderRow] BY <1>4, <2>1 DEF IntakeTypeOK, Form, OrderRow, NoOrder
  <2>3. QED BY <1>1, <1>2, <1>4, <2>2 DEF IntakeTypeOK
<1>5. QED BY <1>3, <1>4 DEF Recycle

LEMMA CustomersTyped ==
  ASSUME IntakeTypeOK, NEW d \in Desks, PutCustomer(d) \/ DeleteCustomer(d) \/ Abandon(d)
  PROVE  IntakeTypeOK'
<1>1. form' \in [Desks -> Form]
  BY LeavesTyped DEF PutCustomer, DeleteCustomer, Abandon, IntakeTypeOK
<1>2. CASE PutCustomer(d)
  <2>1. UNCHANGED <<category, item, order, behind, begun>> BY <1>2 DEF PutCustomer
  <2>2. PICK c \in form[d].customer, p \in form[d].phone :
          AddCustomer(c, p) \/ UNCHANGED <<customer, had>>
    BY <1>2 DEF PutCustomer
  <2>3. c \in Customers /\ p \in Phones BY DEF IntakeTypeOK, Form
  <2>4. QED BY <1>1, <2>1, <2>2, <2>3, AddsTyped DEF IntakeTypeOK
<1>3. CASE DeleteCustomer(d)
  <2>1. UNCHANGED <<category, item, behind, had, begun>> BY <1>3 DEF DeleteCustomer
  <2>2. PICK c \in form[d].customer :
          /\ customer' = [customer EXCEPT ![c].is = "gone"]
          /\ order' = [o \in Orders |-> [order[o] EXCEPT !.customer = @ \ {c}]]
    BY <1>3 DEF DeleteCustomer
  <2>3. customer' \in [Customers -> CustomerRow] BY <2>2 DEF IntakeTypeOK, CustomerRow
  <2>4. order' \in [Orders -> OrderRow] BY <2>2 DEF IntakeTypeOK, OrderRow
  <2>5. QED BY <1>1, <2>1, <2>3, <2>4 DEF IntakeTypeOK
<1>4. CASE Abandon(d)
  <2>1. UNCHANGED <<category, item, customer, order, had, begun>> BY <1>4 DEF Abandon
  <2>2. behind' \in SUBSET Orders BY <1>4 DEF Abandon, IntakeTypeOK, Form
  <2>3. QED BY <1>1, <2>1, <2>2 DEF IntakeTypeOK
<1>5. QED BY <1>2, <1>3, <1>4

LEMMA SettingUpTyped ==
  ASSUME IntakeTypeOK, SettingUp
  PROVE  IntakeTypeOK'
<1>1. begun' \in 0..MaxRequests
  BY BegunTyped DEF SettingUp, CreateCategory, SwitchCategory, DeleteCategory, CreateItem, EditItem, DeleteItem
<1>2. UNCHANGED <<customer, form, had>>
  BY DEF SettingUp, CreateCategory, SwitchCategory, DeleteCategory, CreateItem, EditItem, DeleteItem
<1>3. ASSUME NEW k \in Categories, CreateCategory(k) \/ SwitchCategory(k) PROVE IntakeTypeOK'
  <2>1. UNCHANGED <<item, order, behind>> BY <1>3 DEF CreateCategory, SwitchCategory
  <2>2. category' \in [Categories -> CategoryRow]
    BY <1>3 DEF CreateCategory, SwitchCategory, IntakeTypeOK, CategoryRow
  <2>3. QED BY <1>1, <1>2, <2>1, <2>2 DEF IntakeTypeOK
<1>4. ASSUME NEW k \in Categories, DeleteCategory(k) PROVE IntakeTypeOK'
  <2>1. UNCHANGED behind BY <1>4 DEF DeleteCategory
  <2>2. category' \in [Categories -> CategoryRow] BY <1>4 DEF DeleteCategory, IntakeTypeOK, CategoryRow
  <2>3. item' \in [Items -> ItemRow] BY <1>4 DEF DeleteCategory, IntakeTypeOK, ItemRow
  <2>4. order' \in [Orders -> OrderRow] BY <1>4 DEF DeleteCategory, IntakeTypeOK, OrderRow
  <2>5. QED BY <1>1, <1>2, <2>1, <2>2, <2>3, <2>4 DEF IntakeTypeOK
<1>5. ASSUME NEW i \in Items, NEW k \in Categories, CreateItem(i, k) \/ EditItem(i, k)
      PROVE  IntakeTypeOK'
  <2>1. UNCHANGED <<category, order>> BY <1>5 DEF CreateItem, EditItem
  <2>2. behind' \in SUBSET Orders BY <1>5 DEF CreateItem, EditItem, IntakeTypeOK
  <2>3. item' \in [Items -> ItemRow] BY <1>5 DEF CreateItem, EditItem, IntakeTypeOK, ItemRow
  <2>4. QED BY <1>1, <1>2, <2>1, <2>2, <2>3 DEF IntakeTypeOK
<1>6. ASSUME NEW i \in Items, DeleteItem(i) PROVE IntakeTypeOK'
  <2>1. UNCHANGED <<category, order, behind>> BY <1>6 DEF DeleteItem
  <2>2. item' \in [Items -> ItemRow] BY <1>6 DEF DeleteItem, IntakeTypeOK, ItemRow
  <2>3. QED BY <1>1, <1>2, <2>1, <2>2 DEF IntakeTypeOK
<1>7. QED BY <1>3, <1>4, <1>5, <1>6 DEF SettingUp

LEMMA OrderCreatedTyped ==
  ASSUME IntakeTypeOK, NEW c \in Customers, CreateOrder(c)
  PROVE  IntakeTypeOK'
<1>1. begun' \in 0..MaxRequests BY BegunTyped DEF CreateOrder
<1>2. UNCHANGED <<category, item, customer, form, behind, had>> BY DEF CreateOrder
<1>3. order' \in [Orders -> OrderRow]
  <2>1. PICK o \in Orders :
          order' = [order EXCEPT ![o] = [NoOrder EXCEPT
                      !.there = TRUE, !.customer = {c}, !.phone = customer[c].phone]]
    BY DEF CreateOrder
  <2>2. customer[c].phone \in SUBSET Phones BY DEF IntakeTypeOK, CustomerRow
  <2>3. order[o] \in OrderRow BY DEF IntakeTypeOK
  <2>4. [NoOrder EXCEPT !.there = TRUE, !.customer = {c}, !.phone = customer[c].phone] \in OrderRow
    BY <2>2, <2>3, {} \in SUBSET Categories, {} \in SUBSET Items, OrderChanges
  <2>5. QED BY <2>1, <2>4 DEF IntakeTypeOK
<1>4. QED BY <1>1, <1>2, <1>3 DEF IntakeTypeOK

LEMMA IntakeStarts == IntakeInit => IntakeTypeOK
<1> SUFFICES ASSUME IntakeInit PROVE IntakeTypeOK OBVIOUS
<1>1. item \in [Items -> ItemRow] BY DEF IntakeInit, ItemRow, NoItem
<1>2. form \in [Desks -> Form] BY NoFormTyped DEF IntakeInit
<1>3. QED BY <1>1, <1>2, RequestsAssumption
          DEF IntakeInit, IntakeTypeOK, CategoryRow, CustomerRow, OrderRow, NoOrder

LEMMA IntakeSteps == IntakeTypeOK /\ [IntakeNext]_intake => IntakeTypeOK'
<1> SUFFICES ASSUME IntakeTypeOK, [IntakeNext]_intake PROVE IntakeTypeOK' OBVIOUS
<1>1. ASSUME NEW d \in Desks, Filling(d) PROVE IntakeTypeOK'
  <2>1. \A ks \in {{}} \cup {{k} : k \in Categories} : ks \in SUBSET Categories OBVIOUS
  <2>2. QED BY <1>1, <2>1, OrdersBegunTyped, EditsBegunTyped, OthersBegunTyped, CustomerCreatedTyped,
               OrderPlacedTyped, OrderUpdatedTyped, AnswersTyped, RecycledTyped, CustomersTyped
            DEF Filling
<1>2. CASE UNCHANGED intake BY <1>2 DEF intake, IntakeTypeOK
<1>3. QED BY <1>1, <1>2, SettingUpTyped, OrderCreatedTyped DEF IntakeNext

\* Rows and requests keep their shape.
THEOREM IntakeTyped == IntakeSpec => []IntakeTypeOK
BY IntakeStarts, IntakeSteps, PTL DEF IntakeSpec

----------------------------------------------------------------------------
\* The customer of an order

EditsApart == <<"edit", "delete">> \in Separate /\ <<"delete", "edit">> \in Separate

\* The phone a customer has now is one it has had.
PhonesRemembered == \A c \in Customers : customer[c].phone \subseteq had[c]

\* Who the form has found, or made, has had its phone; an edit that is about to save
\* still has a customer to save.
Fits(f) ==
  /\ \A p, q \in f.phone : p = q
  /\ f.at \in {"place", "update"} => \A c \in f.customer : f.phone \subseteq had[c]
  /\ f.at = "update" => f.op = "edit" /\ \E c \in f.customer : Here(c)
  /\ f.at = "delete" => f.op = "delete"
FormsFit == \A d \in Desks : Fits(form[d])

NoDeleteDuringEdit == \A d, e \in Desks : ~(form[d].op = "edit" /\ form[e].op = "delete")

IntakeInv ==
  IntakeTypeOK /\ PhonesRemembered /\ CustomerOfCaller /\ FormsFit /\ NoDeleteDuringEdit

\* No customer forgets a phone; none is deleted while an edit is in flight.
CustomersStay ==
  /\ \A c \in Customers : had[c] \subseteq had'[c]
  /\ \/ \A c \in Customers : Here(c) => Here(c)'
     \/ \A e \in Desks : form[e].op # "edit"

LEMMA FormsKept ==
  ASSUME IntakeInv, CustomersStay, NEW d \in Desks, NEW f \in Form,
         form' = [form EXCEPT ![d] = f], Fits(f)',
         f.op = "edit" => form[d].op = "edit" \/ \A e \in Desks : form[e].op # "delete",
         f.op = "delete" => form[d].op = "delete" \/ \A e \in Desks : form[e].op # "edit"
  PROVE  FormsFit' /\ NoDeleteDuringEdit'
<1>1. form \in [Desks -> Form] BY DEF IntakeInv, IntakeTypeOK
<1>2. ASSUME NEW e \in Desks PROVE Fits(form[e])'
  <2>1. CASE e = d BY <1>1, <2>1
  <2>2. CASE e # d
    <3>1. form'[e] = form[e] /\ form[e].customer \subseteq Customers BY <1>1, <2>2 DEF Form
    <3>2. Fits(form[e]) BY DEF IntakeInv, FormsFit
    <3>3. QED BY <3>1, <3>2 DEF Fits, CustomersStay
  <2>3. QED BY <2>1, <2>2
<1>3. ASSUME NEW e \in Desks, NEW g \in Desks PROVE ~(form'[e].op = "edit" /\ form'[g].op = "delete")
  <2>1. ~(form[e].op = "edit" /\ form[g].op = "delete") BY DEF IntakeInv, NoDeleteDuringEdit
  <2>2. ~(f.op = "edit" /\ f.op = "delete") OBVIOUS
  <2>3. QED BY <1>1, <2>1, <2>2 DEF IntakeInv, NoDeleteDuringEdit
<1>4. QED BY <1>2, <1>3 DEF FormsFit, NoDeleteDuringEdit

LEMMA Left ==
  ASSUME IntakeInv, CustomersStay, NEW d \in Desks, Leave(d)
  PROVE  FormsFit' /\ NoDeleteDuringEdit'
<1>1. Fits(NoForm)' BY DEF Fits, NoForm
<1>2. NoForm.op = "none" BY DEF NoForm
<1>3. QED BY <1>1, <1>2, NoFormTyped, FormsKept DEF Leave

LEMMA Unmoved ==
  ASSUME IntakeInv, CustomersStay, UNCHANGED form
  PROVE  FormsFit' /\ NoDeleteDuringEdit'
<1>1. form \in [Desks -> Form] BY DEF IntakeInv, IntakeTypeOK
<1>2. ASSUME NEW e \in Desks PROVE Fits(form[e])'
  <2>1. Fits(form[e]) /\ form[e].customer \subseteq Customers BY <1>1 DEF IntakeInv, FormsFit, Form
  <2>2. QED BY <2>1 DEF Fits, CustomersStay
<1>3. QED BY <1>2 DEF IntakeInv, FormsFit, NoDeleteDuringEdit

LEMMA SameCustomersStay == ASSUME UNCHANGED <<customer, had>> PROVE CustomersStay
BY DEF CustomersStay, Here

\* A customer who is given a phone remembers it.
LEMMA AddedStay ==
  ASSUME IntakeInv, NEW c \in Customers, NEW p \in Phones, AddCustomer(c, p)
  PROVE  CustomersStay /\ PhonesRemembered' /\ p \in had'[c] /\ Here(c)'
BY DEF IntakeInv, IntakeTypeOK, PhonesRemembered, AddCustomer, CustomersStay, Here, CustomerRow

\* Rows that keep customer and phone, or have no phone, keep their callers.
LEMMA CallersKept ==
  ASSUME IntakeInv, CustomersStay,
         \A o \in Orders : \/ order'[o].customer \subseteq order[o].customer /\ order'[o].phone = order[o].phone
                           \/ \A c \in order'[o].customer : order'[o].phone \subseteq had'[c]
  PROVE  CustomerOfCaller'
<1> SUFFICES ASSUME NEW o \in Orders, NEW c \in order'[o].customer
             PROVE  order'[o].phone \subseteq had'[c]
  BY DEF CustomerOfCaller
<1>1. order[o].customer \subseteq Customers BY DEF IntakeInv, IntakeTypeOK, OrderRow
<1>2. QED BY <1>1 DEF IntakeInv, CustomerOfCaller, CustomersStay

----------------------------------------------------------------------------
\* The steps

LEMMA OrderBegun ==
  ASSUME IntakeInv, NEW d \in Desks, NEW p \in Phones, NEW ks \in SUBSET Categories,
         NEW posted \in SUBSET Items, NEW op \in {"public", "office"},
         BeginOrder(d, op, p, ks, posted)
  PROVE  FormsFit' /\ NoDeleteDuringEdit'
<1>1. PICK cs \in SUBSET Found(p) :
        form' = [form EXCEPT ![d] = [NoForm EXCEPT
          !.op = op, !.at = IF op = "office" /\ cs = {} THEN "customer" ELSE "place",
          !.phone = {p}, !.category = ks, !.customer = cs, !.posted = posted]]
  BY DEF BeginOrder
<1> DEFINE f == [NoForm EXCEPT
          !.op = op, !.at = IF op = "office" /\ cs = {} THEN "customer" ELSE "place",
          !.phone = {p}, !.category = ks, !.customer = cs, !.posted = posted]
<1>2. cs \subseteq Customers BY FoundAreCustomers
<1>3. f \in Form BY <1>2 DEF NoForm, Form, FormOps, FormSteps
<1>4. /\ f.op = op /\ f.phone = {p} /\ f.customer = cs
      /\ f.at \in {"customer", "place"}
  BY DEF NoForm
<1>5. UNCHANGED <<customer, had>> BY DEF BeginOrder
<1>6. \A c \in cs : p \in had[c]
  BY <1>2 DEF Found, IntakeInv, PhonesRemembered
<1> HIDE DEF f
<1>7. Fits(f)' BY <1>4, <1>5, <1>6 DEF Fits
<1>8. form' = [form EXCEPT ![d] = f] BY <1>1 DEF f
<1>9. QED BY <1>3, <1>4, <1>5, <1>7, <1>8, SameCustomersStay, FormsKept

LEMMA EditBegun ==
  ASSUME EditsApart, IntakeInv, NEW d \in Desks, NEW p \in Phones, NEW ks \in SUBSET Categories,
         NEW posted \in SUBSET Items, NEW o \in Orders, BeginEdit(d, o, p, ks, posted)
  PROVE  FormsFit' /\ NoDeleteDuringEdit'
<1>1. PICK cs \in SUBSET Found(p) :
        /\ cs = {} <=> Found(p) = {}
        /\ form' = [form EXCEPT ![d] = [NoForm EXCEPT
             !.op = "edit", !.at = IF cs = {} THEN "customer" ELSE "update",
             !.order = {o}, !.phone = {p}, !.category = ks,
             !.customer = cs, !.was = order[o].customer, !.posted = posted]]
  BY DEF BeginEdit
<1>0. PICK f : f = [NoForm EXCEPT
             !.op = "edit", !.at = IF cs = {} THEN "customer" ELSE "update",
             !.order = {o}, !.phone = {p}, !.category = ks,
             !.customer = cs, !.was = order[o].customer, !.posted = posted]
  OBVIOUS
<1>2. cs \subseteq Customers BY FoundAreCustomers
<1>3. order[o].customer \subseteq Customers BY DEF IntakeInv, IntakeTypeOK, OrderRow
<1>4. f \in Form BY <1>0, <1>2, <1>3 DEF NoForm, Form, FormOps, FormSteps
<1>5. /\ f.op = "edit" /\ f.phone = {p} /\ f.customer = cs
      /\ f.at = IF cs = {} THEN "customer" ELSE "update"
  BY <1>0 DEF NoForm
<1>6. UNCHANGED <<customer, had>> BY DEF BeginEdit
<1>7. \A c \in cs : p \in had[c] /\ Here(c)
  BY <1>2 DEF Found, IntakeInv, PhonesRemembered
<1>8. \A e \in Desks : form[e].op # "delete" BY DEF EditsApart, BeginEdit, MayTake
<1>9. Fits(f)'
  <2>1. \A c \in cs : p \in had'[c] /\ Here(c)' BY <1>6, <1>7 DEF Here
  <2>2. f.at = "update" => cs # {} BY <1>5
  <2>3. QED BY <1>5, <2>1, <2>2 DEF Fits
<1>10. form' = [form EXCEPT ![d] = f] BY <1>0, <1>1
<1>11. f.op # "delete" BY <1>5
<1>12. CustomersStay BY <1>6, SameCustomersStay
<1>13. QED BY <1>4, <1>8, <1>9, <1>10, <1>11, <1>12, FormsKept

LEMMA OtherBegun ==
  ASSUME EditsApart, IntakeInv, NEW d \in Desks,
         \/ \E o \in Orders : BeginRecycle(d, o)
         \/ \E c \in Customers : BeginDeleteCustomer(d, c) \/ \E p \in Phones : BeginPutCustomer(d, c, p)
  PROVE  FormsFit' /\ NoDeleteDuringEdit'
<1>1. UNCHANGED <<customer, had>>
  BY DEF BeginRecycle, BeginDeleteCustomer, BeginPutCustomer
<1>2. PICK f \in Form :
        /\ form' = [form EXCEPT ![d] = f]
        /\ f.at = f.op /\ f.op \in {"recycle", "delete", "phone"}
        /\ \A p, q \in f.phone : p = q
        /\ f.op = "delete" => \A e \in Desks : form[e].op # "edit"
  <2>1. ASSUME NEW o \in Orders, BeginRecycle(d, o)
        PROVE  \E f \in Form : /\ form' = [form EXCEPT ![d] = f]
                               /\ f.at = f.op /\ f.op = "recycle" /\ f.phone = {}
    <3> DEFINE f == [NoForm EXCEPT !.op = "recycle", !.at = "recycle", !.order = {o},
                       !.category = order[o].category, !.customer = order[o].customer]
    <3>1. order[o] \in OrderRow BY DEF IntakeInv, IntakeTypeOK
    <3>2. f \in Form BY <3>1 DEF Form, FormOps, FormSteps, NoForm, OrderRow
    <3>3. f.at = f.op /\ f.op = "recycle" /\ f.phone = {} BY DEF NoForm
    <3>4. form' = [form EXCEPT ![d] = f] BY <2>1 DEF BeginRecycle
    <3>5. QED BY <3>2, <3>3, <3>4
  <2>2. ASSUME NEW c \in Customers, BeginDeleteCustomer(d, c)
        PROVE  \E f \in Form : /\ form' = [form EXCEPT ![d] = f]
                               /\ f.at = f.op /\ f.op = "delete" /\ f.phone = {}
                               /\ \A e \in Desks : form[e].op # "edit"
    <3> DEFINE f == [NoForm EXCEPT !.op = "delete", !.at = "delete", !.customer = {c}]
    <3>1. f \in Form BY DEF Form, FormOps, FormSteps, NoForm
    <3>2. f.at = f.op /\ f.op = "delete" /\ f.phone = {} BY DEF NoForm
    <3>3. form' = [form EXCEPT ![d] = f] BY <2>2 DEF BeginDeleteCustomer
    <3>4. \A e \in Desks : form[e].op # "edit" BY <2>2 DEF EditsApart, BeginDeleteCustomer, MayTake
    <3>5. QED BY <3>1, <3>2, <3>3, <3>4
  <2>3. ASSUME NEW c \in Customers, NEW p \in Phones, BeginPutCustomer(d, c, p)
        PROVE  \E f \in Form : /\ form' = [form EXCEPT ![d] = f]
                               /\ f.at = f.op /\ f.op = "phone" /\ f.phone = {p}
    <3> DEFINE f == [NoForm EXCEPT !.op = "phone", !.at = "phone", !.customer = {c}, !.phone = {p}]
    <3>1. f \in Form BY DEF Form, FormOps, FormSteps, NoForm
    <3>2. f.at = f.op /\ f.op = "phone" /\ f.phone = {p} BY DEF NoForm
    <3>3. form' = [form EXCEPT ![d] = f] BY <2>3 DEF BeginPutCustomer
    <3>4. QED BY <3>1, <3>2, <3>3
  <2>4. QED BY <2>1, <2>2, <2>3
<1>3. Fits(f)' BY <1>2 DEF Fits
<1>4. QED BY <1>1, <1>2, <1>3, SameCustomersStay, FormsKept

LEMMA CustomerCreated ==
  ASSUME IntakeInv, NEW d \in Desks, CreateCustomer(d)
  PROVE  CustomersStay /\ PhonesRemembered' /\ FormsFit' /\ NoDeleteDuringEdit'
<1>1. PICK p \in form[d].phone :
        IF Found(p) = {}
        THEN \E c \in Customers :
               /\ AddCustomer(c, p)
               /\ form' = [form EXCEPT ![d].customer = {c},
                                       ![d].at = IF form[d].op = "edit" THEN "update" ELSE "place"]
        ELSE Leave(d) /\ UNCHANGED <<customer, had>>
  BY DEF CreateCustomer
<1>2. form[d] \in Form BY DEF IntakeInv, IntakeTypeOK
<1>3. p \in Phones BY <1>2 DEF Form
<1>4. ASSUME NEW c \in Customers, AddCustomer(c, p),
             form' = [form EXCEPT ![d].customer = {c},
                                  ![d].at = IF form[d].op = "edit" THEN "update" ELSE "place"]
      PROVE  CustomersStay /\ PhonesRemembered' /\ FormsFit' /\ NoDeleteDuringEdit'
  <2>0. PICK f : f = [form[d] EXCEPT !.customer = {c},
                                  !.at = IF form[d].op = "edit" THEN "update" ELSE "place"]
    OBVIOUS
  <2>1. CustomersStay /\ PhonesRemembered' /\ p \in had'[c] /\ Here(c)' BY <1>3, <1>4, AddedStay
  <2>2. "update" \in FormSteps /\ "place" \in FormSteps BY DEF FormSteps
  <2>3. f \in Form BY <1>2, <2>0, <2>2, FormChanges
  <2>4. /\ f.op = form[d].op /\ f.phone = form[d].phone /\ f.customer = {c}
        /\ f.at = IF form[d].op = "edit" THEN "update" ELSE "place"
    BY <1>2, <2>0 DEF Form
  <2>5. form' = [form EXCEPT ![d] = f] BY <1>4, <2>0
  <2>6. \A q \in f.phone : q = p BY <2>4 DEF IntakeInv, FormsFit, Fits
  <2>7. Fits(f)' BY <2>1, <2>4, <2>6 DEF Fits
  <2>8. QED BY <2>1, <2>3, <2>4, <2>5, <2>7, FormsKept
<1>5. CASE Leave(d) /\ UNCHANGED <<customer, had>>
  BY <1>5, Left, SameCustomersStay DEF IntakeInv, PhonesRemembered
<1>6. QED BY <1>1, <1>4, <1>5

\* A new order has the phone of its form, which its customer has had.
LEMMA PlacedKept ==
  ASSUME IntakeInv, CustomersStay, NEW d \in Desks, NEW o \in Orders, NEW c \in Customers,
         form[d].phone \subseteq had'[c], Placed(d, o, c)
  PROVE  CustomerOfCaller' /\ FormsFit' /\ NoDeleteDuringEdit'
<1>1. form[d] \in Form BY DEF IntakeInv, IntakeTypeOK
<1>2. PICK ks \in SUBSET Categories :
        /\ order' = [order EXCEPT ![o] = [NoOrder EXCEPT
                       !.there = TRUE, !.category = ks, !.customer = {c}, !.phone = form[d].phone]]
        /\ form' = [form EXCEPT ![d].at = "clear", ![d].order = {o}, ![d].category = ks]
  <2>1. form[d].category \in SUBSET Categories BY <1>1 DEF Form
  <2>2. QED BY <2>1 DEF Placed, Existing
<1>3. CustomerOfCaller'
  <2>1. order'[o].customer = {c} /\ order'[o].phone = form[d].phone
    BY <1>2 DEF IntakeInv, IntakeTypeOK, NoOrder
  <2>2. \A n \in Orders \ {o} : order'[n] = order[n] BY <1>2 DEF IntakeInv, IntakeTypeOK
  <2>3. QED BY <2>1, <2>2, CallersKept
<1>0. PICK f : f = [form[d] EXCEPT !.at = "clear", !.order = {o}, !.category = ks]
  OBVIOUS
<1>4. "clear" \in FormSteps BY DEF FormSteps
<1>5. f \in Form BY <1>0, <1>1, <1>4, FormChanges
<1>6. f.op = form[d].op /\ f.phone = form[d].phone /\ f.at = "clear" BY <1>0, <1>1 DEF Form
<1>7. form' = [form EXCEPT ![d] = f] BY <1>0, <1>2
<1>8. Fits(f)' BY <1>6 DEF Fits, IntakeInv, FormsFit
<1>9. QED BY <1>3, <1>5, <1>6, <1>7, <1>8, FormsKept

LEMMA OrderPlaced ==
  ASSUME IntakeInv, NEW d \in Desks, PlaceOrder(d)
  PROVE  PhonesRemembered' /\ CustomerOfCaller' /\ FormsFit' /\ NoDeleteDuringEdit'
<1>1. PICK o \in Orders, p \in form[d].phone :
        IF form[d].customer = {}
        THEN IF Found(p) = {}
             THEN \E c \in Customers : AddCustomer(c, p) /\ Placed(d, o, c)
             ELSE Leave(d) /\ UNCHANGED <<order, customer, had>>
        ELSE /\ \E c \in form[d].customer :
                  IF Here(c) THEN Placed(d, o, c) ELSE Leave(d) /\ UNCHANGED order
             /\ UNCHANGED <<customer, had>>
  BY DEF PlaceOrder
<1>2. form[d] \in Form BY DEF IntakeInv, IntakeTypeOK
<1>3. Fits(form[d]) BY DEF IntakeInv, FormsFit
<1>4. CASE Leave(d) /\ UNCHANGED <<order, customer, had>>
  BY <1>4, SameCustomersStay, Left DEF IntakeInv, PhonesRemembered, CustomerOfCaller
<1>5. ASSUME NEW c \in Customers, AddCustomer(c, p), Placed(d, o, c)
      PROVE  PhonesRemembered' /\ CustomerOfCaller' /\ FormsFit' /\ NoDeleteDuringEdit'
  <2>1. p \in Phones BY <1>2 DEF Form
  <2>2. CustomersStay /\ PhonesRemembered' /\ p \in had'[c] BY <1>5, <2>1, AddedStay
  <2>3. form[d].phone \subseteq had'[c] BY <1>3, <2>2 DEF Fits
  <2>4. QED BY <1>5, <2>2, <2>3, PlacedKept
<1>6. ASSUME NEW c \in form[d].customer, Placed(d, o, c), UNCHANGED <<customer, had>>
      PROVE  PhonesRemembered' /\ CustomerOfCaller' /\ FormsFit' /\ NoDeleteDuringEdit'
  <2>1. c \in Customers BY <1>2 DEF Form
  <2>2. CustomersStay /\ PhonesRemembered' BY <1>6, SameCustomersStay DEF IntakeInv, PhonesRemembered
  <2>3. form[d].phone \subseteq had'[c] BY <1>3, <1>6 DEF Fits, PlaceOrder
  <2>4. QED BY <1>6, <2>1, <2>2, <2>3, PlacedKept
<1>7. QED BY <1>1, <1>4, <1>5, <1>6

\* The edit saves the customer it has found, for none is deleted meanwhile.
LEMMA OrderUpdated ==
  ASSUME IntakeInv, NEW d \in Desks, UpdateOrder(d)
  PROVE  PhonesRemembered' /\ CustomerOfCaller' /\ FormsFit' /\ NoDeleteDuringEdit'
<1>1. UNCHANGED <<customer, had>> /\ form[d].at = "update" BY DEF UpdateOrder
<1>2. CustomersStay /\ PhonesRemembered'
  BY <1>1, SameCustomersStay DEF IntakeInv, PhonesRemembered
<1>3. form[d] \in Form BY DEF IntakeInv, IntakeTypeOK
<1>4. Fits(form[d]) BY DEF IntakeInv, FormsFit
<1>5. \E c \in form[d].customer : Here(c) BY <1>1, <1>4 DEF Fits
<1>6. \/ Leave(d) /\ UNCHANGED order
      \/ /\ Proceed(d, "clear")
         /\ \E o \in form[d].order :
              order' = [order EXCEPT ![o].customer = form[d].customer, ![o].phone = form[d].phone,
                                     ![o].category = Existing(form[d].category)]
  BY <1>5 DEF UpdateOrder
<1>7. CASE Leave(d) /\ UNCHANGED order
  BY <1>1, <1>2, <1>7, Left DEF IntakeInv, CustomerOfCaller
<1>8. ASSUME Proceed(d, "clear"), NEW o \in form[d].order,
             order' = [order EXCEPT ![o].customer = form[d].customer, ![o].phone = form[d].phone,
                                    ![o].category = Existing(form[d].category)]
      PROVE  CustomerOfCaller' /\ FormsFit' /\ NoDeleteDuringEdit'
  <2>1. o \in Orders BY <1>3 DEF Form
  <2>2. order'[o].customer = form[d].customer /\ order'[o].phone = form[d].phone
    BY <1>8, <2>1 DEF IntakeInv, IntakeTypeOK, OrderRow
  <2>3. \A n \in Orders \ {o} : order'[n] = order[n] BY <1>8 DEF IntakeInv, IntakeTypeOK
  <2>4. \A c \in form[d].customer : form[d].phone \subseteq had'[c] BY <1>1, <1>4 DEF Fits
  <2>5. CustomerOfCaller' BY <1>2, <2>2, <2>3, <2>4, CallersKept
  <2>0. PICK f : f = [form[d] EXCEPT !.at = "clear"]
    OBVIOUS
  <2>6. f \in Form /\ f.op = form[d].op /\ f.phone = form[d].phone /\ f.at = "clear"
    BY <1>3, <2>0 DEF Form, FormSteps
  <2>7. form' = [form EXCEPT ![d] = f] BY <1>8, <2>0 DEF Proceed
  <2>8. Fits(f)' BY <1>4, <2>6 DEF Fits
  <2>9. QED BY <1>2, <2>5, <2>6, <2>7, <2>8, FormsKept
<1>9. QED BY <1>2, <1>6, <1>7, <1>8

LEMMA AnswersSaved ==
  ASSUME IntakeInv, NEW d \in Desks, BeginSave(d) \/ CommitSave(d)
  PROVE  PhonesRemembered' /\ CustomerOfCaller' /\ FormsFit' /\ NoDeleteDuringEdit'
<1>1. UNCHANGED <<customer, had>> BY DEF BeginSave, CommitSave
<1>2. CustomersStay /\ PhonesRemembered'
  BY <1>1, SameCustomersStay DEF IntakeInv, PhonesRemembered
<1>3. form[d] \in Form BY DEF IntakeInv, IntakeTypeOK
<1>4. CASE BeginSave(d)
  <2>1. PICK ks, items :
          form' = [form EXCEPT ![d].at = "write", ![d].category = ks, ![d].doomed = items]
    BY <1>4 DEF BeginSave
  <2>0. PICK f : f = [form[d] EXCEPT !.at = "write", !.category = ks, !.doomed = items]
    OBVIOUS
  <2>2. form' = [form EXCEPT ![d] = f] BY <2>0, <2>1
  <2>3. f.op = form[d].op /\ f.phone = form[d].phone /\ f.at = "write" BY <1>3, <2>0 DEF Form
  <2>4. form' \in [Desks -> Form] BY AnswersTyped DEF IntakeInv, IntakeTypeOK
  <2>5. f \in Form BY <2>2, <2>4 DEF IntakeInv, IntakeTypeOK
  <2>6. Fits(f)' BY <2>3 DEF Fits, IntakeInv, FormsFit
  <2>7. CustomerOfCaller' BY <1>1, <1>4 DEF BeginSave, IntakeInv, CustomerOfCaller
  <2>8. QED BY <1>2, <2>2, <2>3, <2>5, <2>6, <2>7, FormsKept
<1>5. CASE CommitSave(d)
  <2>1. FormsFit' /\ NoDeleteDuringEdit' BY <1>2, <1>5, Left DEF CommitSave
  <2>2. PICK o \in form[d].order : \E items : order' = [order EXCEPT ![o].answers = items]
    BY <1>5 DEF CommitSave
  <2>3. \A n \in Orders : order'[n].customer = order[n].customer /\ order'[n].phone = order[n].phone
    BY <2>2 DEF IntakeInv, IntakeTypeOK, OrderRow
  <2>4. QED BY <1>2, <2>1, <2>3, CallersKept
<1>6. QED BY <1>4, <1>5

LEMMA OrderRecycled ==
  ASSUME IntakeInv, NEW d \in Desks, Recycle(d)
  PROVE  PhonesRemembered' /\ CustomerOfCaller' /\ FormsFit' /\ NoDeleteDuringEdit'
<1>1. UNCHANGED <<customer, had>> /\ Leave(d) BY DEF Recycle
<1>2. CustomersStay /\ PhonesRemembered'
  BY <1>1, SameCustomersStay DEF IntakeInv, PhonesRemembered
<1>3. FormsFit' /\ NoDeleteDuringEdit' BY <1>1, <1>2, Left
<1>4. CASE UNCHANGED order BY <1>1, <1>2, <1>3, <1>4 DEF IntakeInv, CustomerOfCaller
<1>5. ASSUME NEW n \in Orders, NEW items,
             order' = [order EXCEPT ![n] = [NoOrder EXCEPT
               !.there = TRUE, !.category = form[d].category,
               !.customer = form[d].customer, !.answers = items]]
      PROVE  CustomerOfCaller'
  <2>1. order'[n].phone = {} BY <1>5 DEF IntakeInv, IntakeTypeOK, NoOrder
  <2>2. \A m \in Orders \ {n} : order'[m] = order[m] BY <1>5 DEF IntakeInv, IntakeTypeOK
  <2>3. QED BY <1>2, <2>1, <2>2, CallersKept
<1>6. QED BY <1>2, <1>3, <1>4, <1>5 DEF Recycle

LEMMA CustomersChanged ==
  ASSUME IntakeInv, NEW d \in Desks, PutCustomer(d) \/ DeleteCustomer(d) \/ Abandon(d)
  PROVE  PhonesRemembered' /\ CustomerOfCaller' /\ FormsFit' /\ NoDeleteDuringEdit'
<1>1. Leave(d) BY DEF PutCustomer, DeleteCustomer, Abandon
<1>2. form[d] \in Form BY DEF IntakeInv, IntakeTypeOK
<1>3. CustomersStay /\ PhonesRemembered'
  <2>1. CASE UNCHANGED <<customer, had>>
    BY <2>1, SameCustomersStay DEF IntakeInv, PhonesRemembered
  <2>2. ASSUME NEW c \in form[d].customer, NEW p \in form[d].phone, AddCustomer(c, p)
        PROVE  CustomersStay /\ PhonesRemembered'
    <3>1. c \in Customers /\ p \in Phones BY <1>2 DEF Form
    <3>2. QED BY <2>2, <3>1, AddedStay
  <2>3. CASE DeleteCustomer(d)
    <3>1. \A e \in Desks : form[e].op # "edit"
      BY <2>3 DEF DeleteCustomer, IntakeInv, FormsFit, Fits, NoDeleteDuringEdit
    <3>2. PICK c : customer' = [customer EXCEPT ![c].is = "gone"]
      BY <2>3 DEF DeleteCustomer
    <3>3. had' = had BY <2>3 DEF DeleteCustomer
    <3>4. \A e \in Customers : customer'[e].phone = customer[e].phone
      BY <3>2 DEF IntakeInv, IntakeTypeOK, CustomerRow
    <3>5. QED BY <3>1, <3>3, <3>4 DEF CustomersStay, IntakeInv, PhonesRemembered
  <2>4. QED BY <2>1, <2>2, <2>3 DEF PutCustomer, Abandon
<1>4. \A o \in Orders : order'[o].customer \subseteq order[o].customer /\ order'[o].phone = order[o].phone
  <2>1. CASE UNCHANGED order BY <2>1
  <2>2. ASSUME NEW c, order' = [o \in Orders |-> [order[o] EXCEPT !.customer = @ \ {c}]]
        PROVE  \A o \in Orders : /\ order'[o].customer \subseteq order[o].customer
                                 /\ order'[o].phone = order[o].phone
    BY <2>2 DEF IntakeInv, IntakeTypeOK, OrderRow
  <2>3. QED BY <2>1, <2>2 DEF PutCustomer, DeleteCustomer, Abandon
<1>5. QED BY <1>1, <1>3, <1>4, Left, CallersKept

LEMMA OfficeSetsUp ==
  ASSUME IntakeInv, SettingUp
  PROVE  PhonesRemembered' /\ CustomerOfCaller' /\ FormsFit' /\ NoDeleteDuringEdit'
<1>1. UNCHANGED <<customer, form, had>>
  BY DEF SettingUp, CreateCategory, SwitchCategory, DeleteCategory, CreateItem, EditItem, DeleteItem
<1>2. CustomersStay /\ PhonesRemembered'
  BY <1>1, SameCustomersStay DEF IntakeInv, PhonesRemembered
<1>3. \A o \in Orders : order'[o].customer = order[o].customer /\ order'[o].phone = order[o].phone
  <2>1. CASE UNCHANGED order BY <2>1
  <2>2. ASSUME NEW k \in Categories, DeleteCategory(k)
        PROVE  \A o \in Orders : order'[o].customer = order[o].customer /\ order'[o].phone = order[o].phone
    BY <2>2 DEF DeleteCategory, IntakeInv, IntakeTypeOK, OrderRow
  <2>3. QED BY <2>1, <2>2 DEF SettingUp, CreateCategory, SwitchCategory, CreateItem, EditItem, DeleteItem
<1>4. QED BY <1>1, <1>2, <1>3, Unmoved, CallersKept

LEMMA OrderCreated ==
  ASSUME IntakeInv, NEW c \in Customers, CreateOrder(c)
  PROVE  PhonesRemembered' /\ CustomerOfCaller' /\ FormsFit' /\ NoDeleteDuringEdit'
<1>1. UNCHANGED <<customer, form, had>> BY DEF CreateOrder
<1>2. CustomersStay /\ PhonesRemembered'
  BY <1>1, SameCustomersStay DEF IntakeInv, PhonesRemembered
<1>3. PICK o \in Orders :
        order' = [order EXCEPT ![o] = [NoOrder EXCEPT
                    !.there = TRUE, !.customer = {c}, !.phone = customer[c].phone]]
  BY DEF CreateOrder
<1>4. order'[o].customer = {c} /\ order'[o].phone = customer[c].phone
  BY <1>3 DEF IntakeInv, IntakeTypeOK, NoOrder
<1>5. customer[c].phone \subseteq had'[c] BY <1>1 DEF IntakeInv, PhonesRemembered
<1>6. \A n \in Orders \ {o} : order'[n] = order[n] BY <1>3 DEF IntakeInv, IntakeTypeOK
<1>7. CustomerOfCaller' BY <1>2, <1>4, <1>5, <1>6, CallersKept
<1>8. QED BY <1>1, <1>2, <1>7, Unmoved

LEMMA IntakeInvSteps ==
  ASSUME EditsApart, IntakeInv, [IntakeNext]_intake
  PROVE  IntakeInv'
<1>1. IntakeTypeOK' BY IntakeSteps DEF IntakeInv
<1>2. ASSUME NEW d \in Desks, Filling(d)
      PROVE  PhonesRemembered' /\ CustomerOfCaller' /\ FormsFit' /\ NoDeleteDuringEdit'
  <2>1. \A ks \in {{}} \cup {{k} : k \in Categories} : ks \in SUBSET Categories OBVIOUS
  <2>2. CASE \/ \E p \in Phones, ks \in SUBSET Categories, posted \in SUBSET Items :
                  \/ \E op \in {"public", "office"} : BeginOrder(d, op, p, ks, posted)
                  \/ \E o \in Orders : BeginEdit(d, o, p, ks, posted)
             \/ \E o \in Orders : BeginRecycle(d, o)
             \/ \E c \in Customers :
                  BeginDeleteCustomer(d, c) \/ \E p \in Phones : BeginPutCustomer(d, c, p)
    <3>1. UNCHANGED <<customer, order, had>>
      BY <2>2 DEF BeginOrder, BeginEdit, BeginRecycle, BeginDeleteCustomer, BeginPutCustomer
    <3>2. FormsFit' /\ NoDeleteDuringEdit' BY <2>2, OrderBegun, EditBegun, OtherBegun
    <3>3. QED BY <3>1, <3>2 DEF IntakeInv, PhonesRemembered, CustomerOfCaller
  <2>3. CASE CreateCustomer(d)
    <3>1. UNCHANGED order BY <2>3 DEF CreateCustomer
    <3>2. QED BY <2>3, <3>1, CustomerCreated, CallersKept
  <2>4. QED BY <1>2, <2>1, <2>2, <2>3, OrderPlaced, OrderUpdated, AnswersSaved, OrderRecycled,
               CustomersChanged
            DEF Filling
<1>3. CASE UNCHANGED intake
  <2>1. UNCHANGED <<customer, order, form, had>> BY <1>3 DEF intake
  <2>2. FormsFit' /\ NoDeleteDuringEdit' BY <2>1, SameCustomersStay, Unmoved
  <2>3. PhonesRemembered' /\ CustomerOfCaller'
    BY <2>1 DEF IntakeInv, PhonesRemembered, CustomerOfCaller
  <2>4. QED BY <1>1, <2>2, <2>3 DEF IntakeInv
<1>4. PhonesRemembered' /\ CustomerOfCaller' /\ FormsFit' /\ NoDeleteDuringEdit'
  BY <1>2, <1>3, OfficeSetsUp, OrderCreated DEF IntakeNext, IntakeInv
<1>5. QED BY <1>1, <1>4 DEF IntakeInv

LEMMA IntakeInvStarts == IntakeInit => IntakeInv
<1> SUFFICES ASSUME IntakeInit PROVE IntakeInv OBVIOUS
<1>1. IntakeTypeOK BY IntakeStarts
<1>2. PhonesRemembered /\ CustomerOfCaller
  BY DEF IntakeInit, PhonesRemembered, CustomerOfCaller, NoOrder
<1>3. FormsFit /\ NoDeleteDuringEdit
  BY DEF IntakeInit, FormsFit, Fits, NoForm, NoDeleteDuringEdit
<1>4. QED BY <1>1, <1>2, <1>3 DEF IntakeInv

\* The customer of an order has had the phone it was taken for, whoever else
\* was creating, moving or deleting customers of that phone meanwhile
\* (_get_or_create_customer, OrderCreateByAdminService, OrderUpdateService).
THEOREM CustomerOfCallerAlways ==
  ASSUME EditsApart
  PROVE  IntakeSpec => []CustomerOfCaller
<1>1. IntakeInv /\ [IntakeNext]_intake => IntakeInv' BY IntakeInvSteps
<1>2. IntakeInv => CustomerOfCaller BY DEF IntakeInv
<1>3. QED BY <1>1, <1>2, IntakeInvStarts, PTL DEF IntakeSpec

----------------------------------------------------------------------------
\* The answers of an order.  What fills in an order has it to itself.

FillingOps == {"public", "office", "edit", "recycle"}
FilledOnce == FillingOps \X FillingOps \subseteq Separate

One(S) == \A x, y \in S : x = y
InUse == {"active", "inactive"}
Filled(f) == f.at \in {"clear", "write"}

ItemsKnown ==
  \A i \in Items : item[i].is \in InUse => \E k \in Categories : item[i].category = {k} /\ Exists(k)
OrderKnown(o) ==
  /\ One(order[o].category) /\ \A k \in order[o].category : Exists(k)
  /\ \A i \in order[o].answers : item[i].is \in InUse

\* A request is for one order at most, which is there, and at a place of its kind.
InStep(f) ==
  /\ f.at = "place" => f.op \in {"public", "office"}
  /\ f.at = "customer" => f.op \in {"office", "edit"}
  /\ f.at = "update" => f.op = "edit"
  /\ f.at = "recycle" => f.op = "recycle"
  /\ Filled(f) => f.op \in {"public", "office", "edit"}
  /\ One(f.order) /\ One(f.category)
  /\ \A o \in f.order : f.op \in FillingOps /\ order[o].there

\* Its category is the order's, or one that has been deleted since; a new order has no
\* answers yet; those an edit has not deleted fit unless the order is left behind.
Follows(f) ==
  f.at \in {"write", "recycle"} \/ (f.at = "clear" /\ f.op # "edit") =>
    /\ \A o \in f.order : order[o].category = Existing(f.category)
    /\ \A k \in f.category : category[k] # "none"
Blank(f) == f.op \in {"public", "office"} => \A o \in f.order : order[o].answers = {}
Pruned(f) ==
  f.at = "write" => \A o \in f.order \ behind : \A i \in order[o].answers \ f.doomed :
                      item[i].category = order[o].category
Right(f) == InStep(f) /\ Follows(f) /\ Blank(f) /\ Pruned(f)
Disjoint == \A d, e \in Desks : d # e => form[d].order \cap form[e].order = {}

AtRest(o) == \A d \in Desks : Filled(form[d]) => o \notin form[d].order
OrderFits(o) ==
  o \notin behind /\ AtRest(o) => \A i \in order[o].answers : item[i].category = order[o].category

FillInv ==
  /\ ItemsKnown /\ Disjoint
  /\ \A o \in Orders : OrderKnown(o) /\ OrderFits(o)
  /\ \A d \in Desks : Right(form[d])

\* What a step of d may do to an order: leave what it is filled with, or write it.
Untouched(d, o) ==
  /\ order'[o].category = order[o].category /\ order'[o].answers = order[o].answers
  /\ order[o].there => order'[o].there
  /\ o \in behind => o \in behind'
  /\ o \in form[d].order => ~Filled(form[d])
WrittenBy(d, o) ==
  /\ OrderKnown(o)' /\ OrderFits(o)'
  /\ \A e \in Desks \ {d} : o \notin form[e].order

LEMMA FillsKept ==
  ASSUME IntakeTypeOK, FillInv, NEW d \in Desks, NEW f, form' = [form EXCEPT ![d] = f],
         UNCHANGED <<category, item>>, Right(f)',
         \A e \in Desks \ {d} : form[e].order \cap f.order = {},
         \A o \in Orders : Untouched(d, o) \/ WrittenBy(d, o)
  PROVE  FillInv'
<1>1. form'[d] = f /\ \A e \in Desks \ {d} : form'[e] = form[e]
  BY DEF IntakeTypeOK
<1>2. ItemsKnown'
  BY DEF FillInv, ItemsKnown, Exists
<1>3. Disjoint'
  BY <1>1 DEF FillInv, Disjoint
<1>4. ASSUME NEW o \in Orders, Untouched(d, o) PROVE OrderKnown(o)' /\ OrderFits(o)'
  <2>1. OrderKnown(o)'
    BY <1>4 DEF FillInv, OrderKnown, Untouched, Exists
  <2>2. AtRest(o)' => AtRest(o)
    BY <1>1, <1>4 DEF AtRest, Untouched
  <2>3. QED
    BY <1>4, <2>1, <2>2 DEF FillInv, OrderFits, Untouched
<1>5. ASSUME NEW e \in Desks \ {d} PROVE Right(form[e])'
  <2>1. form[e] \in Form /\ Right(form[e]) /\ form'[e] = form[e]
    BY <1>1 DEF IntakeTypeOK, FillInv
  <2>2. \A o \in form[e].order : o \in Orders /\ Untouched(d, o)
    BY <2>1 DEF Form, WrittenBy
  <2>3. InStep(form[e])'
    BY <2>1, <2>2 DEF Right, InStep, Untouched, Filled
  <2>4. Follows(form[e])'
    BY <2>1, <2>2 DEF Right, Follows, Untouched, Existing, Exists
  <2>5. Blank(form[e])'
    BY <2>1, <2>2 DEF Right, Blank, Untouched
  <2>6. Pruned(form[e])'
    BY <2>1, <2>2 DEF Right, Pruned, Untouched
  <2>7. QED
    BY <2>3, <2>4, <2>5, <2>6 DEF Right
<1>6. QED
  BY <1>1, <1>2, <1>3, <1>4, <1>5 DEF FillInv, WrittenBy

\* A request that is not filling in an order may go on without changing any.
LEMMA NothingFilled ==
  ASSUME NEW d \in Desks, ~Filled(form[d]), UNCHANGED <<order, behind>>
  PROVE  \A o \in Orders : Untouched(d, o)
  BY DEF Untouched

LEMMA NoFormRight == Right(NoForm) /\ NoForm.order = {} /\ Right(NoForm)'
  BY DEF Right, NoForm, InStep, Follows, Blank, Pruned, One, Filled, FillingOps

\* A request that ends.
LEMMA FillLeft ==
  ASSUME IntakeTypeOK, FillInv, NEW d \in Desks, Leave(d), UNCHANGED <<category, item>>,
         \A o \in Orders : Untouched(d, o) \/ WrittenBy(d, o)
  PROVE  FillInv'
<1>1. form' = [form EXCEPT ![d] = NoForm] /\ \A e \in Desks \ {d} : form[e].order \cap NoForm.order = {}
  BY NoFormRight DEF Leave
<1>2. QED
  BY <1>1, NoFormRight, FillsKept

\* A request begins.
LEMMA FillBegun ==
  ASSUME IntakeTypeOK, FillInv, NEW d \in Desks, NEW f, form' = [form EXCEPT ![d] = f],
         form[d] = NoForm, UNCHANGED <<category, item, order, behind>>, Right(f)',
         \A e \in Desks \ {d} : form[e].order \cap f.order = {}
  PROVE  FillInv'
<1>1. ~Filled(form[d])
  BY DEF Filled, NoForm
<1>2. QED
  BY <1>1, NothingFilled, FillsKept

LEMMA FillOrderBegun ==
  ASSUME IntakeTypeOK, FillInv, NEW d \in Desks, NEW p \in Phones, NEW ks \in SUBSET Categories,
         One(ks), NEW posted \in SUBSET Items, NEW op \in {"public", "office"},
         BeginOrder(d, op, p, ks, posted)
  PROVE  FillInv'
<1>1. PICK cs \in SUBSET Found(p) :
        form' = [form EXCEPT ![d] = [NoForm EXCEPT
          !.op = op, !.at = IF op = "office" /\ cs = {} THEN "customer" ELSE "place",
          !.phone = {p}, !.category = ks, !.customer = cs, !.posted = posted]]
  BY DEF BeginOrder
<1>2. PICK f : f = [NoForm EXCEPT
          !.op = op, !.at = IF op = "office" /\ cs = {} THEN "customer" ELSE "place",
          !.phone = {p}, !.category = ks, !.customer = cs, !.posted = posted]
  OBVIOUS
<1>3. f.op = op /\ f.at \in {"customer", "place"} /\ (f.at = "customer" => op = "office")
      /\ f.order = {} /\ f.category = ks
  BY <1>2 DEF NoForm
<1>4. Right(f)'
  BY <1>3 DEF Right, InStep, Follows, Blank, Pruned, One, Filled
<1>5. UNCHANGED <<category, item, order, behind>> /\ form[d] = NoForm
  BY DEF BeginOrder, MayTake
<1>6. form' = [form EXCEPT ![d] = f] /\ \A e \in Desks \ {d} : form[e].order \cap f.order = {}
  BY <1>1, <1>2, <1>3
<1>7. QED
  BY <1>4, <1>5, <1>6, FillBegun

\* What fills in an order begins when no other request does.
LEMMA TakenAlone ==
  ASSUME FilledOnce, FillInv, NEW d \in Desks, NEW o \in Orders, NEW op \in FillingOps,
         MayTake(d, op, {o})
  PROVE  \A e \in Desks : o \notin form[e].order
<1> SUFFICES ASSUME NEW e \in Desks, o \in form[e].order PROVE FALSE
  OBVIOUS
<1>1. form[e].op \in FillingOps
  BY DEF FillInv, Right, InStep
<1>2. <<op, form[e].op>> \in Separate
  BY <1>1 DEF FilledOnce
<1>3. form[e].order \cap {o} = {}
  BY <1>2 DEF MayTake
<1>4. QED
  BY <1>3

LEMMA FillEditBegun ==
  ASSUME FilledOnce, IntakeTypeOK, FillInv, NEW d \in Desks, NEW p \in Phones,
         NEW ks \in SUBSET Categories, One(ks), NEW posted \in SUBSET Items, NEW o \in Orders,
         BeginEdit(d, o, p, ks, posted)
  PROVE  FillInv'
<1>1. PICK cs \in SUBSET Found(p) :
        form' = [form EXCEPT ![d] = [NoForm EXCEPT
             !.op = "edit", !.at = IF cs = {} THEN "customer" ELSE "update",
             !.order = {o}, !.phone = {p}, !.category = ks,
             !.customer = cs, !.was = order[o].customer, !.posted = posted]]
  BY DEF BeginEdit
<1>2. PICK f : f = [NoForm EXCEPT
             !.op = "edit", !.at = IF cs = {} THEN "customer" ELSE "update",
             !.order = {o}, !.phone = {p}, !.category = ks,
             !.customer = cs, !.was = order[o].customer, !.posted = posted]
  OBVIOUS
<1>3. f.op = "edit" /\ f.at \in {"customer", "update"} /\ f.order = {o} /\ f.category = ks
  BY <1>2 DEF NoForm
<1>4. UNCHANGED <<category, item, order, behind>> /\ form[d] = NoForm /\ order[o].there
  BY DEF BeginEdit, MayTake
<1>5. Right(f)'
  BY <1>3, <1>4 DEF Right, InStep, Follows, Blank, Pruned, One, Filled, FillingOps
<1>6. \A e \in Desks : o \notin form[e].order
  BY TakenAlone DEF BeginEdit, FillingOps
<1>7. form' = [form EXCEPT ![d] = f] /\ \A e \in Desks \ {d} : form[e].order \cap f.order = {}
  BY <1>1, <1>2, <1>3, <1>6
<1>8. QED
  BY <1>4, <1>5, <1>7, FillBegun

LEMMA FillRecycleBegun ==
  ASSUME FilledOnce, IntakeTypeOK, FillInv, NEW d \in Desks, NEW o \in Orders, BeginRecycle(d, o)
  PROVE  FillInv'
<1>1. PICK f : f = [NoForm EXCEPT !.op = "recycle", !.at = "recycle", !.order = {o},
                      !.category = order[o].category, !.customer = order[o].customer]
  OBVIOUS
<1>2. f.op = "recycle" /\ f.at = "recycle" /\ f.order = {o} /\ f.category = order[o].category
  BY <1>1 DEF NoForm
<1>3. /\ UNCHANGED <<category, item, order, behind>> /\ form[d] = NoForm /\ order[o].there
      /\ form' = [form EXCEPT ![d] = f]
  BY <1>1 DEF BeginRecycle, MayTake
<1>4. One(order[o].category) /\ \A k \in order[o].category : Exists(k)
  BY DEF FillInv, OrderKnown
<1>5. Existing(order[o].category) = order[o].category /\ \A k \in order[o].category : category[k] # "none"
  BY <1>4 DEF Existing, Exists
<1>6. Right(f)'
  BY <1>2, <1>3, <1>4, <1>5
  DEF Right, InStep, Follows, Blank, Pruned, One, Filled, FillingOps, Existing, Exists
<1>7. \A e \in Desks : o \notin form[e].order
  BY TakenAlone DEF BeginRecycle, FillingOps
<1>8. \A e \in Desks \ {d} : form[e].order \cap f.order = {}
  BY <1>2, <1>7
<1>9. QED
  BY <1>3, <1>6, <1>8, FillBegun

\* A request about a customer is for no order.
LEMMA FillCustomersBegun ==
  ASSUME IntakeTypeOK, FillInv, NEW d \in Desks, NEW c \in Customers,
         BeginDeleteCustomer(d, c) \/ \E p \in Phones : BeginPutCustomer(d, c, p)
  PROVE  FillInv'
<1> DEFINE Begins(f) == /\ form' = [form EXCEPT ![d] = f]
                        /\ f.at \in {"delete", "phone"} /\ f.op \in {"delete", "phone"}
                        /\ f.order = {} /\ f.category = {}
<1>1. PICK f : Begins(f)
  <2>1. CASE BeginDeleteCustomer(d, c)
    <3>1. PICK f : f = [NoForm EXCEPT !.op = "delete", !.at = "delete", !.customer = {c}]
      OBVIOUS
    <3>2. f.at = "delete" /\ f.op = "delete" /\ f.order = {} /\ f.category = {}
      BY <3>1 DEF NoForm
    <3>3. form' = [form EXCEPT ![d] = f]
      BY <2>1, <3>1 DEF BeginDeleteCustomer
    <3>4. QED
      BY <3>2, <3>3
  <2>2. ASSUME NEW p \in Phones, BeginPutCustomer(d, c, p) PROVE \E f : Begins(f)
    <3>1. PICK f : f = [NoForm EXCEPT !.op = "phone", !.at = "phone", !.customer = {c}, !.phone = {p}]
      OBVIOUS
    <3>2. f.at = "phone" /\ f.op = "phone" /\ f.order = {} /\ f.category = {}
      BY <3>1 DEF NoForm
    <3>3. form' = [form EXCEPT ![d] = f]
      BY <2>2, <3>1 DEF BeginPutCustomer
    <3>4. QED
      BY <3>2, <3>3
  <2>3. QED
    BY <2>1, <2>2
<1>2. Right(f)'
  BY <1>1 DEF Right, InStep, Follows, Blank, Pruned, One, Filled
<1>3. UNCHANGED <<category, item, order, behind>> /\ form[d] = NoForm
  BY DEF BeginDeleteCustomer, BeginPutCustomer, MayTake
<1>4. \A e \in Desks \ {d} : form[e].order \cap f.order = {}
  BY <1>1
<1>5. QED
  BY <1>1, <1>2, <1>3, <1>4, FillBegun

\* A customer is made before the order is placed or written.
LEMMA FillCustomerCreated ==
  ASSUME IntakeTypeOK, FillInv, NEW d \in Desks, CreateCustomer(d)
  PROVE  FillInv'
<1>0. /\ form[d].at = "customer" /\ form[d] \in Form /\ Right(form[d])
      /\ UNCHANGED <<category, item, order, behind>>
  BY DEF CreateCustomer, IntakeTypeOK, FillInv
<1>1. ~Filled(form[d]) /\ \A o \in Orders : Untouched(d, o)
  BY <1>0, NothingFilled DEF Filled
<1>2. CASE Leave(d)
  BY <1>0, <1>1, <1>2, FillLeft
<1>3. ASSUME NEW c \in Customers,
             form' = [form EXCEPT ![d].customer = {c},
                                  ![d].at = IF form[d].op = "edit" THEN "update" ELSE "place"]
      PROVE  FillInv'
  <2>1. PICK f : f = [form[d] EXCEPT !.customer = {c},
                                     !.at = IF form[d].op = "edit" THEN "update" ELSE "place"]
    OBVIOUS
  <2>2. /\ f.op = form[d].op /\ f.order = form[d].order /\ f.category = form[d].category
        /\ f.at = IF f.op = "edit" THEN "update" ELSE "place"
    BY <1>0, <2>1 DEF Form
  <2>3. Right(f)'
    BY <1>0, <2>2 DEF Right, InStep, Follows, Blank, Pruned, Filled
  <2>4. form' = [form EXCEPT ![d] = f]
    BY <1>3, <2>1 DEF IntakeTypeOK
  <2>5. \A e \in Desks \ {d} : form[e].order \cap f.order = {}
    BY <2>2 DEF FillInv, Disjoint
  <2>6. QED
    BY <1>0, <1>1, <2>3, <2>4, <2>5, FillsKept
<1>4. QED
  BY <1>2, <1>3 DEF CreateCustomer

\* No request is for an order that is not there yet.
LEMMA NewIsFree ==
  ASSUME FillInv, NEW o \in Orders, ~order[o].there
  PROVE  \A e \in Desks : o \notin form[e].order
  BY DEF FillInv, Right, InStep

LEMMA FillPlaced ==
  ASSUME IntakeTypeOK, FillInv, NEW d \in Desks, form[d].at = "place",
         NEW o \in Orders, ~order[o].there, NEW c, Placed(d, o, c),
         UNCHANGED <<category, item, behind>>
  PROVE  FillInv'
<1>0. form[d] \in Form /\ Right(form[d]) /\ ~Filled(form[d]) /\ form[d].op \in {"public", "office"}
  BY DEF IntakeTypeOK, FillInv, Right, InStep, Filled
<1>1. PICK ks \in SUBSET form[d].category :
        /\ \A k \in ks : Exists(k)
        /\ order' = [order EXCEPT ![o] = [NoOrder EXCEPT
                       !.there = TRUE, !.category = ks, !.customer = {c}, !.phone = form[d].phone]]
        /\ form' = [form EXCEPT ![d].at = "clear", ![d].order = {o}, ![d].category = ks]
  <2>1. PICK ks : /\ ks = IF form[d].op = "public" THEN {k \in form[d].category : category[k] = "active"}
                          ELSE Existing(form[d].category)
    OBVIOUS
  <2>2. ks \in SUBSET form[d].category /\ \A k \in ks : Exists(k)
    BY <2>1 DEF Existing, Exists
  <2>3. QED
    BY <2>1, <2>2 DEF Placed
<1>2. PICK f : f = [form[d] EXCEPT !.at = "clear", !.order = {o}, !.category = ks]
  OBVIOUS
<1>3. f.at = "clear" /\ f.op = form[d].op /\ f.order = {o} /\ f.category = ks
  BY <1>0, <1>2 DEF Form
<1>4. /\ order'[o].there /\ order'[o].category = ks /\ order'[o].answers = {}
      /\ \A n \in Orders \ {o} : order'[n] = order[n]
  BY <1>1 DEF IntakeTypeOK, NoOrder
<1>5. One(ks) /\ \A k \in ks : Exists(k)' /\ category'[k] # "none"
  BY <1>0, <1>1 DEF Right, InStep, One, Exists
<1>6. Right(f)'
  <2>1. Existing(ks)' = ks
    BY <1>5 DEF Existing
  <2>2. InStep(f)'
    BY <1>0, <1>3, <1>4, <1>5 DEF InStep, Filled, FillingOps, One
  <2>3. Follows(f)'
    BY <1>3, <1>4, <1>5, <2>1 DEF Follows
  <2>4. QED
    BY <1>3, <1>4, <2>2, <2>3 DEF Right, Blank, Pruned
<1>7. WrittenBy(d, o)
  BY <1>4, <1>5, NewIsFree DEF WrittenBy, OrderKnown, OrderFits
<1>8. \A n \in Orders : Untouched(d, n) \/ WrittenBy(d, n)
  BY <1>0, <1>4, <1>7 DEF Untouched
<1>9. form' = [form EXCEPT ![d] = f] /\ \A e \in Desks \ {d} : form[e].order \cap f.order = {}
  <2>1. \A e \in Desks : o \notin form[e].order
    BY NewIsFree
  <2>2. QED
    BY <1>1, <1>2, <1>3, <2>1 DEF IntakeTypeOK
<1>10. QED
  BY <1>6, <1>8, <1>9, FillsKept

LEMMA FillOrderPlaced ==
  ASSUME IntakeTypeOK, FillInv, NEW d \in Desks, PlaceOrder(d)
  PROVE  FillInv'
<1>1. form[d].at = "place" /\ UNCHANGED <<category, item, behind>>
  BY DEF PlaceOrder
<1>2. CASE Leave(d) /\ UNCHANGED order
  <2>1. \A o \in Orders : Untouched(d, o)
    BY <1>1, <1>2, NothingFilled DEF Filled
  <2>2. QED
    BY <1>1, <1>2, <2>1, FillLeft
<1>3. CASE \E o \in Orders : ~order[o].there /\ \E c : Placed(d, o, c)
  BY <1>1, <1>3, FillPlaced
<1>4. QED
  BY <1>2, <1>3 DEF PlaceOrder

\* An edit that saves the order fills it in next.
LEMMA FillOrderUpdated ==
  ASSUME IntakeTypeOK, FillInv, NEW d \in Desks, UpdateOrder(d)
  PROVE  FillInv'
<1>0. /\ form[d].at = "update" /\ form[d] \in Form /\ Right(form[d]) /\ ~Filled(form[d])
      /\ form[d].op = "edit"
      /\ UNCHANGED <<category, item, behind>>
  BY DEF UpdateOrder, IntakeTypeOK, FillInv, Right, InStep, Filled
<1>1. CASE Leave(d) /\ UNCHANGED order
  BY <1>0, <1>1, NothingFilled, FillLeft
<1>2. ASSUME NEW o \in form[d].order, NEW new,
             order' = [order EXCEPT ![o].customer = new, ![o].phone = form[d].phone,
                                    ![o].category = Existing(form[d].category)],
             Proceed(d, "clear")
      PROVE  FillInv'
  <2>0. o \in Orders
    BY <1>0 DEF Form
  <2>1. PICK f : f = [form[d] EXCEPT !.at = "clear"]
    OBVIOUS
  <2>2. f.at = "clear" /\ f.op = "edit" /\ f.order = form[d].order /\ f.category = form[d].category
    BY <1>0, <2>1 DEF Form
  <2>3. /\ order'[o].there = order[o].there /\ order'[o].answers = order[o].answers
        /\ order'[o].category = Existing(form[d].category)
        /\ \A n \in Orders \ {o} : order'[n] = order[n]
    BY <1>2, <2>0 DEF IntakeTypeOK, OrderRow
  <2>4. form' = [form EXCEPT ![d] = f] /\ form'[d] = f
    BY <1>2, <2>1 DEF Proceed, IntakeTypeOK
  <2>5. Right(f)'
    <3>1. \A n \in f.order : f.op \in FillingOps /\ order'[n].there
      BY <1>0, <2>2, <2>3 DEF Right, InStep, Form
    <3>2. InStep(f)'
      BY <1>0, <2>2, <3>1 DEF Right, InStep, Filled
    <3>3. Follows(f)' /\ Blank(f)' /\ Pruned(f)'
      BY <2>2 DEF Follows, Blank, Pruned
    <3>4. QED
      BY <3>2, <3>3 DEF Right
  <2>6. WrittenBy(d, o)
    <3>1. OrderKnown(o)'
      <4>1. One(order'[o].category) /\ \A k \in order'[o].category : Exists(k)'
        BY <1>0, <2>3 DEF Right, InStep, One, Existing, Exists
      <4>2. \A i \in order'[o].answers : item'[i].is \in InUse
        BY <1>0, <2>0, <2>3 DEF FillInv, OrderKnown
      <4>3. QED
        BY <4>1, <4>2 DEF OrderKnown
    <3>2. ~AtRest(o)'
      BY <1>2, <2>2, <2>4 DEF AtRest, Filled
    <3>3. \A e \in Desks \ {d} : o \notin form[e].order
      BY <1>2 DEF FillInv, Disjoint
    <3>4. QED
      BY <3>1, <3>2, <3>3 DEF WrittenBy, OrderFits
  <2>7. \A n \in Orders : Untouched(d, n) \/ WrittenBy(d, n)
    BY <1>0, <2>3, <2>6 DEF Untouched
  <2>8. \A e \in Desks \ {d} : form[e].order \cap f.order = {}
    BY <2>2 DEF FillInv, Disjoint
  <2>9. QED
    BY <1>0, <2>4, <2>5, <2>7, <2>8, FillsKept
<1>3. QED
  BY <1>1, <1>2 DEF UpdateOrder

\* Saving the answers begins: what the category does not ask is to be deleted.
LEMMA FillSaveBegun ==
  ASSUME IntakeTypeOK, FillInv, NEW d \in Desks, BeginSave(d)
  PROVE  FillInv'
<1>0. /\ form[d].at = "clear" /\ form[d] \in Form /\ Right(form[d])
      /\ UNCHANGED <<category, item, order>>
  BY DEF BeginSave, IntakeTypeOK, FillInv
<1>1. PICK o, ks :
        /\ o \in form[d].order
        /\ ks = IF form[d].op = "edit" THEN order[o].category ELSE form[d].category
        /\ form' = [form EXCEPT ![d].at = "write", ![d].category = ks,
                                ![d].doomed = IF ks = {} THEN order[o].answers ELSE Doomed(o, ks)]
        /\ behind' = behind \ {o}
  BY DEF BeginSave
<1>2. o \in Orders /\ form[d].order = {o}
  BY <1>0, <1>1 DEF Form, Right, InStep, One
<1>3. OrderKnown(o) /\ OrderFits(o)
  BY <1>2 DEF FillInv
<1>4. order[o].category = Existing(ks) /\ One(ks) /\ \A k \in ks : category[k] # "none"
  <2>1. CASE form[d].op = "edit"
    <3>1. Existing(order[o].category) = order[o].category
          /\ \A k \in order[o].category : category[k] # "none"
      BY <1>3 DEF OrderKnown, Existing, Exists
    <3>2. QED
      BY <1>1, <1>3, <2>1, <3>1 DEF OrderKnown
  <2>2. CASE form[d].op # "edit"
    BY <1>0, <1>1, <2>2 DEF Right, InStep, Follows
  <2>3. QED
    BY <2>1, <2>2
<1>5. PICK f : f = [form[d] EXCEPT !.at = "write", !.category = ks,
                      !.doomed = IF ks = {} THEN order[o].answers ELSE Doomed(o, ks)]
  OBVIOUS
<1>6. /\ f.at = "write" /\ f.op = form[d].op /\ f.order = {o} /\ f.category = ks
      /\ f.doomed = IF ks = {} THEN order[o].answers ELSE Doomed(o, ks)
  BY <1>0, <1>2, <1>5 DEF Form
<1>7. form' = [form EXCEPT ![d] = f] /\ form'[d] = f
  BY <1>1, <1>5 DEF IntakeTypeOK
\* The answers that are kept are asked by the category the order has.
<1>8. ASSUME NEW i \in order[o].answers \ f.doomed PROVE item[i].category = order[o].category
  <2>1. i \in Asked(ks)
    BY <1>6, <1>8 DEF Doomed
  <2>2. i \in Items /\ item[i].is \in InUse /\ item[i].category \subseteq ks
    BY <2>1 DEF Asked, InUse
  <2>3. PICK k \in Categories : item[i].category = {k} /\ Exists(k)
    BY <2>2 DEF FillInv, ItemsKnown
  <2>4. ks = {k}
    BY <1>4, <2>2, <2>3 DEF One
  <2>5. QED
    BY <1>4, <2>3, <2>4 DEF Existing
<1>9. Right(f)'
  <2>1. InStep(f)'
    <3>1. f.op \in FillingOps /\ order'[o].there /\ f.op \in {"public", "office", "edit"}
      BY <1>0, <1>1, <1>6 DEF Right, InStep, Filled
    <3>2. QED
      BY <1>4, <1>6, <3>1 DEF InStep, Filled, One
  <2>2. Follows(f)'
    BY <1>0, <1>4, <1>6 DEF Follows, Existing, Exists
  <2>3. Blank(f)'
    BY <1>0, <1>2, <1>6 DEF Right, Blank
  <2>4. Pruned(f)'
    BY <1>0, <1>6, <1>8 DEF Pruned
  <2>5. QED
    BY <2>1, <2>2, <2>3, <2>4 DEF Right
<1>10. WrittenBy(d, o)
  <2>1. OrderKnown(o)'
    BY <1>0, <1>3 DEF OrderKnown, Exists
  <2>2. ~AtRest(o)'
    BY <1>6, <1>7 DEF AtRest, Filled
  <2>3. \A e \in Desks \ {d} : o \notin form[e].order
    BY <1>2 DEF FillInv, Disjoint
  <2>4. QED
    BY <2>1, <2>2, <2>3 DEF WrittenBy, OrderFits
<1>11. \A n \in Orders : Untouched(d, n) \/ WrittenBy(d, n)
  BY <1>0, <1>1, <1>2, <1>10 DEF Untouched
<1>12. \A e \in Desks \ {d} : form[e].order \cap f.order = {}
  BY <1>2, <1>6 DEF FillInv, Disjoint
<1>13. QED
  BY <1>0, <1>7, <1>9, <1>11, <1>12, FillsKept

\* The answers are saved: those kept fit, and so do those that are asked.
LEMMA FillSaved ==
  ASSUME IntakeTypeOK, FillInv, NEW d \in Desks, CommitSave(d)
  PROVE  FillInv'
<1>0. /\ form[d].at = "write" /\ form[d] \in Form /\ Right(form[d]) /\ Leave(d)
      /\ UNCHANGED <<category, item, behind>>
  BY DEF CommitSave, IntakeTypeOK, FillInv
<1>1. PICK o, asked :
        /\ o \in form[d].order
        /\ asked = IF form[d].category = {} THEN {} ELSE Asked(form[d].category)
        /\ order' = [order EXCEPT ![o].answers =
             (order[o].answers \ (form[d].doomed \cup asked)) \cup Answered(asked, form[d].posted)]
  BY DEF CommitSave
<1>2. o \in Orders /\ form[d].order = {o}
  BY <1>0, <1>1 DEF Form, Right, InStep, One
<1>3. /\ order'[o].category = order[o].category /\ order'[o].there = order[o].there
      /\ order'[o].answers = (order[o].answers \ (form[d].doomed \cup asked))
                               \cup Answered(asked, form[d].posted)
      /\ \A n \in Orders \ {o} : order'[n] = order[n]
  BY <1>1, <1>2 DEF IntakeTypeOK, OrderRow
<1>4. ASSUME NEW i \in asked
      PROVE  i \in Items /\ item[i].is \in InUse /\ item[i].category = order[o].category
  <2>1. i \in Items /\ item[i].is \in InUse /\ item[i].category \subseteq form[d].category
    BY <1>1, <1>4 DEF Asked, InUse
  <2>2. PICK k \in Categories : item[i].category = {k} /\ Exists(k)
    BY <2>1 DEF FillInv, ItemsKnown
  <2>3. form[d].category = {k}
    BY <1>0, <2>1, <2>2 DEF Right, InStep, One
  <2>4. order[o].category = Existing(form[d].category)
    BY <1>0, <1>2 DEF Right, Follows
  <2>5. QED
    BY <2>1, <2>2, <2>3, <2>4 DEF Existing
<1>5. OrderKnown(o)'
  <2>1. OrderKnown(o)
    BY <1>2 DEF FillInv
  <2>2. \A i \in order'[o].answers : i \in order[o].answers \/ i \in asked
    BY <1>3 DEF Answered
  <2>3. QED
    BY <1>0, <1>3, <1>4, <2>1, <2>2 DEF OrderKnown, Exists
<1>6. OrderFits(o)'
  <2>1. SUFFICES ASSUME o \notin behind, NEW i \in order'[o].answers
                 PROVE  item[i].category = order[o].category
    BY <1>0, <1>3 DEF OrderFits
  <2>2. CASE i \in asked
    BY <1>4, <2>2
  <2>3. CASE i \in order[o].answers \ form[d].doomed
    BY <1>0, <1>2, <2>1, <2>3 DEF Right, Pruned
  <2>4. QED
    BY <1>3, <2>2, <2>3 DEF Answered
<1>7. \A e \in Desks \ {d} : o \notin form[e].order
  BY <1>2 DEF FillInv, Disjoint
<1>8. \A n \in Orders : Untouched(d, n) \/ WrittenBy(d, n)
  BY <1>0, <1>2, <1>3, <1>5, <1>6, <1>7 DEF Untouched, WrittenBy
<1>9. QED
  BY <1>0, <1>8, FillLeft

\* A copy of an order fits if the order does, which nobody is filling in.
LEMMA FillRecycled ==
  ASSUME IntakeTypeOK, FillInv, NEW d \in Desks, Recycle(d)
  PROVE  FillInv'
<1>0. /\ form[d].at = "recycle" /\ form[d] \in Form /\ Right(form[d]) /\ Leave(d) /\ ~Filled(form[d])
      /\ UNCHANGED <<category, item>>
  BY DEF Recycle, IntakeTypeOK, FillInv, Filled
<1>1. CASE UNCHANGED <<order, behind>>
  BY <1>0, <1>1, NothingFilled, FillLeft
<1>2. ASSUME NEW o \in form[d].order, NEW n \in Orders, ~order[n].there,
             \A k \in form[d].category : Exists(k),
             order' = [order EXCEPT ![n] = [NoOrder EXCEPT
                 !.there = TRUE, !.category = form[d].category,
                 !.customer = form[d].customer, !.answers = order[o].answers]],
             behind' = IF o \in behind THEN behind \cup {n} ELSE behind
      PROVE  FillInv'
  <2>1. o \in Orders /\ form[d].order = {o}
    BY <1>0 DEF Form, Right, InStep, One
  <2>2. order[o].category = form[d].category
    BY <1>0, <1>2 DEF Right, Follows, Existing
  <2>3. /\ order'[n].category = order[o].category /\ order'[n].answers = order[o].answers
        /\ \A m \in Orders \ {n} : order'[m] = order[m]
    BY <1>2, <2>2 DEF IntakeTypeOK, NoOrder
  <2>4. OrderKnown(o) /\ OrderFits(o) /\ AtRest(o)
    BY <1>0, <2>1 DEF FillInv, Disjoint, AtRest
  <2>5. OrderKnown(n)'
    BY <1>0, <2>3, <2>4 DEF OrderKnown, Exists
  <2>6. OrderFits(n)'
    BY <1>0, <1>2, <2>3, <2>4 DEF OrderFits
  <2>7. WrittenBy(d, n)
    BY <1>2, <2>5, <2>6, NewIsFree DEF WrittenBy
  <2>8. \A m \in Orders : Untouched(d, m) \/ WrittenBy(d, m)
    BY <1>0, <1>2, <2>3, <2>7 DEF Untouched
  <2>9. QED
    BY <1>0, <2>8, FillLeft
<1>3. QED
  BY <1>1, <1>2 DEF Recycle

\* What happens to customers leaves what an order is filled with.
LEMMA FillCustomersChanged ==
  ASSUME IntakeTypeOK, FillInv, NEW d \in Desks, PutCustomer(d) \/ DeleteCustomer(d)
  PROVE  FillInv'
<1>1. ~Filled(form[d]) /\ Leave(d) /\ UNCHANGED <<category, item, behind>>
  BY DEF PutCustomer, DeleteCustomer, Filled
<1>2. \A o \in Orders : /\ order'[o].category = order[o].category
                        /\ order'[o].answers = order[o].answers
                        /\ order'[o].there = order[o].there
  BY DEF PutCustomer, DeleteCustomer, IntakeTypeOK, OrderRow
<1>3. \A o \in Orders : Untouched(d, o)
  BY <1>1, <1>2 DEF Untouched
<1>4. QED
  BY <1>1, <1>3, FillLeft

\* A worker that dies leaves an edited order behind, and a new one without answers.
LEMMA FillAbandoned ==
  ASSUME IntakeTypeOK, FillInv, NEW d \in Desks, Abandon(d)
  PROVE  FillInv'
<1>0. /\ Right(form[d]) /\ form[d] \in Form /\ Leave(d) /\ UNCHANGED <<category, item, order>>
      /\ behind \subseteq behind'
  BY DEF Abandon, FillInv, IntakeTypeOK
<1>1. ASSUME NEW o \in Orders PROVE Untouched(d, o) \/ WrittenBy(d, o)
  <2>1. CASE o \in form[d].order /\ Filled(form[d])
    <3>1. OrderKnown(o)'
      BY <1>0 DEF FillInv, OrderKnown, Exists
    <3>2. \A e \in Desks \ {d} : o \notin form[e].order
      BY <2>1 DEF FillInv, Disjoint
    <3>3. CASE form[d].op = "edit"
      <4>1. o \in behind'
        BY <2>1, <3>3 DEF Abandon, Filled
      <4>2. QED
        BY <3>1, <3>2, <4>1 DEF WrittenBy, OrderFits
    <3>4. CASE form[d].op # "edit"
      <4>1. order'[o].answers = {}
        BY <1>0, <2>1, <3>4 DEF Right, InStep, Blank
      <4>2. QED
        BY <3>1, <3>2, <4>1 DEF WrittenBy, OrderFits
    <3>5. QED
      BY <3>3, <3>4
  <2>2. CASE ~(o \in form[d].order /\ Filled(form[d]))
    BY <1>0, <2>2 DEF Untouched
  <2>3. QED
    BY <2>1, <2>2
<1>2. QED
  BY <1>0, <1>1, FillLeft

\* An item that changes keeps a category and fits where it is an answer, or the order
\* is left behind.
LEMMA FillItemsChanged ==
  ASSUME IntakeTypeOK, FillInv, UNCHANGED <<category, order, form>>, behind \subseteq behind',
         ItemsKnown',
         \A o \in Orders : \A i \in order[o].answers :
           item'[i].is \in InUse /\ (o \notin behind' => item'[i].category = item[i].category)
  PROVE  FillInv'
<1>1. ASSUME NEW o \in Orders PROVE OrderKnown(o)' /\ OrderFits(o)'
  <2>1. OrderKnown(o) /\ OrderFits(o) /\ (AtRest(o)' <=> AtRest(o))
    BY DEF FillInv, AtRest
  <2>2. OrderKnown(o)'
    BY <2>1 DEF OrderKnown, Exists
  <2>3. OrderFits(o)'
    BY <2>1 DEF OrderFits
  <2>4. QED
    BY <2>2, <2>3
<1>2. ASSUME NEW d \in Desks PROVE Right(form[d])'
  <2>1. Right(form[d]) /\ form[d] \in Form
    BY DEF FillInv, IntakeTypeOK
  <2>2. InStep(form[d])' /\ Blank(form[d])'
    BY <2>1 DEF Right, InStep, Blank, Filled
  <2>3. Follows(form[d])'
    BY <2>1 DEF Right, Follows, Existing, Exists
  <2>4. Pruned(form[d])'
    BY <2>1 DEF Right, Pruned, Form
  <2>5. QED
    BY <2>2, <2>3, <2>4 DEF Right
<1>3. QED
  BY <1>1, <1>2 DEF FillInv, Disjoint

LEMMA FillItems ==
  ASSUME IntakeTypeOK, FillInv, NEW i \in Items,
         DeleteItem(i) \/ \E k \in Categories : CreateItem(i, k) \/ EditItem(i, k)
  PROVE  FillInv'
<1>1. UNCHANGED <<category, order, form>> /\ behind \subseteq behind'
  BY DEF DeleteItem, CreateItem, EditItem
<1>2. \A o \in Orders : \A j \in order[o].answers : j \in Items /\ item[j].is \in InUse
  BY DEF IntakeTypeOK, OrderRow, FillInv, OrderKnown
<1>3. CASE DeleteItem(i)
  <2>1. /\ item'[i].is = "inactive" /\ item'[i].category = item[i].category /\ item[i].is \in InUse
        /\ \A j \in Items \ {i} : item'[j] = item[j]
    BY <1>3 DEF DeleteItem, IntakeTypeOK, ItemRow, InUse
  <2>2. ItemsKnown'
    BY <1>1, <2>1 DEF FillInv, ItemsKnown, Exists
  <2>3. QED
    BY <1>1, <1>2, <2>1, <2>2, FillItemsChanged DEF InUse
<1>4. ASSUME NEW k \in Categories, CreateItem(i, k) \/ EditItem(i, k) PROVE FillInv'
  <2>1. /\ item'[i].is \in InUse /\ item'[i].category = {k} /\ Exists(k)
        /\ \A j \in Items \ {i} : item'[j] = item[j]
    BY <1>4 DEF CreateItem, EditItem, IntakeTypeOK, InUse
  <2>2. ItemsKnown'
    BY <1>1, <2>1 DEF FillInv, ItemsKnown, Exists
  <2>3. \A o \in Orders : i \in order[o].answers /\ o \notin behind' => item[i].category = {k}
    BY <1>2, <1>4 DEF CreateItem, EditItem, InUse
  <2>4. QED
    BY <1>1, <1>2, <2>1, <2>2, <2>3, FillItemsChanged
<1>5. QED
  BY <1>3, <1>4

\* A category that comes to be, or is switched, stays the category of its orders.
LEMMA FillCategorySwitched ==
  ASSUME IntakeTypeOK, FillInv, NEW k \in Categories, CreateCategory(k) \/ SwitchCategory(k)
  PROVE  FillInv'
<1>1. UNCHANGED <<item, order, form, behind>>
  BY DEF CreateCategory, SwitchCategory
<1>2. \A j \in Categories : /\ Exists(j) => Exists(j)'
                            /\ category[j] # "none" => /\ Exists(j)' => Exists(j)
                                                       /\ category'[j] # "none"
  BY DEF CreateCategory, SwitchCategory, Exists, IntakeTypeOK
<1>3. ItemsKnown'
  BY <1>1, <1>2 DEF FillInv, ItemsKnown
<1>4. ASSUME NEW o \in Orders PROVE OrderKnown(o)' /\ OrderFits(o)'
  <2>1. order[o].category \subseteq Categories
    BY DEF IntakeTypeOK, OrderRow
  <2>2. QED
    BY <1>1, <1>2, <2>1 DEF FillInv, OrderKnown, OrderFits, AtRest
<1>5. ASSUME NEW d \in Desks PROVE Right(form[d])'
  <2>1. Right(form[d]) /\ form[d].category \subseteq Categories
    BY DEF FillInv, IntakeTypeOK, Form
  <2>2. InStep(form[d])' /\ Blank(form[d])' /\ Pruned(form[d])'
    BY <1>1, <2>1 DEF Right, InStep, Blank, Filled, Pruned
  <2>3. Follows(form[d])'
    BY <1>1, <1>2, <2>1 DEF Right, Follows, Existing
  <2>4. QED
    BY <2>2, <2>3 DEF Right
<1>6. QED
  BY <1>1, <1>3, <1>4, <1>5 DEF FillInv, Disjoint

\* A category is deleted with its items and their answers.
LEMMA FillCategoryDeleted ==
  ASSUME IntakeTypeOK, FillInv, NEW k \in Categories, DeleteCategory(k)
  PROVE  FillInv'
<1> DEFINE items == {i \in Items : item[i].category = {k}}
<1>1. UNCHANGED <<form, behind>>
  BY DEF DeleteCategory
<1>2. /\ category'[k] = "gone" /\ ~Exists(k)'
      /\ \A j \in Categories \ {k} : category'[j] = category[j] /\ (Exists(j)' <=> Exists(j))
  BY DEF DeleteCategory, IntakeTypeOK, Exists
<1>3. /\ \A i \in items : item'[i].is = "gone"
      /\ \A i \in Items \ items : item'[i] = item[i]
  BY DEF DeleteCategory
<1>4. \A o \in Orders : /\ order'[o].category = order[o].category \ {k}
                        /\ order'[o].answers = order[o].answers \ items
                        /\ order'[o].there = order[o].there
  BY DEF DeleteCategory, IntakeTypeOK, OrderRow
<1>5. \A o \in Orders : order[o].category \subseteq Categories /\ order[o].answers \subseteq Items
  BY DEF IntakeTypeOK, OrderRow
<1> HIDE DEF items
<1>6. ItemsKnown'
  <2>1. SUFFICES ASSUME NEW i \in Items, item'[i].is \in InUse
                 PROVE  \E j \in Categories : item'[i].category = {j} /\ Exists(j)'
    BY DEF ItemsKnown
  <2>2. item'[i] = item[i] /\ i \notin items
    BY <1>3, <2>1 DEF InUse
  <2>3. PICK j \in Categories : item[i].category = {j} /\ Exists(j)
    BY <2>1, <2>2 DEF FillInv, ItemsKnown
  <2>4. j # k
    BY <2>2, <2>3 DEF items
  <2>5. QED
    BY <1>2, <2>2, <2>3, <2>4
<1>7. ASSUME NEW o \in Orders PROVE OrderKnown(o)'
  BY <1>2, <1>3, <1>4, <1>5 DEF FillInv, OrderKnown, One
\* An answer that fitted is deleted, or its order keeps the category.
<1>8. ASSUME NEW o \in Orders, NEW i \in order'[o].answers, item[i].category = order[o].category
      PROVE  item'[i].category = order'[o].category
  <2>1. i \in Items \ items /\ item'[i] = item[i] /\ order[o].category # {k}
    BY <1>3, <1>4, <1>5, <1>8 DEF items
  <2>2. One(order[o].category)
    BY DEF FillInv, OrderKnown
  <2>3. k \notin order[o].category
    BY <2>1, <2>2 DEF One
  <2>4. QED
    <3>1. order'[o].category = order[o].category \ {k}
      BY <1>4
    <3>2. order[o].category \ {k} = order[o].category
      BY <2>3
    <3>3. QED
      BY <1>8, <2>1, <3>1, <3>2
<1>9. ASSUME NEW o \in Orders PROVE OrderFits(o)'
  BY <1>1, <1>4, <1>8 DEF FillInv, OrderFits, AtRest
<1>10. ASSUME NEW d \in Desks PROVE Right(form[d])'
  <2>1. Right(form[d]) /\ form[d].category \subseteq Categories /\ form[d].order \subseteq Orders
    BY DEF FillInv, IntakeTypeOK, Form
  <2>2. InStep(form[d])' /\ Blank(form[d])'
    BY <1>1, <1>4, <2>1 DEF Right, InStep, Blank, Filled
  <2>3. Follows(form[d])'
    <3>1. Existing(form[d].category)' = Existing(form[d].category) \ {k}
      BY <1>1, <1>2, <2>1 DEF Existing
    <3>2. QED
      BY <1>1, <1>2, <1>4, <2>1, <3>1 DEF Right, Follows
  <2>4. Pruned(form[d])'
    BY <1>1, <1>4, <1>8, <2>1 DEF Right, Pruned
  <2>5. QED
    BY <2>2, <2>3, <2>4 DEF Right
<1>11. QED
  BY <1>1, <1>6, <1>7, <1>9, <1>10 DEF FillInv, Disjoint

\* An order the office creates for a customer has no answers.
LEMMA FillOrderCreated ==
  ASSUME IntakeTypeOK, FillInv, NEW c \in Customers, CreateOrder(c)
  PROVE  FillInv'
<1>1. PICK o \in Orders :
        /\ ~order[o].there
        /\ order' = [order EXCEPT ![o] = [NoOrder EXCEPT
                       !.there = TRUE, !.customer = {c}, !.phone = customer[c].phone]]
  BY DEF CreateOrder
<1>2. UNCHANGED <<category, item, form, behind>>
  BY DEF CreateOrder
<1>3. /\ order'[o].category = {} /\ order'[o].answers = {}
      /\ \A n \in Orders \ {o} : order'[n] = order[n]
  BY <1>1 DEF IntakeTypeOK, NoOrder
<1>4. ASSUME NEW n \in Orders PROVE OrderKnown(n)' /\ OrderFits(n)'
  <2>1. OrderKnown(n) /\ OrderFits(n) /\ (AtRest(n)' <=> AtRest(n))
    BY <1>2 DEF FillInv, AtRest
  <2>2. QED
    BY <1>2, <1>3, <2>1 DEF OrderKnown, OrderFits, One, Exists
<1>5. ASSUME NEW d \in Desks PROVE Right(form[d])'
  <2>1. Right(form[d]) /\ form[d].order \subseteq Orders
    BY DEF FillInv, IntakeTypeOK, Form
  <2>2. \A n \in form[d].order : order'[n] = order[n]
    BY <1>1, <1>3, <2>1, NewIsFree
  <2>3. InStep(form[d])' /\ Blank(form[d])' /\ Pruned(form[d])'
    BY <1>2, <2>1, <2>2 DEF Right, InStep, Blank, Filled, Pruned
  <2>4. Follows(form[d])'
    BY <1>2, <2>1, <2>2 DEF Right, Follows, Existing, Exists
  <2>5. QED
    BY <2>3, <2>4 DEF Right
<1>6. ItemsKnown'
  BY <1>2 DEF FillInv, ItemsKnown, Exists
<1>7. QED
  BY <1>2, <1>4, <1>5, <1>6 DEF FillInv, Disjoint

LEMMA FillInvStarts == IntakeInit => FillInv
<1> SUFFICES ASSUME IntakeInit PROVE FillInv
  OBVIOUS
<1>1. ItemsKnown
  <2>1. SUFFICES ASSUME NEW i \in Items, item[i].is \in InUse
                 PROVE  \E k \in Categories : item[i].category = {k} /\ Exists(k)
    BY DEF ItemsKnown
  <2>2. item[i] \in [is : {"active"}, category : {{k} : k \in Categories}]
    BY <2>1 DEF IntakeInit, NoItem, InUse
  <2>3. PICK k \in Categories : item[i].category = {k}
    BY <2>2
  <2>4. category[k] = "active"
    BY <2>3 DEF IntakeInit
  <2>5. QED
    BY <2>3, <2>4 DEF Exists
<1>2. \A o \in Orders : OrderKnown(o) /\ OrderFits(o)
  BY DEF IntakeInit, NoOrder, OrderKnown, OrderFits, One
<1>3. \A d \in Desks : form[d] = NoForm
  BY DEF IntakeInit
<1>4. Disjoint /\ \A d \in Desks : Right(form[d])
  BY <1>3, NoFormRight DEF Disjoint
<1>5. QED
  BY <1>1, <1>2, <1>4 DEF FillInv

LEMMA FillInvSteps ==
  ASSUME FilledOnce
  PROVE  IntakeTypeOK /\ FillInv /\ [IntakeNext]_intake => FillInv'
<1> SUFFICES ASSUME IntakeTypeOK, FillInv, [IntakeNext]_intake PROVE FillInv'
  OBVIOUS
<1>1. ASSUME NEW d \in Desks, NEW p \in Phones, NEW ks \in {{}} \cup {{k} : k \in Categories},
             NEW posted \in SUBSET Items,
             \/ \E op \in {"public", "office"} : BeginOrder(d, op, p, ks, posted)
             \/ \E o \in Orders : BeginEdit(d, o, p, ks, posted)
      PROVE  FillInv'
  <2>1. ks \in SUBSET Categories /\ One(ks)
    BY DEF One
  <2>2. QED
    BY <1>1, <2>1, FillOrderBegun, FillEditBegun
<1>2. ASSUME NEW d \in Desks, Filling(d) PROVE FillInv'
  BY <1>1, <1>2, FillRecycleBegun, FillCustomersBegun, FillCustomerCreated, FillOrderPlaced,
     FillOrderUpdated, FillSaveBegun, FillSaved, FillRecycled, FillCustomersChanged, FillAbandoned
  DEF Filling
<1>3. CASE SettingUp
  BY <1>3, FillItems, FillCategorySwitched, FillCategoryDeleted DEF SettingUp
<1>4. CASE UNCHANGED intake
  BY <1>4 DEF intake, FillInv, ItemsKnown, Disjoint, OrderKnown, OrderFits, AtRest, Right, InStep,
     Follows, Blank, Pruned, Filled, Existing, Exists
<1>5. QED
  BY <1>2, <1>3, <1>4, FillOrderCreated DEF IntakeNext

\* If an order is filled in by one request at a time, an order whose forms have all
\* been saved answers only what its category asks, or was left behind, whatever the
\* office does to categories and items meanwhile.
THEOREM AnswersFitAlways == ASSUME FilledOnce PROVE IntakeSpec => []AnswersFit
<1>1. FillInv => AnswersFit
  BY DEF FillInv, OrderFits, AtRest, Filled, AnswersFit
<1>2. IntakeTypeOK /\ FillInv /\ [IntakeNext]_intake => FillInv'
  BY FillInvSteps
<1>3. QED
  BY <1>1, <1>2, FillInvStarts, IntakeStarts, IntakeSteps, PTL DEF IntakeSpec

=============================================================================
