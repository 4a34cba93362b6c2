--------------------------- MODULE MerchantReview ---------------------------
(***************************************************************************)
(* The registration and bank data of one company, which the platform owner *)
(* reviews before the company may be paid through a gateway.               *)
(*                                                                         *)
(* The company submits its profile, and once it is approved asks for       *)
(* changes; the owner decides.  Saves write every column of a copy or the  *)
(* columns they name.  The owner's pages show their buttons by the status  *)
(* they were loaded with and no service looks at it again, so a decision   *)
(* may come in any status once there was a page to make it from.           *)
(***************************************************************************)
EXTENDS Naturals

CONSTANTS
  Clients,   \* requests that may be in flight: of the company, of the owner
  Texts,     \* what the fields of a profile may hold
  Filled,    \* those with every required one
  Blank,     \* those of a new profile
  Cards,     \* documents: images of the national card
  NoCard,    \* no document, or none uploaded
  Requests   \* ids of the change requests

ASSUME ContentsAssumption ==
  /\ Filled \subseteq Texts
  /\ Blank \in Texts \ Filled
  /\ NoCard \in Cards

VARIABLES
  active,    \* is_active of the company
  profile,   \* its CompanyMerchantProfile row
  request,   \* the CompanyMerchantProfileChangeRequest rows
  setting,   \* is_active of its CompanyPaymentGatewaySetting
  job,       \* each request in flight: what it does, and what it read
  pages,     \* history: a page with the buttons to decide has been shown
  endorsed,  \* history: contents the owner has put in force
  used,      \* history: contents a gateway was switched on or a payment begun with
  applied    \* history: change requests whose proposal was written to the profile

history == <<pages, endorsed, used, applied>>
vars == <<active, profile, request, setting, job, history>>

Status == {"none", "NOT_SUBMITTED", "SUBMITTED", "UNDER_REVIEW", "APPROVED", "REJECTED",
           "CHANGE_REQUESTED"}
Contents == [text : Texts, card : Cards]
Complete == {content \in Contents : content.text \in Filled /\ content.card # NoCard}
Empty == [text |-> Blank, card |-> NoCard]

\* The document of the copy stays where none is uploaded.
With(text, upload, card) == [text |-> text, card |-> IF upload = NoCard THEN card ELSE upload]

Profile == [status : Status, content : Contents]
NoProfile == [status |-> "none", content |-> Empty]

RequestStatus == {"none", "PENDING", "APPROVED", "REJECTED"}
Request == [status : RequestStatus, proposed : Contents]
NoRequest == [status |-> "none", proposed |-> Empty]

\* content: of the form as posted, or of the copy about to be saved;
\* request: the one being approved; active: of the company, as read
Ops == {"none", "submit", "propose", "approve", "close", "edit", "gateway", "start"}
Job == [op : Ops, content : Contents, request : SUBSET Requests, active : BOOLEAN]
Idle == [op |-> "none", content |-> Empty, request |-> {}, active |-> FALSE]

\* A company is created active by the owner, inactive by a visitor; its profile when
\* first looked at.
Init ==
  /\ active \in BOOLEAN
  /\ profile = NoProfile
  /\ request = [r \in Requests |-> NoRequest]
  /\ setting = FALSE
  /\ job = [c \in Clients |-> Idle]
  /\ pages = FALSE
  /\ endorsed = {}
  /\ used = {}
  /\ applied = {}

----------------------------------------------------------------------------
Begin(c, new) ==
  /\ job[c] = Idle
  /\ job' = [job EXCEPT ![c] = new]

Done(c) == job' = [job EXCEPT ![c] = Idle]

----------------------------------------------------------------------------
\* The company: requests of an inactive one are answered with 404

\* The company opens a page about its profile, which creates the row.
Open ==
  /\ active
  /\ profile = NoProfile
  /\ profile' = [profile EXCEPT !.status = "NOT_SUBMITTED"]
  /\ UNCHANGED <<active, request, setting, job, history>>

Editable == {"NOT_SUBMITTED", "REJECTED", "CHANGE_REQUESTED"}

\* The form is put into a copy of the row; one with errors changes nothing.
BeginSubmit(c) ==
  /\ active
  /\ profile.status \in Editable
  /\ \E text \in Texts, upload \in Cards :
       /\ With(text, upload, profile.content.card) \in Complete
       /\ Begin(c, [Idle EXCEPT !.op = "submit",
                                !.content = With(text, upload, profile.content.card)])
  /\ UNCHANGED <<active, profile, request, setting, history>>

\* Mutant of Submitted: the fields are saved, the status is not.
SubmittedFields(content) == [profile EXCEPT !.content = content]
Submitted(content) == [status |-> "SUBMITTED", content |-> content]

\* Every column, whatever the owner has decided or approved since the row was read.
SaveSubmit(c) ==
  /\ job[c].op = "submit"
  /\ profile' = Submitted(job[c].content)
  /\ pages' = TRUE
  /\ Done(c)
  /\ UNCHANGED <<active, request, setting, endorsed, used, applied>>

\* The form of a change request; its fields may be left blank.
BeginPropose(c) ==
  /\ active
  /\ profile.status = "APPROVED"
  /\ \E content \in Contents : Begin(c, [Idle EXCEPT !.op = "propose", !.content = content])
  /\ UNCHANGED <<active, profile, request, setting, history>>

InsertRequest(c, r) ==
  /\ job[c].op = "propose"
  /\ request[r] = NoRequest
  /\ request' = [request EXCEPT ![r] = [status |-> "PENDING", proposed |-> job[c].content]]
  /\ Done(c)
  /\ UNCHANGED <<active, profile, setting, history>>

\* is_gateway_enabled, for a company read earlier and the profile as it is now.
Eligible(c) ==
  /\ job[c].active
  /\ profile.status = "APPROVED"
  /\ profile.content \in Complete

BeginGateway(c) ==
  /\ active
  /\ Begin(c, [Idle EXCEPT !.op = "gateway", !.active = active])
  /\ UNCHANGED <<active, profile, request, setting, history>>

\* The settings form; without eligibility the gateway is saved switched off.
SaveGateway(c) ==
  /\ job[c].op = "gateway"
  /\ \E wanted \in BOOLEAN :
       /\ setting' = (wanted /\ Eligible(c))
       /\ used' = IF setting' THEN used \cup {profile.content} ELSE used
  /\ Done(c)
  /\ UNCHANGED <<active, profile, request, pages, endorsed, applied>>

\* A customer starts an online payment to the company.
BeginStart(c) ==
  /\ active
  /\ Begin(c, [Idle EXCEPT !.op = "start", !.active = active])
  /\ UNCHANGED <<active, profile, request, setting, history>>

Start(c) ==
  /\ job[c].op = "start"
  /\ used' = IF Eligible(c) THEN used \cup {profile.content} ELSE used
  /\ Done(c)
  /\ UNCHANGED <<active, profile, request, setting, pages, endorsed, applied>>

----------------------------------------------------------------------------
\* The owner's decisions

\* Under review, rejected, or sent back: only the status and the notes are saved.
Decide ==
  /\ pages
  /\ \E status \in {"UNDER_REVIEW", "REJECTED", "CHANGE_REQUESTED"} :
       profile' = [profile EXCEPT !.status = status]
  /\ UNCHANGED <<active, request, setting, job, history>>

Approve ==
  /\ pages
  /\ profile' = [profile EXCEPT !.status = "APPROVED"]
  /\ endorsed' = endorsed \cup {profile.content}
  /\ UNCHANGED <<active, request, setting, job, pages, used, applied>>

\* The proposal is put into a copy of the profile ...
BeginApply(c, r) ==
  /\ request[r] # NoRequest
  /\ LET proposed == request[r].proposed
     IN  Begin(c, [Idle EXCEPT !.op = "approve", !.request = {r},
                     !.content = With(proposed.text, proposed.card, profile.content.card)])
  /\ UNCHANGED <<active, profile, request, setting, history>>

\* ... every column of which is saved, APPROVED, ...
SaveApply(c) ==
  /\ job[c].op = "approve"
  /\ profile' = [status |-> "APPROVED", content |-> job[c].content]
  /\ endorsed' = endorsed \cup {job[c].content}
  /\ applied' = applied \cup job[c].request
  /\ job' = [job EXCEPT ![c].op = "close"]
  /\ UNCHANGED <<active, request, setting, pages, used>>

\* ... and then the request is marked.
CloseRequest(c, r) ==
  /\ job[c].op = "close"
  /\ job[c].request = {r}
  /\ request' = [request EXCEPT ![r].status = "APPROVED"]
  /\ Done(c)
  /\ UNCHANGED <<active, profile, setting, history>>

\* Mutant of Refused: the decision of the other button.
RefusedAsApproved == "APPROVED"
Refused == "REJECTED"

RejectRequest(r) ==
  /\ request[r] # NoRequest
  /\ request' = [request EXCEPT ![r].status = Refused]
  /\ UNCHANGED <<active, profile, setting, job, history>>

----------------------------------------------------------------------------
\* The owner's company pages

Activate ==
  /\ active' = TRUE
  /\ profile' = IF profile = NoProfile THEN [profile EXCEPT !.status = "NOT_SUBMITTED"] ELSE profile
  /\ UNCHANGED <<request, setting, job, pages, endorsed, used, applied>>

Deactivate ==
  /\ active' = FALSE
  /\ UNCHANGED <<profile, request, setting, job, pages, endorsed, used, applied>>

BeginEdit(c) ==
  /\ Begin(c, [Idle EXCEPT !.op = "edit", !.active = active])
  /\ UNCHANGED <<active, profile, request, setting, history>>

\* Name and address, saved with every other column of the copy.
SaveEdit(c) ==
  /\ job[c].op = "edit"
  /\ active' = job[c].active
  /\ Done(c)
  /\ UNCHANGED <<profile, request, setting, history>>

----------------------------------------------------------------------------
\* A request dies with its process; nothing here is one transaction.
Crash(c) ==
  /\ job[c] # Idle
  /\ Done(c)
  /\ UNCHANGED <<active, profile, request, setting, history>>

Company(c) ==
  \/ BeginSubmit(c) \/ SaveSubmit(c)
  \/ BeginPropose(c) \/ \E r \in Requests : InsertRequest(c, r)
  \/ BeginGateway(c) \/ SaveGateway(c)
  \/ BeginStart(c) \/ Start(c)

Owner(c) ==
  \/ \E r \in Requests : BeginApply(c, r) \/ CloseRequest(c, r)
  \/ SaveApply(c)
  \/ BeginEdit(c) \/ SaveEdit(c)

Next ==
  \/ Open
  \/ Decide
  \/ Approve
  \/ \E r \in Requests : RejectRequest(r)
  \/ Activate
  \/ Deactivate
  \/ \E c \in Clients : Company(c) \/ Owner(c) \/ Crash(c)

Spec == Init /\ [][Next]_vars

----------------------------------------------------------------------------
\* Properties

\* Rows and requests have their types; and what a request is about to submit
\* passed the test for required fields (MerchantProfileService.submit).
TypeOK ==
  /\ {active, setting, pages} \subseteq BOOLEAN
  /\ profile \in Profile
  /\ request \in [Requests -> Request]
  /\ job \in [Clients -> Job]
  /\ \A c \in Clients : job[c].op = "submit" => job[c].content \in Complete
  /\ {endorsed, used} \subseteq SUBSET Contents
  /\ applied \in SUBSET Requests

\* No payment begins, and no gateway is switched on, with bank data the owner
\* has not put in force as they stand, text and document together: a submission
\* that was read before a decision and saved after it takes the approval back, and
\* an approved change, which keeps the document of its copy, is saved with it
\* (CompanyPaymentEligibilityService, MerchantProfileService.submit,
\* MerchantProfileChangeRequestService.approve).
GatewayForEndorsed ==
  /\ used \subseteq endorsed
  /\ profile.status = "APPROVED" => profile.content \in endorsed

\* The proposal of an APPROVED change request was written to the profile, also
\* when the process dies between the two saves or both decisions are made
\* (MerchantProfileChangeRequestService.approve, reject).
ApprovedWasApplied == \A r \in Requests : request[r].status = "APPROVED" => r \in applied

=============================================================================
