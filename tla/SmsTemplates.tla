---------------------------- MODULE SmsTemplates ----------------------------
(***************************************************************************)
(* The wording of one kind of SMS of one company, and the switches that    *)
(* decide whether it is queued at all.                                     *)
(*                                                                         *)
(* The platform keeps a master text.  A company may ask for another; the   *)
(* platform owner approves it, in a wording of the owner's, or rejects it. *)
(* The approval writes the company's template and then the request, in two *)
(* transactions.  The same event is switched by the platform, by the       *)
(* company's notification setting and by the template, and each page       *)
(* writes those of them it knows of.                                       *)
(***************************************************************************)
CONSTANTS
  Clients,    \* requests and commands that may be in flight
  Requests,   \* ids of the change requests
  Texts,      \* wordings a company may ask for and the owner may approve
  Master,     \* the platform's wording, with which a template is provisioned
  Fallback,   \* the program's own, for an event whose master is missing or inactive
  DefaultOn,  \* whether the catalog switches the event on
  Fatal,      \* what a request may be at when it dies
  Apart       \* pairs of decisions on one request that do not overlap

ASSUME TemplatesAssumption == {Master, Fallback} \cap Texts = {} /\ DefaultOn \in BOOLEAN

VARIABLES
  platform,  \* is_active of the platform's PlatformSMSMessageTypeSetting
  setting,   \* sms_enabled of the company's NotificationSetting
  template,  \* the company's SMSTemplate
  request,   \* the SMSTemplateChangeRequest rows
  job,       \* each request or command in flight: where it is, and what it read
  queued,    \* history: the texts of the messages queued
  endorsed   \* history: the texts the owner has posted with an approval

vars == <<platform, setting, template, request, job, queued, endorsed>>

AllTexts == Texts \cup {Master, Fallback}

\* The rows do not exist before the company is provisioned, or first looked at.
Setting == {"none", "on", "off"}
Template == [is : BOOLEAN, text : AllTexts, active : BOOLEAN]
NoTemplate == [is |-> FALSE, text |-> Master, active |-> FALSE]

Status == {"none", "pending", "approved", "rejected"}
Request == [status : Status, asked : AllTexts, approved : AllTexts]
NoRequest == [status |-> "none", asked |-> Master, approved |-> Master]

Places ==
  {"idle", "provision", "post", "toggle", "toggled", "agree", "sync", "sync back", "template",
   "setting", "approve", "approved", "reject", "wanted", "resolve", "override", "master",
   "found", "insert"}
Job == [at : Places, on : BOOLEAN, text : AllTexts, of : SUBSET Requests]
Idle == [at |-> "idle", on |-> FALSE, text |-> Master, of |-> {}]

Init ==
  /\ platform = TRUE
  /\ setting = "none"
  /\ template = NoTemplate
  /\ request = [r \in Requests |-> NoRequest]
  /\ job = [c \in Clients |-> Idle]
  /\ queued = {}
  /\ endorsed = {}

----------------------------------------------------------------------------
MayBegin(c) == job[c].at = "idle"

Goto(c, place) == job' = [job EXCEPT ![c].at = place]
Hold(c, place, on) == job' = [job EXCEPT ![c].at = place, ![c].on = on]
Done(c) == job' = [job EXCEPT ![c] = Idle]

\* ensure_defaults gives the company a setting before it is read or written.
Switch(on) == IF on THEN "on" ELSE "off"
Ensured == IF setting = "none" THEN Switch(DefaultOn) ELSE setting

----------------------------------------------------------------------------
\* The registration or activation of a company provisions it; what it has is kept.

BeginProvision(c) ==
  /\ MayBegin(c)
  /\ setting' = Ensured
  /\ Hold(c, "provision", Ensured = "on")
  /\ UNCHANGED <<platform, template, request, queued, endorsed>>

Provisioned(on) ==
  IF template.is THEN template ELSE [is |-> TRUE, text |-> Master, active |-> on]

Provision(c) ==
  /\ job[c].at = "provision"
  /\ template' = Provisioned(job[c].on)
  /\ Done(c)
  /\ UNCHANGED <<platform, setting, request, queued, endorsed>>

----------------------------------------------------------------------------
\* The switches.

\* The owner's page of message types, and its button for the company defaults.
SwitchPlatform ==
  /\ platform' = ~platform
  /\ UNCHANGED <<setting, template, request, job, queued, endorsed>>

ApplyDefaults ==
  /\ setting' = Switch(DefaultOn)
  /\ UNCHANGED <<platform, template, request, job, queued, endorsed>>

\* The communication settings write the setting and nothing else.
SwitchSetting ==
  /\ \E on \in BOOLEAN : setting' = Switch(on)
  /\ UNCHANGED <<platform, template, request, job, queued, endorsed>>

\* The notification settings write the setting, and then the template.
PostSetting(c) ==
  /\ MayBegin(c)
  /\ \E on \in BOOLEAN :
       /\ setting' = Switch(on)
       /\ Hold(c, "post", on)
  /\ UNCHANGED <<platform, template, request, queued, endorsed>>

Activated(row, on) == IF row.is THEN [row EXCEPT !.active = on] ELSE row

PostTemplate(c) ==
  /\ job[c].at = "post"
  /\ template' = Activated(template, job[c].on)
  /\ Done(c)
  /\ UNCHANGED <<platform, setting, request, queued, endorsed>>

\* The template's toggle turns what it has read, and then looks at the setting.
BeginToggle(c) ==
  /\ MayBegin(c)
  /\ template.is
  /\ job' = [job EXCEPT ![c] = [Idle EXCEPT !.at = "toggle", !.on = ~template.active,
                                            !.text = template.text]]
  /\ UNCHANGED <<platform, setting, template, request, queued, endorsed>>

ToggledInFull(copy) == [is |-> TRUE, text |-> copy.text, active |-> copy.on]
Toggled(copy) == Activated(template, copy.on)

Toggle(c) ==
  /\ job[c].at = "toggle"
  /\ template' = Toggled(job[c])
  /\ Goto(c, "toggled")
  /\ UNCHANGED <<platform, setting, request, queued, endorsed>>

LookAtSetting(c) ==
  /\ job[c].at = "toggled"
  /\ setting' = Ensured
  /\ IF Ensured = Switch(job[c].on) THEN Done(c) ELSE Goto(c, "agree")
  /\ UNCHANGED <<platform, template, request, queued, endorsed>>

Agree(c) ==
  /\ job[c].at = "agree"
  /\ setting' = Switch(job[c].on)
  /\ Done(c)
  /\ UNCHANGED <<platform, template, request, queued, endorsed>>

\* The command that aligns them reads one table, then the other, and then writes.
BeginSync(c) ==
  /\ MayBegin(c)
  /\ setting' = Ensured
  /\ \/ Hold(c, "sync", Ensured = "on")
     \/ template.is /\ Hold(c, "sync back", template.active)
  /\ UNCHANGED <<platform, template, request, queued, endorsed>>

CompareTemplate(c) ==
  /\ job[c].at = "sync"
  /\ IF template.is /\ template.active # job[c].on THEN Goto(c, "template") ELSE Done(c)
  /\ UNCHANGED <<platform, setting, template, request, queued, endorsed>>

CompareSetting(c) ==
  /\ job[c].at = "sync back"
  /\ IF setting # Switch(job[c].on) THEN Goto(c, "setting") ELSE Done(c)
  /\ UNCHANGED <<platform, setting, template, request, queued, endorsed>>

AlignTemplate(c) ==
  /\ job[c].at = "template"
  /\ template' = Activated(template, job[c].on)
  /\ Done(c)
  /\ UNCHANGED <<platform, setting, request, queued, endorsed>>

AlignSetting(c) ==
  /\ job[c].at = "setting"
  /\ setting' = Switch(job[c].on)
  /\ Done(c)
  /\ UNCHANGED <<platform, template, request, queued, endorsed>>

----------------------------------------------------------------------------
\* The change requests.

Submit(r) ==
  /\ request[r].status = "none"
  /\ \E text \in Texts :
       request' = [request EXCEPT ![r] = [NoRequest EXCEPT !.status = "pending", !.asked = text]]
  /\ UNCHANGED <<platform, setting, template, job, queued, endorsed>>

Decides(op) == IF op = "approved" THEN "approve" ELSE op
MayDecide(c, op, r) ==
  /\ MayBegin(c)
  /\ request[r].status = "pending"
  /\ \A d \in Clients : job[d].of = {r} => <<Decides(job[d].at), op>> \notin Apart

BeginApprove(c, r) ==
  /\ MayDecide(c, "approve", r)
  /\ \E text \in Texts :
       job' = [job EXCEPT ![c] = [Idle EXCEPT !.at = "approve", !.text = text, !.of = {r}]]
  /\ UNCHANGED <<platform, setting, template, request, queued, endorsed>>

FinalAsAsked(c, r) == request[r].asked
\* The text comes from the owner's form, which shows what the company asked for.
Final(c, r) == job[c].text

WriteOverride(c, r) ==
  /\ job[c].at = "approve" /\ job[c].of = {r}
  /\ template' = [is |-> TRUE, text |-> Final(c, r), active |-> TRUE]
  /\ endorsed' = endorsed \cup {job[c].text}
  /\ Goto(c, "approved")
  /\ UNCHANGED <<platform, setting, request, queued>>

SaveApproval(c, r) ==
  /\ job[c].at = "approved" /\ job[c].of = {r}
  /\ request' = [request EXCEPT ![r].status = "approved", ![r].approved = job[c].text]
  /\ Done(c)
  /\ UNCHANGED <<platform, setting, template, queued, endorsed>>

BeginReject(c, r) ==
  /\ MayDecide(c, "reject", r)
  /\ job' = [job EXCEPT ![c] = [Idle EXCEPT !.at = "reject", !.of = {r}]]
  /\ UNCHANGED <<platform, setting, template, request, queued, endorsed>>

Reject(c, r) ==
  /\ job[c].at = "reject" /\ job[c].of = {r}
  /\ request' = [request EXCEPT ![r].status = "rejected"]
  /\ Done(c)
  /\ UNCHANGED <<platform, setting, template, queued, endorsed>>

----------------------------------------------------------------------------
\* A message of this kind is queued: the two switches, one after the other, ...

BeginQueue(c) ==
  /\ MayBegin(c)
  /\ platform
  /\ Goto(c, "wanted")
  /\ UNCHANGED <<platform, setting, template, request, queued, endorsed>>

Wanted(c) ==
  /\ job[c].at = "wanted"
  /\ setting' = Ensured
  /\ IF Ensured = "on" THEN Goto(c, "resolve") ELSE Done(c)
  /\ UNCHANGED <<platform, template, request, queued, endorsed>>

\* ... the resolver's queries, ...
Approved == {r \in Requests : request[r].status = "approved"}
MayOverride == Approved # {}

Resolve(c) ==
  /\ job[c].at = "resolve"
  /\ Goto(c, IF MayOverride THEN "override" ELSE "master")
  /\ UNCHANGED <<platform, setting, template, request, queued, endorsed>>

Carry(c, text) == job' = [job EXCEPT ![c].at = "found", ![c].text = text]

TakeOverride(c) ==
  /\ job[c].at = "override"
  /\ CASE ~template.is -> Goto(c, "master")
       [] template.is /\ ~template.active -> Done(c)
       [] template.is /\ template.active -> Carry(c, template.text)
  /\ UNCHANGED <<platform, setting, template, request, queued, endorsed>>

\* No page writes the masters: a row is there and active, or it is not.
TakeMaster(c) ==
  /\ job[c].at = "master"
  /\ \E text \in {Master, Fallback} : Carry(c, text)
  /\ UNCHANGED <<platform, setting, template, request, queued, endorsed>>

\* ... and both switches again, before the row is inserted.
LookAgain(c) ==
  /\ job[c].at = "found"
  /\ IF platform THEN Goto(c, "insert") ELSE Done(c)
  /\ UNCHANGED <<platform, setting, template, request, queued, endorsed>>

Insert(c) ==
  /\ job[c].at = "insert"
  /\ setting' = Ensured
  /\ queued' = IF Ensured = "on" THEN queued \cup {job[c].text} ELSE queued
  /\ Done(c)
  /\ UNCHANGED <<platform, template, request, endorsed>>

----------------------------------------------------------------------------
\* A process dies between two statements; each was a transaction of its own.
Die(c) ==
  /\ job[c].at \in Fatal
  /\ Done(c)
  /\ UNCHANGED <<platform, setting, template, request, queued, endorsed>>

Switching(c) ==
  \/ BeginProvision(c) \/ Provision(c)
  \/ PostSetting(c) \/ PostTemplate(c)
  \/ BeginToggle(c) \/ Toggle(c) \/ LookAtSetting(c) \/ Agree(c)
  \/ BeginSync(c) \/ CompareTemplate(c) \/ CompareSetting(c) \/ AlignTemplate(c) \/ AlignSetting(c)

Deciding(c) ==
  \E r \in Requests :
    \/ BeginApprove(c, r) \/ WriteOverride(c, r) \/ SaveApproval(c, r)
    \/ BeginReject(c, r) \/ Reject(c, r)

Queuing(c) ==
  \/ BeginQueue(c) \/ Wanted(c)
  \/ Resolve(c) \/ TakeOverride(c) \/ TakeMaster(c)
  \/ LookAgain(c) \/ Insert(c)

Next ==
  \/ SwitchPlatform
  \/ ApplyDefaults
  \/ SwitchSetting
  \/ \E r \in Requests : Submit(r)
  \/ \E c \in Clients : Switching(c) \/ Deciding(c) \/ Queuing(c) \/ Die(c)

Spec == Init /\ [][Next]_vars

----------------------------------------------------------------------------
\* Properties

\* Rows and requests have their types.
TypeOK ==
  /\ platform \in BOOLEAN
  /\ setting \in Setting
  /\ template \in Template
  /\ request \in [Requests -> Request]
  /\ job \in [Clients -> Job]
  /\ queued \subseteq AllTexts
  /\ endorsed \subseteq Texts

\* What customers are sent is the platform's wording, the program's, or one the owner
\* has posted, whatever the company asked for, whatever is decided between the look-up
\* of the text and its insertion, and also when an approval dies half way
\* (request_approve, resolve_effective_sms_template, queue_from_template).
SentAsEndorsed == queued \subseteq endorsed \cup {Master, Fallback}

\* The company's own wording in force is that of a request the owner has approved,
\* or is just approving, and not of one rejected since: the switches that are saved
\* meanwhile leave the text alone (request_approve, request_reject,
\* sms_template_toggle).
BeingApproved == {job[c].text : c \in {d \in Clients : job[d].at = "approved"}}
OverrideIsApproved ==
  MayOverride =>
    template.is /\ template.text \in {request[r].approved : r \in Approved} \cup BeingApproved

\* With nothing in flight, an event the company's setting switches on is not held
\* back by the template: "SMSTemplate.is_active and NotificationSetting.sms_enabled
\* represent the same user-facing SMS switch for the same event" (sync.py:32).
Quiet == \A c \in Clients : job[c] = Idle
OneSwitch == Quiet /\ MayOverride /\ setting = "on" => template.active

=============================================================================
