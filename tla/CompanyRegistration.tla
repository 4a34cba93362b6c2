------------------------ MODULE CompanyRegistration ------------------------
(***************************************************************************)
(* How a visitor registers a company: a form kept in the session, a code   *)
(* sent to the phone of its administrator, and, once the code has been     *)
(* entered, the rows of the company one by one.                            *)
(*                                                                         *)
(* Nothing here is one transaction.  A request reads its session when it   *)
(* begins and writes the whole of it when it responds; a browser may have  *)
(* several in flight.  The unique code of a company and the unique name of *)
(* a user are looked up with the form, and enforced when a row is written. *)
(***************************************************************************)
EXTENDS Naturals, Sequences

CONSTANTS
  Visitors,    \* requests that may be in flight
  Sessions,    \* of the browsers
  CompanyCodes,
  Names,       \* of users, unique over all companies
  Elsewhere,   \* those that offices of other companies may take
  Phones,
  Forms,       \* what may be posted
  MaxOtps,     \* bound: codes ever sent
  Overlapping  \* whether a session may have several verifications in flight

ASSUME RegistrationAssumption ==
  /\ Forms \subseteq [code : CompanyCodes, name : Names, phone : Phones]
  /\ Elsewhere \subseteq Names
  /\ MaxOtps \in Nat /\ Overlapping \in BOOLEAN

VARIABLES
  company,   \* the Company rows by code, with what was made for each
  taken,     \* names of users
  otp,       \* RegistrationOTP rows in the order of their ids
  session,   \* registration_data of each session, and whether a code was just sent
  visit,     \* each request in flight
  spent      \* history: the row whose code was entered for each company

registration == <<company, taken, otp, session, visit, spent>>

\* by: who has created the row; admin: whether its first user exists, and the phone
\* of that user; rest: its settings, page, categories and texts.
CompanyRow == [by : {"none", "visitor", "owner"}, admin : SUBSET Phones, rest : BOOLEAN]
NoCompany == [by |-> "none", admin |-> {}, rest |-> FALSE]

\* Codes are told apart by their row: two of six random digits are not taken to meet.
Otp == [phone : Phones, session : Sessions, used : BOOLEAN, expired : BOOLEAN]
Otps == 1 .. MaxOtps

Session == [data : SUBSET Forms, cooling : BOOLEAN]
Emptied == [data |-> {}, cooling |-> FALSE]

\* form: registration_data as read or posted; otp: the row of the code entered.
Steps == {"idle", "send", "respond", "check", "mark", "company", "admin", "rest", "clear"}
Visit == [at : Steps, session : SUBSET Sessions, form : SUBSET Forms, otp : SUBSET Otps]
NoVisit == [at |-> "idle", session |-> {}, form |-> {}, otp |-> {}]
Verifying == {"check", "mark", "company", "admin", "rest", "clear"}

RegistrationInit ==
  /\ company = [k \in CompanyCodes |-> NoCompany]
  /\ taken = {}
  /\ otp = <<>>
  /\ session = [s \in Sessions |-> Emptied]
  /\ visit = [v \in Visitors |-> NoVisit]
  /\ spent = [k \in CompanyCodes |-> {}]

----------------------------------------------------------------------------
Free(k) == company[k].by = "none"
Goes(v, at) == visit' = [visit EXCEPT ![v].at = at]
Ends(v) == visit' = [visit EXCEPT ![v] = NoVisit]

\* The form: a code or a name in use is an error.
BeginRegister(v, s, f) ==
  /\ visit[v] = NoVisit
  /\ Free(f.code) /\ f.name \notin taken
  /\ Len(otp) < MaxOtps
  /\ visit' = [visit EXCEPT ![v] = [NoVisit EXCEPT !.at = "send", !.session = {s}, !.form = {f}]]
  /\ UNCHANGED <<company, taken, otp, session, spent>>

\* Another code for the phone of the session, sixty seconds after the last.
BeginResendOtp(v, s) ==
  /\ visit[v] = NoVisit
  /\ session[s].data # {} /\ ~session[s].cooling
  /\ Len(otp) < MaxOtps
  /\ visit' = [visit EXCEPT ![v] = [NoVisit EXCEPT !.at = "send", !.session = {s},
                                                   !.form = session[s].data]]
  /\ UNCHANGED <<company, taken, otp, session, spent>>

SendOtp(v) ==
  /\ visit[v].at = "send"
  /\ Len(otp) < MaxOtps
  /\ \E s \in visit[v].session, f \in visit[v].form :
       otp' = Append(otp, [phone |-> f.phone, session |-> s, used |-> FALSE, expired |-> FALSE])
  /\ Goes(v, "respond")
  /\ UNCHANGED <<company, taken, session, spent>>

\* The session as this request knows it, whatever another has written meanwhile.
Respond(v) ==
  /\ visit[v].at = "respond"
  /\ \E s \in visit[v].session :
       session' = [session EXCEPT ![s] = [data |-> visit[v].form, cooling |-> TRUE]]
  /\ Ends(v)
  /\ UNCHANGED <<company, taken, otp, spent>>

----------------------------------------------------------------------------
\* Entering the code

BeginVerifyOtp(v, s, i) ==
  /\ visit[v] = NoVisit
  /\ session[s].data # {}
  /\ i \in DOMAIN otp
  /\ Overlapping \/ \A w \in Visitors : visit[w].at \in Verifying => visit[w].session # {s}
  /\ visit' = [visit EXCEPT ![v] = [at |-> "check", session |-> {s}, form |-> session[s].data,
                                    otp |-> {i}]]
  /\ UNCHANGED <<company, taken, otp, session, spent>>

\* Mutant of Matches: the phone is not looked at.
MatchesSession(i, s, f) == otp[i].session = s /\ ~otp[i].used /\ ~otp[i].expired
Matches(i, s, f) ==
  otp[i].phone = f.phone /\ otp[i].session = s /\ ~otp[i].used /\ ~otp[i].expired

CheckOtp(v) ==
  /\ visit[v].at = "check"
  /\ \E i \in visit[v].otp, s \in visit[v].session, f \in visit[v].form :
       IF Matches(i, s, f) THEN Goes(v, "mark") ELSE Ends(v)
  /\ UNCHANGED <<company, taken, otp, session, spent>>

\* Mutant of Used: the mark is not saved.
UsedUnsaved(i) == otp
Used(i) == [otp EXCEPT ![i].used = TRUE]

\* Before anything is created: the code is gone even if the rest fails.
MarkOtp(v) ==
  /\ visit[v].at = "mark"
  /\ \E i \in visit[v].otp : otp' = Used(i)
  /\ Goes(v, "company")
  /\ UNCHANGED <<company, taken, session, spent>>

----------------------------------------------------------------------------
\* The rows of the company, each with a commit of its own

\* The company is inactive until the owner has looked at it.  A code in use fails
\* the registration; the session keeps its data.
CreateCompany(v) ==
  /\ visit[v].at = "company"
  /\ \E f \in visit[v].form :
       IF Free(f.code)
       THEN /\ company' = [company EXCEPT ![f.code] = [NoCompany EXCEPT !.by = "visitor"]]
            /\ spent' = [spent EXCEPT ![f.code] = visit[v].otp]
            /\ Goes(v, "admin")
       ELSE Ends(v) /\ UNCHANGED <<company, spent>>
  /\ UNCHANGED <<taken, otp, session>>

\* So does a name in use, and leaves the company behind.
CreateAdmin(v) ==
  /\ visit[v].at = "admin"
  /\ \E f \in visit[v].form :
       IF f.name \notin taken
       THEN /\ taken' = taken \cup {f.name}
            /\ company' = [company EXCEPT ![f.code].admin = {f.phone}]
            /\ Goes(v, "rest")
       ELSE Ends(v) /\ UNCHANGED <<company, taken>>
  /\ UNCHANGED <<otp, session, spent>>

CreateRest(v) ==
  /\ visit[v].at = "rest"
  /\ \E f \in visit[v].form : company' = [company EXCEPT ![f.code].rest = TRUE]
  /\ Goes(v, "clear")
  /\ UNCHANGED <<taken, otp, session, spent>>

ClearSession(v) ==
  /\ visit[v].at = "clear"
  /\ \E s \in visit[v].session : session' = [session EXCEPT ![s] = Emptied]
  /\ Ends(v)
  /\ UNCHANGED <<company, taken, otp, spent>>

----------------------------------------------------------------------------
\* Around the visitors

\* The platform owner creates a company, without a user; the texts may fail.
OwnerCreates(k) ==
  /\ Free(k)
  /\ \E rest \in BOOLEAN :
       company' = [company EXCEPT ![k] = [NoCompany EXCEPT !.by = "owner", !.rest = rest]]
  /\ UNCHANGED <<taken, otp, session, visit, spent>>

\* An office creates a user.
TakeName ==
  /\ \E n \in Elsewhere \ taken : taken' = taken \cup {n}
  /\ UNCHANGED <<company, otp, session, visit, spent>>

CoolDown(s) ==
  /\ session[s].cooling
  /\ session' = [session EXCEPT ![s].cooling = FALSE]
  /\ UNCHANGED <<company, taken, otp, visit, spent>>

\* The older row first; of a used one nothing depends on it.
Expire(i) ==
  /\ i \in DOMAIN otp
  /\ ~otp[i].expired /\ ~otp[i].used
  /\ \A j \in 1 .. i - 1 : otp[j].expired \/ otp[j].used
  /\ otp' = [otp EXCEPT ![i].expired = TRUE]
  /\ UNCHANGED <<company, taken, session, visit, spent>>

Vanish(v) ==
  /\ visit[v] # NoVisit
  /\ Ends(v)
  /\ UNCHANGED <<company, taken, otp, session, spent>>

Visiting(v) ==
  \/ \E s \in Sessions : \/ \E f \in Forms : BeginRegister(v, s, f)
                         \/ BeginResendOtp(v, s)
                         \/ \E i \in Otps : BeginVerifyOtp(v, s, i)
  \/ SendOtp(v) \/ Respond(v) \/ CheckOtp(v) \/ MarkOtp(v)
  \/ CreateCompany(v) \/ CreateAdmin(v) \/ CreateRest(v) \/ ClearSession(v)
  \/ Vanish(v)

Around ==
  \/ TakeName
  \/ \E s \in Sessions : CoolDown(s)
  \/ \E i \in Otps : Expire(i)

RegistrationNext ==
  \/ \E v \in Visitors : Visiting(v)
  \/ Around
  \/ \E k \in CompanyCodes : OwnerCreates(k)

RegistrationSpec == RegistrationInit /\ [][RegistrationNext]_registration

----------------------------------------------------------------------------
\* Properties

\* Rows, sessions and requests have their types.
RegistrationTypeOK ==
  /\ company \in [CompanyCodes -> CompanyRow]
  /\ taken \in SUBSET Names
  /\ otp \in Seq(Otp) /\ Len(otp) <= MaxOtps
  /\ session \in [Sessions -> Session]
  /\ visit \in [Visitors -> Visit]
  /\ spent \in [CompanyCodes -> SUBSET Otps]

\* The first user of a company that registered itself has a phone to which a code
\* was sent, and from which it was entered in the same session, although another
\* page of that session may have changed the form meanwhile
\* (CompanyRegistrationService.verify_otp, register_verify).
PhoneWasProved ==
  \A k \in CompanyCodes :
    \A phone \in company[k].admin : \E i \in spent[k] : otp[i].used /\ otp[i].phone = phone

\* A code registers one company, also when the form is posted again with other
\* data before the code is entered, or the code is entered twice in a row.
OneCompanyPerOtp ==
  \A k, l \in CompanyCodes : spent[k] \cap spent[l] # {} => k = l

\* A company that registered itself has an administrator once its request is over.
RegisteredHasAdmin ==
  \A k \in CompanyCodes :
    company[k].by = "visitor" /\ company[k].admin = {} =>
      \E v \in Visitors : \E f \in visit[v].form : f.code = k /\ visit[v].at = "admin"

=============================================================================
