-------------------------- MODULE Onboarding_proofs --------------------------
(***************************************************************************)
(* Proofs about CompanyRegistration, for any number of requests, sessions, *)
(* codes, names, phones, forms and one-time codes, and about               *)
(* MerchantReview, for any number of requests, contents of a profile and   *)
(* change requests.                                                        *)
(***************************************************************************)
EXTENDS Onboarding, SequenceTheorems, TLAPS

USE RegistrationAssumption

----------------------------------------------------------------------------
\* Helpers

\* A request that has begun or ended is typed, and so is the row of a new company.
LEMMA VisitTypes ==
  /\ NoVisit \in Visit
  /\ \A v \in Visit, at \in Steps : [v EXCEPT !.at = at] \in Visit
  /\ \A at \in Steps, s \in SUBSET Sessions, f \in SUBSET Forms :
       [NoVisit EXCEPT !.at = at, !.session = s, !.form = f] \in Visit
  BY DEF NoVisit, Visit, Steps

\* Moving a request on keeps the requests typed, and so does ending it.
LEMMA GoesTyped ==
  ASSUME RegistrationTypeOK, NEW v \in Visitors, NEW at \in Steps, Goes(v, at) \/ Ends(v)
  PROVE  visit' \in [Visitors -> Visit]
<1>1. visit \in [Visitors -> Visit] BY DEF RegistrationTypeOK
<1>2. CASE Goes(v, at)
  <2>1. [visit[v] EXCEPT !.at = at] \in Visit BY <1>1, VisitTypes
  <2>2. visit' = [visit EXCEPT ![v] = [visit[v] EXCEPT !.at = at]] BY <1>2 DEF Goes
  <2>3. QED BY <1>1, <2>1, <2>2
<1>3. CASE Ends(v)
  BY <1>1, <1>3, VisitTypes DEF Ends
<1>4. QED BY <1>2, <1>3

\* Neither takes up another code.
LEMMA GoesHolds ==
  ASSUME RegistrationTypeOK, NEW v \in Visitors, NEW at, Goes(v, at) \/ Ends(v)
  PROVE  \A w \in Visitors : visit'[w].otp \subseteq visit[w].otp
<1>1. visit \in [Visitors -> Visit] BY DEF RegistrationTypeOK
<1>2. CASE Goes(v, at)
  <2>1. visit' = [visit EXCEPT ![v] = [visit[v] EXCEPT !.at = at]] BY <1>2 DEF Goes
  <2>2. visit[v] \in Visit BY <1>1
  <2>3. [visit[v] EXCEPT !.at = at].otp = visit[v].otp BY <2>2 DEF Visit
  <2>4. QED BY <1>1, <2>1, <2>3
<1>3. CASE Ends(v)
  BY <1>1, <1>3 DEF Ends, NoVisit
<1>4. QED BY <1>2, <1>3

\* What no request changes of the rows of one-time codes.
OtpsKept ==
  /\ Len(otp) <= Len(otp')
  /\ \A i \in 1 .. Len(otp) : /\ otp'[i].phone = otp[i].phone
                              /\ otp'[i].session = otp[i].session
                              /\ otp[i].used => otp'[i].used

\* A new row, typed, after the others.
LEMMA OtpAppended ==
  ASSUME RegistrationTypeOK, NEW row \in Otp, otp' = Append(otp, row), Len(otp) < MaxOtps
  PROVE  otp' \in Seq(Otp) /\ Len(otp') <= MaxOtps /\ OtpsKept
<1>1. otp \in Seq(Otp) /\ Len(otp) \in Nat BY DEF RegistrationTypeOK
<1>2. /\ otp' \in Seq(Otp) /\ Len(otp') = Len(otp) + 1
      /\ \A i \in 1 .. Len(otp) : otp'[i] = otp[i]
  BY <1>1, AppendProperties
<1>3. QED BY <1>1, <1>2 DEF OtpsKept

\* A row that is marked used or expired.
LEMMA OtpChanged ==
  ASSUME RegistrationTypeOK, NEW i \in 1 .. Len(otp), NEW row \in Otp,
         otp' = [otp EXCEPT ![i] = row],
         row.phone = otp[i].phone, row.session = otp[i].session, otp[i].used => row.used
  PROVE  otp' \in Seq(Otp) /\ Len(otp') <= MaxOtps /\ OtpsKept
<1>1. otp \in Seq(Otp) /\ Len(otp) \in Nat BY DEF RegistrationTypeOK
<1>2. /\ otp' \in Seq(Otp) /\ Len(otp') = Len(otp)
      /\ \A j \in 1 .. Len(otp) : otp'[j] = IF j = i THEN row ELSE otp[j]
  BY <1>1, ExceptSeq
<1>3. QED BY <1>1, <1>2 DEF OtpsKept, RegistrationTypeOK

----------------------------------------------------------------------------
\* Types

LEMMA RegistrationTypeInit == RegistrationInit => RegistrationTypeOK
<1> SUFFICES ASSUME RegistrationInit PROVE RegistrationTypeOK OBVIOUS
<1>1. company \in [CompanyCodes -> CompanyRow] BY DEF RegistrationInit, NoCompany, CompanyRow
<1>2. session \in [Sessions -> Session] BY DEF RegistrationInit, Emptied, Session
<1>3. visit \in [Visitors -> Visit] BY VisitTypes DEF RegistrationInit
<1>4. otp \in Seq(Otp) /\ Len(otp) <= MaxOtps BY EmptySeq DEF RegistrationInit
<1>5. spent \in [CompanyCodes -> SUBSET Otps] BY DEF RegistrationInit
<1>6. QED BY <1>1, <1>2, <1>3, <1>4, <1>5 DEF RegistrationInit, RegistrationTypeOK

\* The forms and codes a request holds.
LEMMA HeldTyped ==
  ASSUME RegistrationTypeOK, NEW v \in Visitors
  PROVE  /\ visit[v].session \subseteq Sessions
         /\ visit[v].form \subseteq Forms
         /\ visit[v].otp \subseteq Otps
         /\ \A f \in visit[v].form : f.code \in CompanyCodes /\ f.name \in Names /\ f.phone \in Phones
         /\ \A s \in Sessions : session[s].data \subseteq Forms
  BY DEF RegistrationTypeOK, Visit, Session

\* A code that is entered exists.
CodeExists == \A v \in Visitors : visit[v].otp \subseteq 1 .. Len(otp)

\* Every step keeps types and rows.
LEMMA RegistrationTypeStep ==
  RegistrationTypeOK /\ CodeExists /\ [RegistrationNext]_registration =>
    RegistrationTypeOK' /\ CodeExists' /\ OtpsKept
<1> SUFFICES ASSUME RegistrationTypeOK, CodeExists, [RegistrationNext]_registration
             PROVE  RegistrationTypeOK' /\ CodeExists' /\ OtpsKept
  OBVIOUS
<1> DEFINE Rows == otp' \in Seq(Otp) /\ Len(otp') <= MaxOtps /\ OtpsKept
<1>0. /\ company \in [CompanyCodes -> CompanyRow] /\ taken \in SUBSET Names
      /\ otp \in Seq(Otp) /\ Len(otp) \in Nat /\ Len(otp) <= MaxOtps
      /\ session \in [Sessions -> Session] /\ visit \in [Visitors -> Visit]
      /\ spent \in [CompanyCodes -> SUBSET Otps]
  BY DEF RegistrationTypeOK
<1>a. UNCHANGED otp => Rows BY <1>0 DEF OtpsKept
<1>b. ASSUME Rows, NEW v \in Visitors, NEW at \in Steps, Goes(v, at) \/ Ends(v) PROVE CodeExists'
  BY <1>0, <1>b, GoesHolds DEF CodeExists, OtpsKept
<1>c. Rows /\ UNCHANGED visit => CodeExists' BY <1>0 DEF CodeExists, OtpsKept
<1>1. ASSUME NEW v \in Visitors, NEW s \in Sessions, NEW f \in Forms, BeginRegister(v, s, f)
      PROVE  RegistrationTypeOK' /\ CodeExists' /\ OtpsKept
  <2>1. visit' \in [Visitors -> Visit]
    <3>1. [NoVisit EXCEPT !.at = "send", !.session = {s}, !.form = {f}] \in Visit
      BY DEF NoVisit, Visit, Steps
    <3>2. QED BY <1>0, <1>1, <3>1 DEF BeginRegister
  <2>2. CodeExists' BY <1>0, <1>1 DEF BeginRegister, CodeExists, NoVisit
  <2>3. QED BY <1>0, <1>1, <1>a, <2>1, <2>2 DEF BeginRegister, RegistrationTypeOK
<1>2. ASSUME NEW v \in Visitors, NEW s \in Sessions, BeginResendOtp(v, s)
      PROVE  RegistrationTypeOK' /\ CodeExists' /\ OtpsKept
  <2>1. visit' \in [Visitors -> Visit]
    <3>1. session[s].data \subseteq Forms BY <1>0 DEF Session
    <3>2. [NoVisit EXCEPT !.at = "send", !.session = {s}, !.form = session[s].data] \in Visit
      BY <3>1 DEF NoVisit, Visit, Steps
    <3>3. QED BY <1>0, <1>2, <3>2 DEF BeginResendOtp
  <2>2. CodeExists' BY <1>0, <1>2 DEF BeginResendOtp, CodeExists, NoVisit
  <2>3. QED BY <1>0, <1>2, <1>a, <2>1, <2>2 DEF BeginResendOtp, RegistrationTypeOK
<1>3. ASSUME NEW v \in Visitors, NEW s \in Sessions, NEW i \in Otps, BeginVerifyOtp(v, s, i)
      PROVE  RegistrationTypeOK' /\ CodeExists' /\ OtpsKept
  <2>1. i \in 1 .. Len(otp) BY <1>0, <1>3 DEF BeginVerifyOtp
  <2>2. [at |-> "check", session |-> {s}, form |-> session[s].data, otp |-> {i}] \in Visit
    BY HeldTyped DEF Visit, Steps
  <2>3. visit' \in [Visitors -> Visit] BY <1>0, <1>3, <2>2 DEF BeginVerifyOtp
  <2>4. CodeExists' BY <1>0, <1>3, <2>1 DEF BeginVerifyOtp, CodeExists
  <2>5. QED BY <1>0, <1>3, <1>a, <2>3, <2>4 DEF BeginVerifyOtp, RegistrationTypeOK
<1>4. ASSUME NEW v \in Visitors, SendOtp(v) PROVE RegistrationTypeOK' /\ CodeExists' /\ OtpsKept
  <2>1. PICK s \in visit[v].session, f \in visit[v].form :
          otp' = Append(otp, [phone |-> f.phone, session |-> s, used |-> FALSE, expired |-> FALSE])
    BY <1>4 DEF SendOtp
  <2>2. [phone |-> f.phone, session |-> s, used |-> FALSE, expired |-> FALSE] \in Otp
    BY <2>1, HeldTyped DEF Otp
  <2>3. Rows BY <1>4, <2>1, <2>2, OtpAppended DEF SendOtp
  <2>4. visit' \in [Visitors -> Visit] /\ CodeExists'
    BY <1>4, <1>b, <2>3, GoesTyped DEF SendOtp, Steps
  <2>5. QED BY <1>0, <1>4, <2>3, <2>4 DEF SendOtp, RegistrationTypeOK
<1>5. ASSUME NEW v \in Visitors, Respond(v) PROVE RegistrationTypeOK' /\ CodeExists' /\ OtpsKept
  <2>1. session' \in [Sessions -> Session]
    BY <1>0, <1>5, HeldTyped DEF Respond, Session
  <2>2. visit' \in [Visitors -> Visit] /\ CodeExists'
    BY <1>5, <1>a, <1>b, GoesTyped DEF Respond, Steps
  <2>3. QED BY <1>0, <1>5, <1>a, <2>1, <2>2 DEF Respond, RegistrationTypeOK
<1>6. ASSUME NEW v \in Visitors, CheckOtp(v) PROVE RegistrationTypeOK' /\ CodeExists' /\ OtpsKept
  <2>1. Goes(v, "mark") \/ Ends(v) BY <1>6 DEF CheckOtp
  <2>2. visit' \in [Visitors -> Visit] /\ CodeExists'
    BY <1>6, <1>a, <1>b, <2>1, GoesTyped DEF CheckOtp, Steps
  <2>3. QED BY <1>0, <1>6, <1>a, <2>2 DEF CheckOtp, RegistrationTypeOK
<1>7. ASSUME NEW v \in Visitors, MarkOtp(v) PROVE RegistrationTypeOK' /\ CodeExists' /\ OtpsKept
  <2>1. PICK i \in visit[v].otp : otp' = [otp EXCEPT ![i].used = TRUE]
    BY <1>7 DEF MarkOtp, Used
  <2>2. i \in 1 .. Len(otp) BY <2>1 DEF CodeExists
  <2>3. otp[i] \in Otp BY <1>0, <2>2
  <2>4. [otp[i] EXCEPT !.used = TRUE] \in Otp BY <2>3 DEF Otp
  <2>5. otp' = [otp EXCEPT ![i] = [otp[i] EXCEPT !.used = TRUE]] BY <2>1
  <2>6. Rows BY <2>2, <2>3, <2>4, <2>5, OtpChanged DEF Otp
  <2>7. visit' \in [Visitors -> Visit] /\ CodeExists'
    BY <1>7, <1>b, <2>6, GoesTyped DEF MarkOtp, Steps
  <2>8. QED BY <1>0, <1>7, <2>6, <2>7 DEF MarkOtp, RegistrationTypeOK
<1>8. ASSUME NEW v \in Visitors, CreateCompany(v)
      PROVE  RegistrationTypeOK' /\ CodeExists' /\ OtpsKept
  <2>1. PICK f \in visit[v].form :
          IF Free(f.code)
          THEN /\ company' = [company EXCEPT ![f.code] = [NoCompany EXCEPT !.by = "visitor"]]
               /\ spent' = [spent EXCEPT ![f.code] = visit[v].otp]
               /\ Goes(v, "admin")
          ELSE Ends(v) /\ UNCHANGED <<company, spent>>
    BY <1>8 DEF CreateCompany
  <2>2. [NoCompany EXCEPT !.by = "visitor"] \in CompanyRow BY DEF NoCompany, CompanyRow
  <2>3. company' \in [CompanyCodes -> CompanyRow] /\ spent' \in [CompanyCodes -> SUBSET Otps]
    BY <1>0, <2>1, <2>2, HeldTyped
  <2>4. visit' \in [Visitors -> Visit] /\ CodeExists'
    BY <1>8, <1>a, <1>b, <2>1, GoesTyped DEF CreateCompany, Steps
  <2>5. QED BY <1>0, <1>8, <1>a, <2>3, <2>4 DEF CreateCompany, RegistrationTypeOK
<1>9. ASSUME NEW v \in Visitors, CreateAdmin(v)
      PROVE  RegistrationTypeOK' /\ CodeExists' /\ OtpsKept
  <2>1. PICK f \in visit[v].form :
          IF f.name \notin taken
          THEN /\ taken' = taken \cup {f.name}
               /\ company' = [company EXCEPT ![f.code].admin = {f.phone}]
               /\ Goes(v, "rest")
          ELSE Ends(v) /\ UNCHANGED <<company, taken>>
    BY <1>9 DEF CreateAdmin
  <2>a. company[f.code] \in CompanyRow /\ f.phone \in Phones /\ f.name \in Names
    BY <1>0, <2>1, HeldTyped
  <2>b. [company[f.code] EXCEPT !.admin = {f.phone}] \in CompanyRow BY <2>a DEF CompanyRow
  <2>2. company' \in [CompanyCodes -> CompanyRow] /\ taken' \in SUBSET Names
    BY <1>0, <2>1, <2>a, <2>b
  <2>3. visit' \in [Visitors -> Visit] /\ CodeExists'
    BY <1>9, <1>a, <1>b, <2>1, GoesTyped DEF CreateAdmin, Steps
  <2>4. QED BY <1>0, <1>9, <1>a, <2>2, <2>3 DEF CreateAdmin, RegistrationTypeOK
<1>10. ASSUME NEW v \in Visitors, CreateRest(v)
       PROVE  RegistrationTypeOK' /\ CodeExists' /\ OtpsKept
  <2>1. PICK f \in visit[v].form : company' = [company EXCEPT ![f.code].rest = TRUE]
    BY <1>10 DEF CreateRest
  <2>2. company[f.code] \in CompanyRow BY <1>0, <2>1, HeldTyped
  <2>3. [company[f.code] EXCEPT !.rest = TRUE] \in CompanyRow BY <2>2 DEF CompanyRow
  <2>4. company' \in [CompanyCodes -> CompanyRow] BY <1>0, <2>1, <2>3
  <2>5. visit' \in [Visitors -> Visit] /\ CodeExists'
    BY <1>10, <1>a, <1>b, GoesTyped DEF CreateRest, Steps
  <2>6. QED BY <1>0, <1>10, <1>a, <2>4, <2>5 DEF CreateRest, RegistrationTypeOK
<1>11. ASSUME NEW v \in Visitors, ClearSession(v)
       PROVE  RegistrationTypeOK' /\ CodeExists' /\ OtpsKept
  <2>1. Emptied \in Session BY DEF Emptied, Session
  <2>2. session' \in [Sessions -> Session]
    BY <1>0, <1>11, <2>1, HeldTyped DEF ClearSession
  <2>3. visit' \in [Visitors -> Visit] /\ CodeExists'
    BY <1>11, <1>a, <1>b, GoesTyped DEF ClearSession, Steps
  <2>4. QED BY <1>0, <1>11, <1>a, <2>2, <2>3 DEF ClearSession, RegistrationTypeOK
<1>12. ASSUME NEW v \in Visitors, Vanish(v) PROVE RegistrationTypeOK' /\ CodeExists' /\ OtpsKept
  <2>1. visit' \in [Visitors -> Visit] /\ CodeExists'
    BY <1>12, <1>a, <1>b, GoesTyped DEF Vanish, Steps
  <2>2. QED BY <1>0, <1>12, <1>a, <2>1 DEF Vanish, RegistrationTypeOK
<1>13. CASE TakeName
  BY <1>0, <1>13, <1>a, <1>c DEF TakeName, RegistrationTypeOK
<1>14. ASSUME NEW s \in Sessions, CoolDown(s) PROVE RegistrationTypeOK' /\ CodeExists' /\ OtpsKept
  <2>1. session' \in [Sessions -> Session] BY <1>0, <1>14 DEF CoolDown, Session
  <2>2. QED BY <1>0, <1>14, <1>a, <1>c, <2>1 DEF CoolDown, RegistrationTypeOK
<1>15. ASSUME NEW i \in Otps, Expire(i) PROVE RegistrationTypeOK' /\ CodeExists' /\ OtpsKept
  <2>1. i \in 1 .. Len(otp) BY <1>0, <1>15 DEF Expire
  <2>2. otp[i] \in Otp BY <1>0, <2>1
  <2>3. [otp[i] EXCEPT !.expired = TRUE] \in Otp BY <2>2 DEF Otp
  <2>4. otp' = [otp EXCEPT ![i] = [otp[i] EXCEPT !.expired = TRUE]] BY <1>15 DEF Expire
  <2>5. Rows BY <2>1, <2>2, <2>3, <2>4, OtpChanged DEF Otp
  <2>6. QED BY <1>0, <1>15, <1>c, <2>5 DEF Expire, RegistrationTypeOK
<1>16. ASSUME NEW k \in CompanyCodes, OwnerCreates(k)
       PROVE  RegistrationTypeOK' /\ CodeExists' /\ OtpsKept
  <2>1. company' \in [CompanyCodes -> CompanyRow]
    <3>1. PICK rest \in BOOLEAN :
            company' = [company EXCEPT ![k] = [NoCompany EXCEPT !.by = "owner", !.rest = rest]]
      BY <1>16 DEF OwnerCreates
    <3>2. [NoCompany EXCEPT !.by = "owner", !.rest = rest] \in CompanyRow
      BY DEF CompanyRow, NoCompany
    <3>3. QED BY <1>0, <3>1, <3>2
  <2>2. QED BY <1>0, <1>16, <1>a, <1>c, <2>1 DEF OwnerCreates, RegistrationTypeOK
<1>17. CASE UNCHANGED registration
  BY <1>0, <1>17, <1>a, <1>c DEF registration, RegistrationTypeOK
<1>18. QED
  BY <1>1, <1>2, <1>3, <1>4, <1>5, <1>6, <1>7, <1>8, <1>9, <1>10, <1>11, <1>12, <1>13, <1>14,
     <1>15, <1>16, <1>17 DEF RegistrationNext, Visiting, Around

\* Rows, sessions and requests keep their types, and a code that is entered exists.
THEOREM RegistrationTyped == RegistrationSpec => [](RegistrationTypeOK /\ CodeExists)
<1>1. RegistrationInit => CodeExists
  <2>1. NoVisit.otp = {} BY DEF NoVisit
  <2>2. QED BY <2>1 DEF RegistrationInit, CodeExists
<1>2. QED BY <1>1, RegistrationTypeInit, RegistrationTypeStep, PTL DEF RegistrationSpec

----------------------------------------------------------------------------
\* The phone of the administrator

Single(S) == \A x, y \in S : x = y

\* A session has one form at most, and a request one form, one session and one code.
OneEach ==
  /\ \A s \in Sessions : Single(session[s].data)
  /\ \A v \in Visitors : Single(visit[v].form) /\ Single(visit[v].session) /\ Single(visit[v].otp)

\* Past the comparison the code is one that was sent to the phone of the form, in the
\* session; it is used before the company is made, and recorded for it.
Entered(v) ==
  /\ visit[v].at \in Verifying => visit[v].otp # {}
  /\ visit[v].at \in {"mark", "company", "admin"} =>
       \A i \in visit[v].otp :
         /\ \A f \in visit[v].form : otp[i].phone = f.phone
         /\ \A s \in visit[v].session : otp[i].session = s
  /\ visit[v].at \in {"company", "admin"} => \A i \in visit[v].otp : otp[i].used
  /\ visit[v].at = "admin" =>
       \A f \in visit[v].form : ~Free(f.code) /\ spent[f.code] = visit[v].otp

SpentUsed == \A k \in CompanyCodes : \A i \in spent[k] : i \in 1 .. Len(otp) /\ otp[i].used

Proved == OneEach /\ (\A v \in Visitors : Entered(v)) /\ SpentUsed /\ PhoneWasProved

\* A company that exists goes on existing with the code it was made for.
CompaniesKept ==
  \A k \in CompanyCodes : ~Free(k) => company'[k].by # "none" /\ spent'[k] = spent[k]

\* A request that moves on holds what it held.
LEMMA GoesFields ==
  ASSUME RegistrationTypeOK, NEW v \in Visitors, NEW at, Goes(v, at)
  PROVE  /\ visit'[v].at = at /\ visit'[v].form = visit[v].form
         /\ visit'[v].session = visit[v].session /\ visit'[v].otp = visit[v].otp
         /\ \A w \in Visitors \ {v} : visit'[w] = visit[w]
<1>1. visit \in [Visitors -> Visit] /\ visit[v] \in Visit BY DEF RegistrationTypeOK
<1>2. visit' = [visit EXCEPT ![v] = [visit[v] EXCEPT !.at = at]] BY DEF Goes
<1>3. QED BY <1>1, <1>2 DEF Visit

\* One that has ended holds nothing.
LEMMA EndsFields ==
  ASSUME RegistrationTypeOK, NEW v \in Visitors, Ends(v)
  PROVE  /\ visit'[v].at = "idle" /\ visit'[v].form = {}
         /\ visit'[v].session = {} /\ visit'[v].otp = {}
         /\ \A w \in Visitors \ {v} : visit'[w] = visit[w]
  BY DEF RegistrationTypeOK, Ends, NoVisit

\* What other requests have established stands.
LEMMA EnteredKept ==
  ASSUME RegistrationTypeOK, CodeExists, OtpsKept, CompaniesKept,
         NEW w \in Visitors, Entered(w), visit'[w] = visit[w]
  PROVE  Entered(w)'
<1>1. /\ visit[w].otp \subseteq 1 .. Len(otp)
      /\ \A i \in visit[w].otp : /\ otp'[i].phone = otp[i].phone
                                 /\ otp'[i].session = otp[i].session
                                 /\ otp[i].used => otp'[i].used
  BY DEF CodeExists, OtpsKept
<1>2. \A f \in visit[w].form :
        ~Free(f.code) => company'[f.code].by # "none" /\ spent'[f.code] = spent[f.code]
  BY HeldTyped DEF CompaniesKept
<1>3. QED BY <1>1, <1>2 DEF Entered, Free

\* One that has ended has nothing to establish.
LEMMA EnteredIdle ==
  ASSUME NEW v \in Visitors, visit'[v].at \in {"idle", "send", "respond"} PROVE Entered(v)'
  BY DEF Entered, Verifying

\* Used codes stay used.
LEMMA SpentKept ==
  ASSUME RegistrationTypeOK, OtpsKept, SpentUsed,
         \A k \in CompanyCodes : spent'[k] = spent[k]
  PROVE  SpentUsed'
  BY DEF RegistrationTypeOK, OtpsKept, SpentUsed

\* A phone that was proved stays proved.
LEMMA PhonesKept ==
  ASSUME RegistrationTypeOK, OtpsKept, SpentUsed, PhoneWasProved,
         \A k \in CompanyCodes :
           \/ company'[k].admin = {}
           \/ company'[k].admin = company[k].admin /\ spent'[k] = spent[k]
  PROVE  PhoneWasProved'
<1> SUFFICES ASSUME NEW k \in CompanyCodes, NEW phone \in company'[k].admin
             PROVE  \E i \in spent'[k] : otp'[i].used /\ otp'[i].phone = phone
  BY DEF PhoneWasProved
<1>1. company'[k].admin = company[k].admin /\ spent'[k] = spent[k] OBVIOUS
<1>2. PICK i \in spent[k] : otp[i].used /\ otp[i].phone = phone BY <1>1 DEF PhoneWasProved
<1>3. i \in 1 .. Len(otp) BY DEF SpentUsed
<1>4. QED BY <1>1, <1>2, <1>3 DEF OtpsKept

\* Requests that neither make a company nor name its administrator keep what is proved.
LEMMA ProvedKept ==
  ASSUME RegistrationTypeOK, CodeExists, Proved, OtpsKept, OneEach',
         \A k \in CompanyCodes : /\ company'[k].by = company[k].by
                                 /\ company'[k].admin = company[k].admin
                                 /\ spent'[k] = spent[k],
         \A v \in Visitors : Entered(v)' \/ visit'[v] = visit[v]
  PROVE  Proved'
<1>1. CompaniesKept BY DEF CompaniesKept, Free
<1>2. \A v \in Visitors : Entered(v)' BY <1>1, EnteredKept DEF Proved
<1>3. SpentUsed' BY SpentKept DEF Proved
<1>4. PhoneWasProved' BY PhonesKept DEF Proved
<1>5. QED BY <1>2, <1>3, <1>4 DEF Proved

\* Each step keeps what is proved.
LEMMA ProvedStep ==
  RegistrationTypeOK /\ CodeExists /\ OtpsKept /\ Proved /\ [RegistrationNext]_registration => Proved'
<1> SUFFICES ASSUME RegistrationTypeOK, CodeExists, OtpsKept, Proved,
                    [RegistrationNext]_registration
             PROVE  Proved'
  OBVIOUS
<1>0. /\ company \in [CompanyCodes -> CompanyRow] /\ session \in [Sessions -> Session]
      /\ visit \in [Visitors -> Visit] /\ spent \in [CompanyCodes -> SUBSET Otps]
  BY DEF RegistrationTypeOK
<1>e. OneEach BY DEF Proved
<1>a. ASSUME NEW v \in Visitors, NEW at, Goes(v, at) \/ Ends(v), UNCHANGED session PROVE OneEach'
  BY <1>a, <1>e, GoesFields, EndsFields DEF OneEach, Single
<1>1. ASSUME NEW v \in Visitors, NEW s \in Sessions, NEW f \in Forms, BeginRegister(v, s, f)
      PROVE  Proved'
  <2>1. visit' = [visit EXCEPT ![v] = [NoVisit EXCEPT !.at = "send", !.session = {s}, !.form = {f}]]
    BY <1>1 DEF BeginRegister
  <2>2. OneEach' BY <1>0, <1>1, <1>e, <2>1 DEF BeginRegister, OneEach, Single, NoVisit
  <2>3. \A w \in Visitors : Entered(w)' \/ visit'[w] = visit[w]
    BY <1>0, <2>1, EnteredIdle DEF NoVisit
  <2>4. QED BY <1>1, <2>2, <2>3, ProvedKept DEF BeginRegister
<1>2. ASSUME NEW v \in Visitors, NEW s \in Sessions, BeginResendOtp(v, s) PROVE Proved'
  <2>1. visit' = [visit EXCEPT ![v] = [NoVisit EXCEPT !.at = "send", !.session = {s},
                                                      !.form = session[s].data]]
    BY <1>2 DEF BeginResendOtp
  <2>2. OneEach' BY <1>0, <1>2, <1>e, <2>1 DEF BeginResendOtp, OneEach, Single, NoVisit
  <2>3. \A w \in Visitors : Entered(w)' \/ visit'[w] = visit[w]
    BY <1>0, <2>1, EnteredIdle DEF NoVisit
  <2>4. QED BY <1>2, <2>2, <2>3, ProvedKept DEF BeginResendOtp
<1>3. ASSUME NEW v \in Visitors, NEW s \in Sessions, NEW i \in Otps, BeginVerifyOtp(v, s, i)
      PROVE  Proved'
  <2>1. visit' = [visit EXCEPT ![v] = [at |-> "check", session |-> {s}, form |-> session[s].data,
                                       otp |-> {i}]]
    BY <1>3 DEF BeginVerifyOtp
  <2>2. OneEach' BY <1>0, <1>3, <1>e, <2>1 DEF BeginVerifyOtp, OneEach, Single
  <2>3. visit'[v].at = "check" /\ visit'[v].otp # {} BY <1>0, <2>1
  <2>4. Entered(v)' BY <2>3 DEF Entered, Verifying
  <2>5. \A w \in Visitors : Entered(w)' \/ visit'[w] = visit[w] BY <1>0, <2>1, <2>4
  <2>6. QED BY <1>3, <2>2, <2>5, ProvedKept DEF BeginVerifyOtp
<1>4. ASSUME NEW v \in Visitors, SendOtp(v) PROVE Proved'
  <2>1. OneEach' BY <1>4, <1>a DEF SendOtp
  <2>2. \A w \in Visitors : Entered(w)' \/ visit'[w] = visit[w]
    BY <1>4, GoesFields, EnteredIdle DEF SendOtp
  <2>3. QED BY <1>4, <2>1, <2>2, ProvedKept DEF SendOtp
<1>5. ASSUME NEW v \in Visitors, Respond(v) PROVE Proved'
  <2>1. PICK s \in visit[v].session :
          session' = [session EXCEPT ![s] = [data |-> visit[v].form, cooling |-> TRUE]]
    BY <1>5 DEF Respond
  <2>2. \A t \in Sessions : session'[t].data \in {session[t].data, visit[v].form}
    BY <1>0, <2>1, HeldTyped
  <2>3. OneEach' BY <1>5, <1>e, <2>2, EndsFields DEF Respond, OneEach, Single
  <2>4. \A w \in Visitors : Entered(w)' \/ visit'[w] = visit[w]
    BY <1>5, EndsFields, EnteredIdle DEF Respond
  <2>5. QED BY <1>5, <2>3, <2>4, ProvedKept DEF Respond
<1>6. ASSUME NEW v \in Visitors, CheckOtp(v) PROVE Proved'
  <2>1. PICK i \in visit[v].otp, s \in visit[v].session, f \in visit[v].form :
          IF Matches(i, s, f) THEN Goes(v, "mark") ELSE Ends(v)
    BY <1>6 DEF CheckOtp
  <2>2. OneEach' BY <1>6, <1>a, <2>1 DEF CheckOtp
  <2>3. visit[v].otp = {i} /\ visit[v].session = {s} /\ visit[v].form = {f}
    BY <1>e, <2>1 DEF OneEach, Single
  <2>4. ASSUME Goes(v, "mark"), Matches(i, s, f) PROVE Entered(v)'
    BY <1>6, <2>3, <2>4, GoesFields DEF Entered, Matches, CheckOtp
  <2>5. \A w \in Visitors : Entered(w)' \/ visit'[w] = visit[w]
    BY <2>1, <2>4, GoesFields, EndsFields, EnteredIdle
  <2>6. QED BY <1>6, <2>2, <2>5, ProvedKept DEF CheckOtp
<1>7. ASSUME NEW v \in Visitors, MarkOtp(v) PROVE Proved'
  <2>1. PICK i \in visit[v].otp : otp' = [otp EXCEPT ![i].used = TRUE] BY <1>7 DEF MarkOtp, Used
  <2>2. visit[v].otp = {i} BY <1>e, <2>1 DEF OneEach, Single
  <2>3. i \in 1 .. Len(otp) BY <2>1 DEF CodeExists
  <2>4. otp[i] \in Otp BY <2>3 DEF RegistrationTypeOK
  <2>5. otp'[i].used /\ otp'[i].phone = otp[i].phone /\ otp'[i].session = otp[i].session
    BY <2>1, <2>3, <2>4 DEF OtpsKept, Otp, RegistrationTypeOK
  <2>6. Goes(v, "company") /\ visit[v].at = "mark" /\ Entered(v)
    BY <1>7 DEF MarkOtp, Proved
  <2>7. Entered(v)' BY <2>2, <2>5, <2>6, GoesFields DEF Entered
  <2>8. OneEach' BY <1>7, <1>a, <2>6 DEF MarkOtp
  <2>9. \A w \in Visitors : Entered(w)' \/ visit'[w] = visit[w] BY <2>6, <2>7, GoesFields
  <2>10. QED BY <1>7, <2>8, <2>9, ProvedKept DEF MarkOtp
<1>8. ASSUME NEW v \in Visitors, CreateCompany(v) PROVE Proved'
  <2>1. PICK f \in visit[v].form :
          IF Free(f.code)
          THEN /\ company' = [company EXCEPT ![f.code] = [NoCompany EXCEPT !.by = "visitor"]]
               /\ spent' = [spent EXCEPT ![f.code] = visit[v].otp]
               /\ Goes(v, "admin")
          ELSE Ends(v) /\ UNCHANGED <<company, spent>>
    BY <1>8 DEF CreateCompany
  <2>2. OneEach' BY <1>8, <1>a, <2>1 DEF CreateCompany
  <2>3. CASE ~Free(f.code)
    <3>1. \A w \in Visitors : Entered(w)' \/ visit'[w] = visit[w]
      BY <2>1, <2>3, EndsFields, EnteredIdle
    <3>2. QED BY <2>1, <2>2, <2>3, <3>1, ProvedKept
  <2>4. CASE Free(f.code)
    <3>1. f.code \in CompanyCodes BY <2>1, HeldTyped
    <3>2. visit[v].form = {f} BY <1>e, <2>1 DEF OneEach, Single
    <3>3. company'[f.code].by = "visitor" /\ company'[f.code].admin = {}
      BY <1>0, <2>1, <2>4, <3>1 DEF NoCompany
    <3>4. spent'[f.code] = visit[v].otp BY <1>0, <2>1, <2>4, <3>1
    <3>5. \A k \in CompanyCodes \ {f.code} : company'[k] = company[k] /\ spent'[k] = spent[k]
      BY <1>0, <2>1, <2>4
    <3>6. UNCHANGED otp /\ visit[v].at = "company" /\ Goes(v, "admin") /\ Entered(v)
      BY <1>8, <2>1, <2>4 DEF CreateCompany, Proved
    <3>7. CompaniesKept BY <2>4, <3>5 DEF CompaniesKept, Free
    <3>8. Entered(v)'
      BY <3>2, <3>3, <3>4, <3>6, GoesFields DEF Entered, Free, Verifying
    <3>9. \A w \in Visitors : Entered(w)'
      BY <3>6, <3>7, <3>8, EnteredKept, GoesFields DEF Proved
    <3>10. SpentUsed'
      BY <3>4, <3>5, <3>6 DEF Proved, SpentUsed, Entered, CodeExists
    <3>11. PhoneWasProved' BY <3>3, <3>5, PhonesKept DEF Proved
    <3>12. QED BY <2>2, <3>9, <3>10, <3>11 DEF Proved
  <2>5. QED BY <2>3, <2>4
<1>9. ASSUME NEW v \in Visitors, CreateAdmin(v) PROVE Proved'
  <2>1. PICK f \in visit[v].form :
          IF f.name \notin taken
          THEN /\ taken' = taken \cup {f.name}
               /\ company' = [company EXCEPT ![f.code].admin = {f.phone}]
               /\ Goes(v, "rest")
          ELSE Ends(v) /\ UNCHANGED <<company, taken>>
    BY <1>9 DEF CreateAdmin
  <2>2. OneEach' BY <1>9, <1>a, <2>1 DEF CreateAdmin
  <2>3. CASE f.name \in taken
    <3>1. \A w \in Visitors : Entered(w)' \/ visit'[w] = visit[w]
      BY <2>1, <2>3, EndsFields, EnteredIdle
    <3>2. QED BY <1>9, <2>1, <2>2, <2>3, <3>1, ProvedKept DEF CreateAdmin
  <2>4. CASE f.name \notin taken
    <3>1. f.code \in CompanyCodes BY <2>1, HeldTyped
    <3>2. company[f.code] \in CompanyRow BY <1>0, <3>1
    <3>3. company' = [company EXCEPT ![f.code] = [company[f.code] EXCEPT !.admin = {f.phone}]]
      BY <2>1, <2>4
    <3>4. company'[f.code].by = company[f.code].by /\ company'[f.code].admin = {f.phone}
      BY <1>0, <3>1, <3>2, <3>3 DEF CompanyRow
    <3>5. \A k \in CompanyCodes \ {f.code} : company'[k] = company[k] BY <1>0, <3>3
    <3>6. UNCHANGED <<otp, spent>> /\ visit[v].at = "admin" /\ Goes(v, "rest") /\ Entered(v)
      BY <1>9, <2>1, <2>4 DEF CreateAdmin, Proved
    <3>7. CompaniesKept BY <3>4, <3>5, <3>6 DEF CompaniesKept, Free
    <3>8. Entered(v)' BY <3>6, GoesFields DEF Entered, Verifying
    <3>9. \A w \in Visitors : Entered(w)'
      BY <3>6, <3>7, <3>8, EnteredKept, GoesFields DEF Proved
    <3>10. SpentUsed' BY <3>6, SpentKept DEF Proved
    <3>11. PhoneWasProved'
      <4>1. PICK i \in visit[v].otp : TRUE BY <3>6 DEF Entered, Verifying
      <4>2. i \in spent[f.code] /\ otp[i].used /\ otp[i].phone = f.phone
        BY <2>1, <3>6, <4>1 DEF Entered
      <4>3. QED BY <3>4, <3>5, <3>6, <4>2 DEF Proved, PhoneWasProved
    <3>12. QED BY <2>2, <3>9, <3>10, <3>11 DEF Proved
  <2>5. QED BY <2>3, <2>4
<1>10. ASSUME NEW v \in Visitors, CreateRest(v) PROVE Proved'
  <2>1. PICK f \in visit[v].form : company' = [company EXCEPT ![f.code].rest = TRUE]
    BY <1>10 DEF CreateRest
  <2>2. company[f.code] \in CompanyRow /\ f.code \in CompanyCodes BY <1>0, <2>1, HeldTyped
  <2>3. company' = [company EXCEPT ![f.code] = [company[f.code] EXCEPT !.rest = TRUE]] BY <2>1
  <2>4. \A k \in CompanyCodes : company'[k].by = company[k].by /\ company'[k].admin = company[k].admin
    BY <1>0, <2>2, <2>3 DEF CompanyRow
  <2>5. OneEach' BY <1>10, <1>a DEF CreateRest
  <2>6. Goes(v, "clear") /\ visit[v].at = "rest" /\ Entered(v) BY <1>10 DEF CreateRest, Proved
  <2>7. Entered(v)' BY <2>6, GoesFields DEF Entered, Verifying
  <2>8. \A w \in Visitors : Entered(w)' \/ visit'[w] = visit[w] BY <2>6, <2>7, GoesFields
  <2>9. QED BY <1>10, <2>4, <2>5, <2>8, ProvedKept DEF CreateRest
<1>11. ASSUME NEW v \in Visitors, ClearSession(v) PROVE Proved'
  <2>1. \A t \in Sessions : session'[t].data \in {session[t].data, {}}
    BY <1>0, <1>11, HeldTyped DEF ClearSession, Emptied
  <2>2. OneEach' BY <1>11, <1>e, <2>1, EndsFields DEF ClearSession, OneEach, Single
  <2>3. \A w \in Visitors : Entered(w)' \/ visit'[w] = visit[w]
    BY <1>11, EndsFields, EnteredIdle DEF ClearSession
  <2>4. QED BY <1>11, <2>2, <2>3, ProvedKept DEF ClearSession
<1>12. ASSUME NEW v \in Visitors, Vanish(v) PROVE Proved'
  <2>1. OneEach' BY <1>12, <1>a DEF Vanish
  <2>2. \A w \in Visitors : Entered(w)' \/ visit'[w] = visit[w]
    BY <1>12, EndsFields, EnteredIdle DEF Vanish
  <2>3. QED BY <1>12, <2>1, <2>2, ProvedKept DEF Vanish
<1>13. CASE TakeName
  BY <1>13, <1>e, ProvedKept DEF TakeName, OneEach
<1>14. ASSUME NEW s \in Sessions, CoolDown(s) PROVE Proved'
  <2>1. \A t \in Sessions : session'[t].data = session[t].data
    BY <1>0, <1>14 DEF CoolDown, Session
  <2>2. OneEach' BY <1>14, <1>e, <2>1 DEF CoolDown, OneEach
  <2>3. QED BY <1>14, <2>2, ProvedKept DEF CoolDown
<1>15. ASSUME NEW i \in Otps, Expire(i) PROVE Proved'
  BY <1>15, <1>e, ProvedKept DEF Expire, OneEach
<1>16. ASSUME NEW k \in CompanyCodes, OwnerCreates(k) PROVE Proved'
  <2>1. company'[k].by = "owner" /\ company'[k].admin = {}
    BY <1>0, <1>16 DEF OwnerCreates, NoCompany
  <2>2. \A l \in CompanyCodes \ {k} : company'[l] = company[l] BY <1>0, <1>16 DEF OwnerCreates
  <2>3. UNCHANGED <<otp, session, visit, spent>> BY <1>16 DEF OwnerCreates
  <2>4. CompaniesKept BY <2>1, <2>2, <2>3 DEF CompaniesKept, Free
  <2>5. \A w \in Visitors : Entered(w)' BY <2>3, <2>4, EnteredKept DEF Proved
  <2>6. SpentUsed' BY <2>3, SpentKept DEF Proved
  <2>7. PhoneWasProved' BY <2>1, <2>2, <2>3, PhonesKept DEF Proved
  <2>8. OneEach' BY <1>e, <2>3 DEF OneEach
  <2>9. QED BY <2>5, <2>6, <2>7, <2>8 DEF Proved
<1>17. CASE UNCHANGED registration
  BY <1>17, <1>e, ProvedKept DEF registration, OneEach
<1>18. QED
  BY <1>1, <1>2, <1>3, <1>4, <1>5, <1>6, <1>7, <1>8, <1>9, <1>10, <1>11, <1>12, <1>13, <1>14,
     <1>15, <1>16, <1>17 DEF RegistrationNext, Visiting, Around

LEMMA ProvedInit == RegistrationInit => Proved
<1> SUFFICES ASSUME RegistrationInit PROVE Proved OBVIOUS
<1>1. \A v \in Visitors : visit[v] = NoVisit BY DEF RegistrationInit
<1>2. \A s \in Sessions : session[s].data = {} BY DEF RegistrationInit, Emptied
<1>3. \A k \in CompanyCodes : company[k].admin = {} /\ spent[k] = {}
  BY DEF RegistrationInit, NoCompany
<1>4. OneEach BY <1>1, <1>2 DEF OneEach, Single, NoVisit
<1>5. \A v \in Visitors : Entered(v)
  <2>a. NoVisit.at = "idle" BY DEF NoVisit
  <2>1. \A v \in Visitors : visit[v].at = "idle" BY <1>1, <2>a
  <2>2. QED BY <2>1 DEF Entered, Verifying
<1>6. QED BY <1>3, <1>4, <1>5 DEF Proved, SpentUsed, PhoneWasProved

LEMMA ProvedAlways == RegistrationSpec => []Proved
<1>1. RegistrationTypeOK /\ CodeExists /\ Proved /\ [RegistrationNext]_registration => Proved'
  BY ProvedStep, RegistrationTypeStep
<1>2. QED BY <1>1, ProvedInit, RegistrationTyped, PTL DEF RegistrationSpec

\* The first user of a company that registered itself has a phone to which a code was
\* sent, and from which it was entered, whatever the pages of one session do meanwhile
\* (CompanyRegistrationService.verify_otp, register_verify).
THEOREM PhoneWasProvedAlways == RegistrationSpec => []PhoneWasProved
<1>1. Proved => PhoneWasProved BY DEF Proved
<1>2. QED BY <1>1, ProvedAlways, PTL

----------------------------------------------------------------------------
\* One company for each code, when a session verifies one code at a time

\* A code that has been compared, and whose company is not yet made, is no company's.
Fresh(v) ==
  visit[v].at \in {"mark", "company"} =>
    \A k \in CompanyCodes : visit[v].otp \cap spent[k] = {}

\* Two requests that verify are of different sessions.
InTurn ==
  /\ \A v \in Visitors : visit[v].at \in Verifying => visit[v].session # {}
  /\ \A v, w \in Visitors :
       visit[v].at \in Verifying /\ visit[w].at \in Verifying
         /\ visit[v].session = visit[w].session => v = w

CodesApart == InTurn /\ (\A v \in Visitors : Fresh(v)) /\ OneCompanyPerOtp

\* A request goes on with its session and its code, or does not verify any more.
GoesOn(v) ==
  \/ visit'[v] = visit[v]
  \/ visit'[v].at \notin Verifying
  \/ /\ visit[v].at \in Verifying
     /\ visit'[v].session = visit[v].session
     /\ Fresh(v)'

\* Where no company is made, codes stay apart.
LEMMA ApartKept ==
  ASSUME CodesApart, \A k \in CompanyCodes : spent'[k] = spent[k],
         \A v \in Visitors : GoesOn(v)
  PROVE  CodesApart'
<1>1. InTurn' BY DEF CodesApart, InTurn, GoesOn
<1>2. \A v \in Visitors : Fresh(v)'
  BY DEF CodesApart, Fresh, GoesOn, Verifying
<1>3. OneCompanyPerOtp' BY DEF CodesApart, OneCompanyPerOtp
<1>4. QED BY <1>1, <1>2, <1>3 DEF CodesApart

\* Two requests past the comparison with one code are one request.
LEMMA SameCode ==
  ASSUME Proved, CodesApart, NEW v \in Visitors, NEW w \in Visitors,
         visit[v].at \in {"mark", "company"}, visit[w].at \in {"mark", "company"},
         NEW i \in visit[v].otp \cap visit[w].otp
  PROVE  v = w
<1>1. Entered(v) /\ Entered(w) BY DEF Proved
<1>2. /\ \A s \in visit[v].session : s = otp[i].session
      /\ \A s \in visit[w].session : s = otp[i].session
  BY <1>1 DEF Entered
<1>3. visit[v].session # {} /\ visit[w].session # {} BY DEF CodesApart, InTurn, Verifying
<1>4. visit[v].session = {otp[i].session} /\ visit[w].session = {otp[i].session}
  BY <1>2, <1>3
<1>5. QED BY <1>4 DEF CodesApart, InTurn, Verifying

\* Each step keeps codes apart.
LEMMA ApartStep ==
  ASSUME ~Overlapping, RegistrationTypeOK, Proved, CodesApart, [RegistrationNext]_registration
  PROVE  CodesApart'
<1>0. /\ visit \in [Visitors -> Visit] /\ spent \in [CompanyCodes -> SUBSET Otps]
  BY DEF RegistrationTypeOK
<1>1. ASSUME NEW v \in Visitors, NEW s \in Sessions, NEW f \in Forms, BeginRegister(v, s, f)
      PROVE  CodesApart'
  BY <1>0, <1>1, ApartKept DEF BeginRegister, GoesOn, Verifying, NoVisit
<1>2. ASSUME NEW v \in Visitors, NEW s \in Sessions, BeginResendOtp(v, s) PROVE CodesApart'
  BY <1>0, <1>2, ApartKept DEF BeginResendOtp, GoesOn, Verifying, NoVisit
<1>3. ASSUME NEW v \in Visitors, NEW s \in Sessions, NEW i \in Otps, BeginVerifyOtp(v, s, i)
      PROVE  CodesApart'
  <2>1. /\ visit'[v].at = "check" /\ visit'[v].session = {s}
        /\ \A w \in Visitors \ {v} : visit'[w] = visit[w]
    BY <1>0, <1>3 DEF BeginVerifyOtp
  <2>2. \A w \in Visitors : visit[w].at \in Verifying => visit[w].session # {s}
    BY <1>3 DEF BeginVerifyOtp
  <2>3. InTurn' BY <2>1, <2>2 DEF CodesApart, InTurn
  <2>4. UNCHANGED spent BY <1>3 DEF BeginVerifyOtp
  <2>5. \A w \in Visitors : Fresh(w)' BY <2>1, <2>4 DEF CodesApart, Fresh
  <2>6. QED BY <2>3, <2>4, <2>5 DEF CodesApart, OneCompanyPerOtp
<1>4. ASSUME NEW v \in Visitors, SendOtp(v) \/ Respond(v) \/ Vanish(v) PROVE CodesApart'
  <2>1. Goes(v, "respond") \/ Ends(v) BY <1>4 DEF SendOtp, Respond, Vanish
  <2>2. \A w \in Visitors : GoesOn(w)
    BY <2>1, GoesFields, EndsFields DEF GoesOn, Verifying
  <2>3. UNCHANGED spent BY <1>4 DEF SendOtp, Respond, Vanish
  <2>4. QED BY <2>2, <2>3, ApartKept
<1>5. ASSUME NEW v \in Visitors, CheckOtp(v) PROVE CodesApart'
  <2>1. PICK i \in visit[v].otp, s \in visit[v].session, f \in visit[v].form :
          IF Matches(i, s, f) THEN Goes(v, "mark") ELSE Ends(v)
    BY <1>5 DEF CheckOtp
  <2>2. UNCHANGED spent /\ visit[v].at = "check" BY <1>5 DEF CheckOtp
  <2>3. visit[v].otp = {i} BY <2>1 DEF Proved, OneEach, Single
  <2>4. ASSUME Matches(i, s, f), Goes(v, "mark") PROVE GoesOn(v)
    <3>1. \A k \in CompanyCodes : i \notin spent[k] BY <2>4 DEF Matches, Proved, SpentUsed
    <3>2. Fresh(v)' BY <2>2, <2>3, <2>4, <3>1, GoesFields DEF Fresh
    <3>3. QED BY <2>2, <2>4, <3>2, GoesFields DEF GoesOn, Verifying
  <2>5. \A w \in Visitors : GoesOn(w)
    BY <2>1, <2>4, GoesFields, EndsFields DEF GoesOn, Verifying
  <2>6. QED BY <2>2, <2>5, ApartKept
<1>6. ASSUME NEW v \in Visitors, MarkOtp(v) PROVE CodesApart'
  <2>1. UNCHANGED spent /\ visit[v].at = "mark" /\ Goes(v, "company") BY <1>6 DEF MarkOtp
  <2>2. Fresh(v)' BY <2>1, GoesFields DEF CodesApart, Fresh
  <2>3. \A w \in Visitors : GoesOn(w) BY <2>1, <2>2, GoesFields DEF GoesOn, Verifying
  <2>4. QED BY <2>1, <2>3, ApartKept
<1>7. ASSUME NEW v \in Visitors, CreateCompany(v) PROVE CodesApart'
  <2>1. PICK f \in visit[v].form :
          IF Free(f.code)
          THEN /\ company' = [company EXCEPT ![f.code] = [NoCompany EXCEPT !.by = "visitor"]]
               /\ spent' = [spent EXCEPT ![f.code] = visit[v].otp]
               /\ Goes(v, "admin")
          ELSE Ends(v) /\ UNCHANGED <<company, spent>>
    BY <1>7 DEF CreateCompany
  <2>2. visit[v].at = "company" BY <1>7 DEF CreateCompany
  <2>3. CASE ~Free(f.code)
    <3>1. \A w \in Visitors : GoesOn(w) BY <2>1, <2>3, EndsFields DEF GoesOn, Verifying
    <3>2. QED BY <2>1, <2>3, <3>1, ApartKept
  <2>4. CASE Free(f.code)
    <3>1. f.code \in CompanyCodes BY <2>1, HeldTyped
    <3>2. Goes(v, "admin") /\ spent' = [spent EXCEPT ![f.code] = visit[v].otp] BY <2>1, <2>4
    <3>3. InTurn' BY <2>2, <3>2, GoesFields DEF CodesApart, InTurn, Verifying
    <3>4. ASSUME NEW w \in Visitors PROVE Fresh(w)'
      <4>1. CASE w = v BY <3>2, <4>1, GoesFields DEF Fresh
      <4>2. CASE w # v /\ visit[w].at \in {"mark", "company"}
        <5>1. visit[w].otp \cap visit[v].otp = {} BY <2>2, <4>2, SameCode
        <5>2. QED BY <1>0, <3>1, <3>2, <4>2, <5>1, GoesFields DEF CodesApart, Fresh
      <4>3. CASE w # v /\ visit[w].at \notin {"mark", "company"}
        BY <3>2, <4>3, GoesFields DEF Fresh
      <4>4. QED BY <4>1, <4>2, <4>3
    <3>5. \A k \in CompanyCodes : visit[v].otp \cap spent[k] = {}
      BY <2>2 DEF CodesApart, Fresh
    <3>6. OneCompanyPerOtp' BY <1>0, <3>1, <3>2, <3>5 DEF CodesApart, OneCompanyPerOtp
    <3>7. QED BY <3>3, <3>4, <3>6 DEF CodesApart
  <2>5. QED BY <2>3, <2>4
<1>8. ASSUME NEW v \in Visitors, CreateAdmin(v) \/ CreateRest(v) \/ ClearSession(v)
      PROVE  CodesApart'
  <2>1. Goes(v, "rest") \/ Goes(v, "clear") \/ Ends(v)
    BY <1>8 DEF CreateAdmin, CreateRest, ClearSession
  <2>2. UNCHANGED spent /\ visit[v].at \in Verifying
    BY <1>8 DEF CreateAdmin, CreateRest, ClearSession, Verifying
  <2>3. \A w \in Visitors : GoesOn(w)
    BY <2>1, <2>2, GoesFields, EndsFields DEF GoesOn, Verifying, Fresh
  <2>4. QED BY <2>2, <2>3, ApartKept
<1>9. ASSUME UNCHANGED <<visit, spent>> PROVE CodesApart'
  BY <1>9, ApartKept DEF GoesOn
<1>10. Around \/ (\E k \in CompanyCodes : OwnerCreates(k)) \/ UNCHANGED registration =>
         UNCHANGED <<visit, spent>>
  BY DEF Around, TakeName, CoolDown, Expire, OwnerCreates, registration
<1>11. QED
  BY <1>1, <1>2, <1>3, <1>4, <1>5, <1>6, <1>7, <1>8, <1>9, <1>10 DEF RegistrationNext, Visiting

\* A code registers one company, when a session does not verify two codes at once: a
\* second form, a second code and a code entered again make no other company of it
\* (CompanyRegistrationService.verify_otp, complete_registration).
THEOREM OneCompanyAlways ==
  ASSUME ~Overlapping
  PROVE  RegistrationSpec => []OneCompanyPerOtp
<1>1. RegistrationInit => CodesApart
  <2>1. ASSUME RegistrationInit
        PROVE  /\ \A v \in Visitors : visit[v].at = "idle"
               /\ \A k \in CompanyCodes : spent[k] = {}
    BY <2>1 DEF RegistrationInit, NoVisit
  <2>2. QED BY <2>1 DEF CodesApart, InTurn, Fresh, OneCompanyPerOtp, Verifying
<1>2. RegistrationTypeOK /\ Proved /\ CodesApart /\ [RegistrationNext]_registration => CodesApart'
  BY ApartStep
<1>3. CodesApart => OneCompanyPerOtp BY DEF CodesApart
<1>4. QED BY <1>1, <1>2, <1>3, ProvedAlways, RegistrationTyped, PTL DEF RegistrationSpec

----------------------------------------------------------------------------
USE ContentsAssumption

----------------------------------------------------------------------------
\* Helpers

\* A request that has ended, or that holds a form of complete contents, is typed.
LEMMA JobTypes ==
  /\ Idle \in Job
  /\ \A op \in Ops, content \in Contents :
       [Idle EXCEPT !.op = op, !.content = content] \in Job
  /\ \A r \in Requests, content \in Contents :
       [Idle EXCEPT !.op = "approve", !.request = {r}, !.content = content] \in Job
  /\ \A op \in Ops, on \in BOOLEAN : [Idle EXCEPT !.op = op, !.active = on] \in Job
  BY DEF Idle, Job, Ops, Empty, Contents

\* A form put into a copy has its type.
LEMMA WithTyped ==
  ASSUME NEW text \in Texts, NEW upload \in Cards, NEW card \in Cards
  PROVE  With(text, upload, card) \in Contents
  BY DEF With, Contents

\* A new profile has its type, and so has every status on its contents.
LEMMA ProfileTypes ==
  /\ NoProfile \in Profile
  /\ \A p \in Profile, status \in Status : [p EXCEPT !.status = status] \in Profile
  BY DEF NoProfile, Profile, Status, Empty, Contents

\* Beginning a typed request keeps the requests typed.
LEMMA BeginTyped ==
  ASSUME TypeOK, NEW c \in Clients, NEW new \in Job, Begin(c, new),
         new.op = "submit" => new.content \in Complete
  PROVE  /\ job' \in [Clients -> Job]
         /\ \A d \in Clients : job'[d].op = "submit" => job'[d].content \in Complete
  BY DEF TypeOK, Begin

\* So does ending one.
LEMMA DoneTyped ==
  ASSUME TypeOK, NEW c \in Clients, Done(c)
  PROVE  /\ job' \in [Clients -> Job]
         /\ \A d \in Clients : job'[d].op = "submit" => job'[d].content \in Complete
  BY JobTypes DEF TypeOK, Done, Idle

----------------------------------------------------------------------------
\* Types

LEMMA TypeInit == Init => TypeOK
<1> SUFFICES ASSUME Init PROVE TypeOK OBVIOUS
<1>1. NoRequest \in Request BY DEF NoRequest, Request, RequestStatus, Empty, Contents
<1>2. request \in [Requests -> Request] BY <1>1 DEF Init
<1>3. job \in [Clients -> Job] BY JobTypes DEF Init
<1>4. \A c \in Clients : job[c].op = "submit" => job[c].content \in Complete
  BY DEF Init, Idle
<1>5. QED BY <1>2, <1>3, <1>4, ProfileTypes DEF Init, TypeOK

\* What a request of the company does keeps the types.
LEMMA TypeCompany ==
  ASSUME TypeOK, NEW c \in Clients, Company(c) PROVE TypeOK'
<1>1. CASE BeginSubmit(c)
  <2>1. PICK content \in Complete : Begin(c, [Idle EXCEPT !.op = "submit", !.content = content])
    BY <1>1 DEF BeginSubmit
  <2>2. [Idle EXCEPT !.op = "submit", !.content = content] \in Job
    BY JobTypes DEF Ops, Complete
  <2>3. QED BY <1>1, <2>1, <2>2, BeginTyped DEF BeginSubmit, TypeOK, history, Idle
<1>2. CASE SaveSubmit(c)
  <2>1. job[c].content \in Contents BY <1>2 DEF TypeOK, SaveSubmit, Complete
  <2>2. profile' \in Profile BY <1>2, <2>1 DEF SaveSubmit, Submitted, Profile, Status
  <2>3. QED BY <1>2, <2>2, DoneTyped DEF SaveSubmit, TypeOK
<1>3. CASE BeginPropose(c)
  <2>1. PICK content \in Contents : Begin(c, [Idle EXCEPT !.op = "propose", !.content = content])
    BY <1>3 DEF BeginPropose
  <2>2. [Idle EXCEPT !.op = "propose", !.content = content] \in Job
    BY JobTypes DEF Ops
  <2>3. QED BY <1>3, <2>1, <2>2, BeginTyped DEF BeginPropose, TypeOK, history, Idle
<1>4. ASSUME NEW r \in Requests, InsertRequest(c, r) PROVE TypeOK'
  <2>1. job[c].content \in Contents BY <1>4 DEF TypeOK, Job
  <2>2. request' \in [Requests -> Request]
    BY <1>4, <2>1 DEF InsertRequest, TypeOK, Request, RequestStatus
  <2>3. QED BY <1>4, <2>2, DoneTyped DEF InsertRequest, TypeOK, history
<1>5. CASE BeginGateway(c)
  <2>1. [Idle EXCEPT !.op = "gateway", !.active = active] \in Job
    BY JobTypes DEF Ops, TypeOK
  <2>2. QED BY <1>5, <2>1, BeginTyped DEF BeginGateway, TypeOK, history, Idle
<1>6. CASE SaveGateway(c)
  <2>1. profile.content \in Contents BY DEF TypeOK, Profile
  <2>2. setting' \in BOOLEAN BY <1>6 DEF SaveGateway, Eligible, TypeOK, Job
  <2>3. used' \in SUBSET Contents BY <1>6, <2>1 DEF SaveGateway, TypeOK
  <2>4. QED BY <1>6, <2>2, <2>3, DoneTyped DEF SaveGateway, TypeOK
<1>7. CASE BeginStart(c)
  <2>1. [Idle EXCEPT !.op = "start", !.active = active] \in Job
    BY JobTypes DEF Ops, TypeOK
  <2>2. QED BY <1>7, <2>1, BeginTyped DEF BeginStart, TypeOK, history, Idle
<1>8. CASE Start(c)
  <2>1. profile.content \in Contents BY DEF TypeOK, Profile
  <2>2. QED BY <1>8, <2>1, DoneTyped DEF Start, TypeOK
<1>9. QED BY <1>1, <1>2, <1>3, <1>4, <1>5, <1>6, <1>7, <1>8 DEF Company

\* So does what a request of the owner does.
LEMMA TypeOwner ==
  ASSUME TypeOK, NEW c \in Clients, Owner(c) PROVE TypeOK'
<1>1. ASSUME NEW r \in Requests, BeginApply(c, r) PROVE TypeOK'
  <2>1. PICK content :
          /\ content = With(request[r].proposed.text, request[r].proposed.card, profile.content.card)
          /\ Begin(c, [Idle EXCEPT !.op = "approve", !.request = {r}, !.content = content])
    BY <1>1 DEF BeginApply
  <2>2. content \in Contents
    <3>1. request[r].proposed \in Contents /\ profile.content \in Contents
      BY <1>1 DEF TypeOK, Request, Profile
    <3>2. QED BY <2>1, <3>1, WithTyped DEF Contents
  <2>3. [Idle EXCEPT !.op = "approve", !.request = {r}, !.content = content] \in Job
    BY <1>1, <2>2, JobTypes
  <2>4. QED BY <1>1, <2>1, <2>3, BeginTyped DEF BeginApply, TypeOK, Idle, history
<1>6. CASE SaveApply(c)
  <2>1. job[c] \in Job /\ job[c].content \in Contents /\ job[c].request \in SUBSET Requests
    BY DEF TypeOK, Job
  <2>2. profile' \in Profile BY <1>6, <2>1 DEF SaveApply, Profile, Status
  <2>3. [job[c] EXCEPT !.op = "close"] \in Job BY <2>1 DEF Job, Ops
  <2>4. job' = [job EXCEPT ![c] = [job[c] EXCEPT !.op = "close"]] BY <1>6 DEF SaveApply
  <2>5. /\ job' \in [Clients -> Job]
        /\ \A d \in Clients : job'[d].op = "submit" => job'[d].content \in Complete
    BY <2>1, <2>3, <2>4 DEF TypeOK, Job
  <2>6. endorsed' \in SUBSET Contents /\ applied' \in SUBSET Requests
    BY <1>6, <2>1 DEF SaveApply, TypeOK
  <2>7. QED BY <1>6, <2>2, <2>5, <2>6 DEF SaveApply, TypeOK
<1>2. ASSUME NEW r \in Requests, CloseRequest(c, r) PROVE TypeOK'
  <2>1. request' \in [Requests -> Request]
    BY <1>2 DEF CloseRequest, TypeOK, Request, RequestStatus
  <2>2. QED BY <1>2, <2>1, DoneTyped DEF CloseRequest, TypeOK, history
<1>3. CASE BeginEdit(c)
  <2>1. [Idle EXCEPT !.op = "edit", !.active = active] \in Job
    BY JobTypes DEF Ops, TypeOK
  <2>2. QED BY <1>3, <2>1, BeginTyped DEF BeginEdit, TypeOK, history, Idle
<1>4. CASE SaveEdit(c)
  <2>1. job[c].active \in BOOLEAN BY DEF TypeOK, Job
  <2>2. QED BY <1>4, <2>1, DoneTyped DEF SaveEdit, TypeOK, history
<1>5. QED BY <1>1, <1>2, <1>3, <1>4, <1>6 DEF Owner

\* Every step keeps the types.
LEMMA TypeStep == TypeOK /\ [Next]_vars => TypeOK'
<1> SUFFICES ASSUME TypeOK, [Next]_vars PROVE TypeOK' OBVIOUS
<1>1. CASE Open
  BY <1>1, ProfileTypes DEF Open, TypeOK, Status, history
<1>2. CASE Decide
  <2>1. profile' \in Profile BY <1>2, ProfileTypes DEF Decide, TypeOK, Status
  <2>2. QED BY <1>2, <2>1 DEF Decide, TypeOK, history
<1>3. CASE Approve
  <2>1. profile' \in Profile BY <1>3, ProfileTypes DEF Approve, TypeOK, Status
  <2>2. profile.content \in Contents BY DEF TypeOK, Profile
  <2>3. QED BY <1>3, <2>1, <2>2 DEF Approve, TypeOK
<1>4. ASSUME NEW r \in Requests, RejectRequest(r) PROVE TypeOK'
  <2>1. request' \in [Requests -> Request]
    BY <1>4 DEF RejectRequest, Refused, TypeOK, Request, RequestStatus
  <2>2. QED BY <1>4, <2>1 DEF RejectRequest, TypeOK, history
<1>5. CASE Activate
  <2>1. profile' \in Profile BY <1>5, ProfileTypes DEF Activate, TypeOK, Status
  <2>2. QED BY <1>5, <2>1 DEF Activate, TypeOK
<1>6. CASE Deactivate
  BY <1>6 DEF Deactivate, TypeOK
<1>7. ASSUME NEW c \in Clients, Crash(c) PROVE TypeOK'
  BY <1>7, DoneTyped DEF Crash, TypeOK, history
<1>8. CASE UNCHANGED vars
  BY <1>8 DEF TypeOK, vars, history
<1>9. QED BY <1>1, <1>2, <1>3, <1>4, <1>5, <1>6, <1>7, <1>8, TypeCompany, TypeOwner DEF Next

\* The rows of a profile's review keep their types, and a form is only submitted
\* with every required field (MerchantProfileService.submit).
THEOREM ReviewTyped == Spec => []TypeOK
  BY TypeInit, TypeStep, PTL DEF Spec

----------------------------------------------------------------------------
\* Gateways

\* Only contents in force are used.
LEMMA GatewayStep == TypeOK /\ GatewayForEndorsed /\ [Next]_vars => GatewayForEndorsed'
<1> SUFFICES ASSUME TypeOK, GatewayForEndorsed, [Next]_vars PROVE GatewayForEndorsed' OBVIOUS
<1> USE DEF GatewayForEndorsed, history
<1>1. CASE Open
  BY <1>1 DEF Open, TypeOK, Profile
<1>2. CASE Decide
  BY <1>2 DEF Decide, TypeOK, Profile
<1>3. CASE Approve
  BY <1>3 DEF Approve, TypeOK, Profile
<1>4. ASSUME NEW r \in Requests, RejectRequest(r) PROVE GatewayForEndorsed'
  BY <1>4 DEF RejectRequest
<1>5. CASE Activate \/ Deactivate
  BY <1>5 DEF Activate, Deactivate, TypeOK, Profile
<1>6. ASSUME NEW c \in Clients, Company(c) PROVE GatewayForEndorsed'
  <2>1. CASE BeginSubmit(c) \/ BeginPropose(c) \/ BeginGateway(c) \/ BeginStart(c)
    BY <2>1 DEF BeginSubmit, BeginPropose, BeginGateway, BeginStart
  <2>2. CASE SaveSubmit(c)
    BY <2>2 DEF SaveSubmit, Submitted
  <2>3. ASSUME NEW r \in Requests, InsertRequest(c, r) PROVE GatewayForEndorsed'
    BY <2>3 DEF InsertRequest
  <2>4. CASE SaveGateway(c) \/ Start(c)
    BY <2>4 DEF SaveGateway, Start, Eligible
  <2>5. QED BY <1>6, <2>1, <2>2, <2>3, <2>4 DEF Company
<1>7. ASSUME NEW c \in Clients, Owner(c) PROVE GatewayForEndorsed'
  <2>1. ASSUME NEW r \in Requests, BeginApply(c, r) PROVE GatewayForEndorsed'
    BY <2>1 DEF BeginApply
  <2>5. CASE SaveApply(c) BY <2>5 DEF SaveApply
  <2>2. ASSUME NEW r \in Requests, CloseRequest(c, r) PROVE GatewayForEndorsed'
    BY <2>2 DEF CloseRequest
  <2>3. CASE BeginEdit(c) \/ SaveEdit(c)
    BY <2>3 DEF BeginEdit, SaveEdit
  <2>4. QED BY <1>7, <2>1, <2>2, <2>3, <2>5 DEF Owner
<1>8. ASSUME NEW c \in Clients, Crash(c) PROVE GatewayForEndorsed'
  BY <1>8 DEF Crash
<1>9. CASE UNCHANGED vars
  BY <1>9 DEF vars
<1>10. QED BY <1>1, <1>2, <1>3, <1>4, <1>5, <1>6, <1>7, <1>8, <1>9 DEF Next

\* No payment begins, and no gateway is switched on, with bank data the owner has not
\* put in force, however submissions and decisions overlap
\* (CompanyPaymentEligibilityService, MerchantProfileService.submit).
THEOREM GatewayAlways == Spec => []GatewayForEndorsed
<1>1. Init => GatewayForEndorsed
  BY DEF Init, GatewayForEndorsed, NoProfile
<1>2. QED BY <1>1, GatewayStep, ReviewTyped, PTL DEF Spec

----------------------------------------------------------------------------
\* Change requests

\* An approval in flight has written its proposal.
BeingClosed == \A c \in Clients : job[c].op = "close" => job[c].request \subseteq applied

\* What marks a request APPROVED is preceded by the write of its proposal.
LEMMA AppliedStep ==
  TypeOK /\ ApprovedWasApplied /\ BeingClosed /\ [Next]_vars => (ApprovedWasApplied /\ BeingClosed)'
<1> SUFFICES ASSUME TypeOK, ApprovedWasApplied, BeingClosed, [Next]_vars
             PROVE  (ApprovedWasApplied /\ BeingClosed)'
  OBVIOUS
<1> USE DEF ApprovedWasApplied, BeingClosed, history
<1>0. job \in [Clients -> Job] /\ request \in [Requests -> Request] BY DEF TypeOK
<1>1. CASE Open \/ Decide \/ Approve \/ Activate \/ Deactivate
  BY <1>1 DEF Open, Decide, Approve, Activate, Deactivate
<1>2. ASSUME NEW r \in Requests, RejectRequest(r) PROVE (ApprovedWasApplied /\ BeingClosed)'
  BY <1>0, <1>2 DEF RejectRequest, Refused, Request
<1>3. ASSUME NEW c \in Clients, Company(c) PROVE (ApprovedWasApplied /\ BeingClosed)'
  <2>1. CASE BeginSubmit(c)
    BY <1>0, <2>1 DEF BeginSubmit, Begin, Idle
  <2>2. CASE BeginPropose(c)
    BY <1>0, <2>2 DEF BeginPropose, Begin, Idle
  <2>3. CASE BeginGateway(c) \/ BeginStart(c)
    BY <1>0, <2>3 DEF BeginGateway, BeginStart, Begin, Idle
  <2>4. CASE SaveSubmit(c) \/ SaveGateway(c) \/ Start(c)
    BY <1>0, <2>4 DEF SaveSubmit, SaveGateway, Start, Done, Idle
  <2>5. ASSUME NEW r \in Requests, InsertRequest(c, r)
        PROVE  (ApprovedWasApplied /\ BeingClosed)'
    BY <1>0, <2>5 DEF InsertRequest, Done, Idle
  <2>6. QED BY <1>3, <2>1, <2>2, <2>3, <2>4, <2>5 DEF Company
<1>4. ASSUME NEW c \in Clients, Owner(c) PROVE (ApprovedWasApplied /\ BeingClosed)'
  <2>1. ASSUME NEW r \in Requests, BeginApply(c, r)
        PROVE  (ApprovedWasApplied /\ BeingClosed)'
    BY <1>0, <2>1 DEF BeginApply, Begin, Idle
  <2>6. CASE SaveApply(c)
    <3>1. job[c] \in Job BY <1>0
    <3>2. \A d \in Clients : job'[d] = IF d = c THEN [job[c] EXCEPT !.op = "close"] ELSE job[d]
      BY <1>0, <2>6 DEF SaveApply
    <3>3. [job[c] EXCEPT !.op = "close"].request = job[c].request BY <3>1 DEF Job
    <3>4. applied' = applied \cup job[c].request /\ request' = request BY <2>6 DEF SaveApply
    <3>5. QED BY <3>2, <3>3, <3>4
  <2>2. ASSUME NEW r \in Requests, CloseRequest(c, r)
        PROVE  (ApprovedWasApplied /\ BeingClosed)'
    BY <1>0, <2>2 DEF CloseRequest, Done, Idle, Request
  <2>3. CASE BeginEdit(c)
    BY <1>0, <2>3 DEF BeginEdit, Begin, Idle
  <2>4. CASE SaveEdit(c)
    BY <1>0, <2>4 DEF SaveEdit, Done, Idle
  <2>5. QED BY <1>4, <2>1, <2>2, <2>3, <2>4, <2>6 DEF Owner
<1>5. ASSUME NEW c \in Clients, Crash(c) PROVE (ApprovedWasApplied /\ BeingClosed)'
  BY <1>0, <1>5 DEF Crash, Done, Idle
<1>6. CASE UNCHANGED vars
  BY <1>6 DEF vars
<1>7. QED BY <1>1, <1>2, <1>3, <1>4, <1>5, <1>6 DEF Next

\* The proposal of an APPROVED change request was written to the profile, wherever the
\* process dies (MerchantProfileChangeRequestService.approve).
THEOREM AppliedAlways == Spec => []ApprovedWasApplied
<1>1. Init => ApprovedWasApplied /\ BeingClosed
  BY DEF Init, ApprovedWasApplied, BeingClosed, NoRequest, Idle
<1>2. QED BY <1>1, AppliedStep, ReviewTyped, PTL DEF Spec

----------------------------------------------------------------------------
\* A company from its form to its first payment is a registration and a review: what
\* is proved of each holds of Onboarding.
THEOREM OnboardingIsBoth == OnboardingSpec => RegistrationSpec /\ Spec
<1>1. OnboardingInit => RegistrationInit /\ Init
  BY DEF OnboardingInit
<1>2. [Registering \/ Reviewing]_<<registration, vars>>
        => [RegistrationNext]_registration /\ [Next]_vars
  BY DEF Registering, Reviewing
<1>3. QED
  BY <1>1, <1>2, PTL DEF OnboardingSpec, RegistrationSpec, Spec

=============================================================================
