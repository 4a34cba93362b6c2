----------------------------- MODULE Onboarding -----------------------------
(***************************************************************************)
(* A company from the form of a visitor to its first payment through a     *)
(* gateway: CompanyRegistration until it exists, then MerchantReview.      *)
(***************************************************************************)
EXTENDS CompanyRegistration, MerchantReview

CONSTANT Plain  \* the form of the company whose profile is followed

ASSUME PlainAssumption == Plain \in Forms

\* The company of a visitor waits for the owner to activate it.
OnboardingInit == RegistrationInit /\ Init /\ ~active

\* Bounds: the review begins after one plain registration, and no other follows.
Untouched == ~active /\ profile = NoProfile /\ \A c \in Clients : job[c] = Idle
Registered ==
  /\ company = [k \in CompanyCodes |->
                  IF k # Plain.code THEN NoCompany
                  ELSE [by |-> "visitor", admin |-> {Plain.phone}, rest |-> TRUE]]
  /\ taken = {Plain.name}
  /\ Len(otp) = 1 /\ ~otp[1].expired
  /\ session = [s \in Sessions |-> Emptied]
  /\ visit = [v \in Visitors |-> NoVisit]

Registering == Untouched /\ RegistrationNext /\ UNCHANGED vars

Reviewing == Registered /\ Next /\ UNCHANGED registration

OnboardingSpec == OnboardingInit /\ [][Registering \/ Reviewing]_<<registration, vars>>

=============================================================================
