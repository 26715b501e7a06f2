--------------------------- MODULE MCConsentKernel ---------------------------
(***************************************************************************)
(* A small instance of ConsentKernel: a person (subj), a relative who may  *)
(* be executor, an heir who may be beneficiary and successor, an          *)
(* administrator, and a service.                                           *)
(***************************************************************************)
EXTENDS ConsentKernel, TLC

CONSTANTS subj, heir, adm, svc, p1, p2

MCHuman == {subj, heir, adm}
MCActor == MCHuman \cup {svc}
MCProc == {p1, p2}

EstateOffer(quorum) ==
  [type |-> "ESTATE", scope |-> {"VOICE_SYNTHESIS"}, named |-> {heir}, required |-> quorum]
PreNeedOffer ==
  [type |-> "SELF_PRE_NEED", scope |-> {"VOICE_SYNTHESIS"}, named |-> {}, required |-> AllNamed]

SynthesisRequest == [action |-> "INITIATE_VOICE_SYNTHESIS", purpose |-> "VOICE_SYNTHESIS"]
ExportRequest(purpose) == [action |-> "EXPORT_DATA", purpose |-> purpose]

\* Two grants, every kind of request; the estate grant needs no quorum, so a
\* use and its revocation fit in MaxRequests.
MCOffer == {EstateOffer(0), PreNeedOffer}
MCRequest == {SynthesisRequest, ExportRequest("DATA_PORTABILITY"), ExportRequest(BannedPurpose)}

\* One grant over a longer behaviour: estate consent with its quorum, or
\* pre-need consent from creation through designation and death to use.
MCLongOffer == {EstateOffer(AllNamed), PreNeedOffer}
MCLongRequest == {SynthesisRequest}

Threads == Permutations(MCProc)
=============================================================================
