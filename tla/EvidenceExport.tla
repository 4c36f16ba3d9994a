--------------------------- MODULE EvidenceExport ---------------------------
(***************************************************************************)
(* export_evidence projects a stored proposal into a bundle, and           *)
(* validate_evidence_bundle judges it (evidence.py).  The bundle of a      *)
(* proposal is its row; digest, identities and schema versions agree by    *)
(* construction of the projection, so what is left to disagree is the      *)
(* lifecycle status with the receipts.                                     *)
(***************************************************************************)
EXTENDS ActionRuntime

Receipts(record) == {record.receipts[i] : i \in DOMAIN record.receipts}

\* build_evidence_bundle: an erased or erasing proposal exports no receipts.
Bundle(record) ==
    IF record.erasure = "none" THEN record
    ELSE [record EXCEPT !.evidence = {}, !.receipts = <<>>]

\* _lifecycle_is_supported
LifecycleIsSupported(bundle) ==
    IF bundle.erasure # "none"
    THEN bundle.receipts = <<>> /\ bundle.evidence = {}
    ELSE /\ bundle.receipts # <<>>
         /\ Head(bundle.receipts) = "prepared"
         /\ bundle.status = "verified"
              => "verified_completion" \in Receipts(bundle)
         /\ bundle.status = "failed_known"
              => Receipts(bundle) \cap {"failed_known",
                                        "verified_terminal_failure"} # {}

\* Every bundle the runtime exports validates as consistent: "the supported
\* fields agree internally" (docs/reference/evidence.md).
ExportsAreConsistent ==
    \A p \in Proposals :
        Stored(p) => LifecycleIsSupported(Bundle(proposals[p]))

\* The exports the validator rejects are exactly those of proposals that failed
\* through an authoritative final absence without any execution or terminal
\* failure receipt: nothing else the runtime records makes a status unsupported.
OnlyFinalAbsenceUnsupported ==
    \A p \in Proposals :
        Stored(p) /\ ~LifecycleIsSupported(Bundle(proposals[p])) =>
            /\ proposals[p].status = "failed_known"
            /\ Last(proposals[p].receipts) = "authoritative_final_absence"
=============================================================================
