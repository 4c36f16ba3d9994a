-------------------------- MODULE MCQualification ---------------------------
(***************************************************************************)
(* All five databases, two migrators and a script, and for each kit every  *)
(* modelled fault that one of its calls could show.                        *)
(***************************************************************************)
EXTENDS Qualification

ModelledFaults ==
  [ store |-> { "ignores_revision", "keeps_failed_claim", "loses_rows", "shares_tenants",
                "rewrites_evidence", "rewrites_receipts", "keeps_content", "any_edge",
                "writes_rejected", "admits_both", "keeps_stale_claim", "moves_verified_claim",
                "erases_active" },
    connections |-> {"private_connections", "cas_not_atomic", "admits_both"},
    bound_providers |-> { "accepts_mutation", "plaintext", "destroys_mismatched",
                          "destroys_cross_tenant", "second_destroy_raises", "never_destroys" },
    providers |-> {"accepts_mutation", "plaintext", "second_destroy_raises", "never_destroys"},
    runtime |-> { "executes_unapproved", "executes_twice", "resends_on_verification",
                  "never_verifies", "repeats_verified", "skips_reauthorization",
                  "ignores_drift", "no_replacement" },
    stripe |-> { "rebinds_intent", "shares_tenants", "double_reserve", "reopens_closed",
                 "cross_group", "global_lock", "unlocked_writer", "writer_ignores_reservation",
                 "ignores_drift", "forgets_reservation", "ignores_deadline", "rebinds_outcome" } ]
=============================================================================
